---------------------------- MODULE ThickClient ----------------------------
(***************************************************************************)
(* A thick client (thick-client.ts) keeping its own copy of the document   *)
(* over a WebSocket: field writes apply locally at once, structural edits  *)
(* are built from the tree and apply when their echo arrives, edits made   *)
(* offline wait for the snapshot of the next connection.                   *)
(*                                                                         *)
(* The document is one slot of the root: the order of its nodes, and one   *)
(* field per node.  The server (_session.py) answers requests in the order *)
(* they came; the host edits the document too.  A frame is in the order    *)
(* the session sends it; what happens inside the session is in Session.    *)
(***************************************************************************)
EXTENDS Integers, Sequences, FiniteSets, SequencesExt

CONSTANTS
    Nodes,        \* the identities of nodes
    NoNode,       \* the anchor 0
    Start,        \* the nodes of the document, in order
    Values,       \* the values of the field; 0 is the default
    Limit,        \* the host's normalizer cuts a value above Limit to it,
    Tally,        \* and sets this node's field to 1 when it does
    Features,     \* "linger": requests of a connection that broke are served
    MaxEdits, MaxHost, MaxBreaks

ASSUME StartAssumption  == Start \in Seq(Nodes) /\ IsInjective(Start) /\ NoNode \notin Nodes
ASSUME ValuesAssumption ==
    /\ Values \subseteq Nat /\ 0 \in Values /\ Limit \in Values
    /\ Tally \in Nodes => 1 \in Values
ASSUME BoundsAssumption == MaxEdits \in Nat /\ MaxHost \in Nat /\ MaxBreaks \in Nat

VARIABLES
    sdoc,         \* the server's document
    srv,          \* the handler of the client: "idle", "reject" or "resync"
    late,         \* commits broadcast only after a rejection's snapshot
    up, down,     \* the connection's two directions
    ghost,        \* requests a broken connection left to the server
    link,         \* "down", "pending" (onlinePending) or "up"
    local,        \* doc: the LocalDoc
    pending,      \* pendingOps
    buffered,     \* bufferedOps
    rejected,     \* rejectedPending
    base,         \* what the server has told the client, without masking
    minted,       \* identities in use
    decided,      \* edits the server has applied or refused
    dropped,      \* edits a snapshot took from pendingOps undecided
    doubled,      \* two structural commits came after the snapshot showing them
    edits, hosts, breaks

client == <<local, pending, buffered, rejected, base>>
counts == <<minted, edits, hosts, breaks, dropped>>
vars   == <<sdoc, srv, late, up, down, ghost, link, client, decided, doubled,
            counts>>

-----------------------------------------------------------------------------
(* Wire operations: at most one structural operation, and a state patch.   *)

State == UNION {[S -> Values] : S \in SUBSET Nodes}
Ops   == [kind : {"none", "insert", "delete", "move"}, node : Nodes \cup {NoNode},
          prev : Nodes \cup {NoNode}, next : Nodes \cup {NoNode}, state : State]

Patch(kind, n, p, q, s) ==
    [kind |-> kind, node |-> n, prev |-> p, next |-> q, state |-> s]
NoState     == [n \in {} |-> 0]
Only(n, v)  == [x \in {n} |-> v]
Write(n, v) == Patch("none", NoNode, NoNode, NoNode, Only(n, v))

Index(s, n) == SelectInSeq(s, LAMBDA x : x = n)

(* The neighbours of n, NoNode at an end. *)
PrevOf(s, n) == IF Index(s, n) <= 1 THEN NoNode ELSE s[Index(s, n) - 1]
NextOf(s, n) ==
    IF Index(s, n) \in {0, Len(s)} THEN NoNode ELSE s[Index(s, n) + 1]

(* After p if it is there, else before q if it is there, else at the end. *)
Place(s, n, p, q) ==
    IF Contains(s, p) THEN InsertAt(s, Index(s, p) + 1, n)
    ELSE IF Contains(s, q) THEN InsertAt(s, Index(s, q), n)
    ELSE Append(s, n)

Placed(s, o) ==
    CASE o.kind = "insert" -> Place(s, o.node, o.prev, o.next)
      [] o.kind = "move"   -> Place(RemoveFirst(s, o.node), o.node, o.prev, o.next)
      [] o.kind = "delete" -> RemoveFirst(s, o.node)
      [] OTHER             -> s

(* A state's values on top of a document's. *)
Over(state, val) ==
    [n \in Nodes |-> IF n \in DOMAIN state THEN state[n] ELSE val[n]]

(* A node that is not in the document holds no value. *)
Document(order, val) ==
    [order |-> order,
     val   |-> [n \in Nodes |-> IF Contains(order, n) THEN val[n] ELSE 0]]

Applied(doc, o) == Document(Placed(doc.order, o), Over(o.state, doc.val))

(* LocalDoc._applyOps: an operation on a node that is gone is skipped; an  *)
(* insert of a node it has fails, and the whole patch is rolled back.      *)
Lenient(doc, o) ==
    IF o.kind = "insert" /\ Contains(doc.order, o.node) THEN doc
    ELSE IF o.kind = "move" /\ ~Contains(doc.order, o.node)
      THEN Document(doc.order, Over(o.state, doc.val))
    ELSE Applied(doc, o)

-----------------------------------------------------------------------------
(* The server.                                                             *)

(* on_apply_operations(strict=True): a missing target refuses the request. *)
Applies(doc, o) ==
    /\ o.kind = "insert" => ~Contains(doc.order, o.node)
    /\ o.kind \in {"delete", "move"} => Contains(doc.order, o.node)
    /\ DOMAIN o.state \subseteq ToSet(Placed(doc.order, o))

Normalized(doc) ==
    LET held == ToSet(doc.order)
        over == {n \in held : doc.val[n] > Limit}
    IN  [doc EXCEPT !.val = [n \in Nodes |->
            IF n \in over THEN Limit
            ELSE IF n = Tally /\ n \in held /\ over # {} THEN 1 ELSE doc.val[n]]]

Committed(doc, o) == Normalized(Applied(doc, o))

(* The operations of the commit, as recorded: a node with the neighbours   *)
(* it got, the fields whose values are not what they were.                 *)
Recorded(doc, o, new) ==
    LET wrote == {n \in ToSet(new.order) : \/ new.val[n] # doc.val[n]
                                           \/ o.kind = "insert" /\ n = o.node}
        state == [n \in wrote |-> new.val[n]]
    IN  IF new.order = doc.order
          THEN Patch("none", NoNode, NoNode, NoNode, state)
          ELSE Patch(o.kind, o.node, PrevOf(new.order, o.node),
                     NextOf(new.order, o.node), state)

(* Mutant: a request that changed nothing is answered with no values. *)
AnswerEmpty(doc, o, new) ==
    IF new # doc THEN Recorded(doc, o, new)
    ELSE Patch("none", NoNode, NoNode, NoNode, NoState)

(* A request that changed nothing is answered alone, with the values the   *)
(* server holds for the fields it wrote (_stored_values).                  *)
Answer(doc, o, new) ==
    IF new # doc THEN Recorded(doc, o, new)
    ELSE Patch("none", NoNode, NoNode, NoNode, [n \in DOMAIN o.state |-> new.val[n]])

PatchMsg(ref, o)  == [type |-> "patch", ref |-> ref, ops |-> o]
ErrorMsg(ref)     == [type |-> "error", ref |-> ref]
SnapshotMsg(doc)  == [type |-> "snapshot", doc |-> doc]

(* Mutant: a request that changed nothing is not answered. *)
ServeSilently ==
    /\ link # "down" /\ srv = "idle" /\ up # <<>>
    /\ LET r == Head(up) IN
        \/ /\ Applies(sdoc, r.ops)
           /\ sdoc' = Committed(sdoc, r.ops)
           /\ down' = IF sdoc' = sdoc THEN down
                      ELSE Append(down, PatchMsg(r.id, Answer(sdoc, r.ops, sdoc')))
           /\ srv' = srv /\ up' = Tail(up)
        \/ /\ ~Applies(sdoc, r.ops)
           /\ srv' = "reject"
           /\ UNCHANGED <<sdoc, down, up>>
    /\ decided' = decided \cup {Head(up).id}
    /\ UNCHANGED <<late, ghost, link, client, doubled, counts>>

(* _handle_request of an "op" message: the commit's patch, which carries   *)
(* the ref to the client that asked, or a rejection.                       *)
Serve ==
    /\ link # "down" /\ srv = "idle" /\ up # <<>>
    /\ LET r == Head(up) IN
        \/ /\ Applies(sdoc, r.ops)
           /\ sdoc' = Committed(sdoc, r.ops)
           /\ down' = Append(down, PatchMsg(r.id, Answer(sdoc, r.ops, sdoc')))
           /\ srv' = srv /\ up' = Tail(up)
        \/ /\ ~Applies(sdoc, r.ops)
           /\ srv' = "reject"
           /\ UNCHANGED <<sdoc, down, up>>
    /\ decided' = decided \cup {Head(up).id}
    /\ UNCHANGED <<late, ghost, link, client, doubled, counts>>

(* The rejection is sent after what was committed before it ... *)
SendError ==
    /\ srv = "reject"
    /\ down' = Append(down, ErrorMsg(Head(up).id))
    /\ up' = Tail(up)
    /\ srv' = "resync"
    /\ UNCHANGED <<sdoc, late, ghost, link, client, decided, doubled, counts>>

Structural(m) == m.ops.kind # "none"

(* ... and is followed by a snapshot of the document as it is then. *)
Resync ==
    /\ srv = "resync"
    /\ down' = Append(down, SnapshotMsg(sdoc)) \o late
    /\ late' = <<>>
    /\ srv' = "idle"
    /\ doubled' = (doubled \/
                   \E i, j \in DOMAIN late : i < j /\ Structural(late[i]) /\ Structural(late[j]))
    /\ UNCHANGED <<sdoc, up, ghost, link, client, decided, counts>>

(* A commit that is not this connection's: its patch carries no ref of it. *)
(* While a rejection is being answered the broadcast may come only after   *)
(* the snapshot that already shows the commit.                             *)
Broadcast(o) ==
    /\ sdoc' = Committed(sdoc, o)
    /\ LET m == PatchMsg(0, Recorded(sdoc, o, sdoc'))
       IN  \/ link = "down" /\ UNCHANGED <<down, late>>
           \/ link # "down" /\ late = <<>> /\ down' = Append(down, m) /\ late' = late
           \/ srv = "resync" /\ late' = Append(late, m) /\ down' = down
    /\ UNCHANGED <<srv, up, link, client, minted, edits, breaks, dropped>>

HostEdits ==
    LET held == ToSet(sdoc.order) IN
    {Write(n, v) : n \in held, v \in Values}
      \cup {Patch("delete", n, NoNode, NoNode, NoState) : n \in held}
      \cup {Patch("move", n, p, NoNode, NoState) : n \in held, p \in held \cup {NoNode}}

HostCommit ==
    /\ hosts < MaxHost
    /\ \E o \in HostEdits :
         /\ o.kind = "move" => o.prev # o.node
         /\ Committed(sdoc, o) # sdoc
         /\ Broadcast(o)
    /\ hosts' = hosts + 1
    /\ UNCHANGED <<ghost, decided, doubled>>

(* A request of a connection that broke is served all the same; a          *)
(* rejection goes nowhere.                                                 *)
ServeGhost ==
    /\ ghost # <<>>
    /\ LET o == Head(ghost).ops IN
         IF Applies(sdoc, o) /\ Committed(sdoc, o) # sdoc THEN Broadcast(o)
         ELSE UNCHANGED <<sdoc, srv, late, up, down, link, client, minted, edits, breaks, dropped>>
    /\ ghost' = Tail(ghost)
    /\ decided' = decided \cup {Head(ghost).id}
    /\ UNCHANGED <<doubled, hosts>>

-----------------------------------------------------------------------------
(* PendingModel.                                                           *)

Online == link = "up"

Ids(s) == {s[i].id : i \in DOMAIN s}

OpsOf(s) == [i \in DOMAIN s |-> s[i].ops]

(* The edits no echo has confirmed, in order.  Those that are applied are  *)
(* writes, which insert, delete and place nothing.                         *)
Unconfirmed == OpsOf(pending) \o OpsOf(buffered)

(* What they insert, delete and place, taken in order. *)
Foreseen ==
    FoldLeft(LAMBDA m, o :
        CASE o.kind = "insert" ->
               [inserted |-> m.inserted \cup {o.node}, deleted |-> m.deleted \ {o.node},
                placed |-> m.placed \cup {o.node}]
          [] o.kind = "delete" ->
               [inserted |-> m.inserted \ {o.node}, deleted |-> m.deleted \cup {o.node},
                placed |-> m.placed \ {o.node}]
          [] o.kind = "move" -> [m EXCEPT !.placed = @ \cup {o.node}]
          [] OTHER -> m,
        [inserted |-> {}, deleted |-> {}, placed |-> {}], Unconfirmed)

Gone(n)  == n \in Foreseen.deleted
Known(n) == (Contains(local.order, n) \/ n \in Foreseen.inserted) /\ ~Gone(n)

(* PendingModel.order: what they neither delete nor place stays where it   *)
(* is, the rest is placed in turn.                                         *)
Staying ==
    LET f[k \in 0..Len(local.order)] ==
          IF k = 0 THEN <<>>
          ELSE IF local.order[k] \in Foreseen.deleted \cup Foreseen.placed THEN f[k - 1]
          ELSE Append(f[k - 1], local.order[k])
    IN  f[Len(local.order)]

ModelOrder ==
    LET f[k \in 0..Len(Unconfirmed)] ==
          IF k = 0 THEN Staying ELSE Placed(f[k - 1], Unconfirmed[k])
    IN  f[Len(Unconfirmed)]

LastOf(s) == IF s = <<>> THEN NoNode ELSE s[Len(s)]

-----------------------------------------------------------------------------
(* Edits.                                                                  *)

Entry(id, o, applied, orig, shadowed) ==
    [id |-> id, ops |-> o, applied |-> applied, orig |-> orig, shadowed |-> shadowed]

(* _queue *)
Queue(o, applied, orig, shadowed) ==
    /\ edits' = edits + 1
    /\ IF Online
         THEN /\ pending' = Append(pending, Entry(edits + 1, o, applied, orig, shadowed))
              /\ up' = Append(up, [id |-> edits + 1, ops |-> o])
              /\ UNCHANGED buffered
         ELSE /\ buffered' = Append(buffered, [id |-> edits + 1, ops |-> o])
              /\ UNCHANGED <<pending, up>>
    /\ UNCHANGED <<sdoc, srv, late, down, ghost, link, rejected, base, decided,
                   dropped, doubled, hosts, breaks>>

Built(o) == Queue(o, FALSE, NoState, FALSE) /\ UNCHANGED local

Covers(p, n) == n \in DOMAIN p.ops.state

(* setField of a node the local document has: applied at once. *)
SetField(n, v) ==
    /\ Contains(local.order, n) /\ ~Gone(n)
    /\ v # local.val[n]
    /\ local' = Applied(local, Write(n, v))
    /\ Queue(Write(n, v), TRUE, Only(n, local.val[n]),
             \E i \in DOMAIN pending : ~pending[i].applied /\ Covers(pending[i], n))
    /\ UNCHANGED minted

(* setField of a node that is itself pending. *)
SetPendingField(n, v) ==
    /\ ~Contains(local.order, n) /\ Known(n)
    /\ Built(Write(n, v))
    /\ UNCHANGED minted

(* createNode; the position is "append" or "prepend". *)
CreateNode(n, v, position) ==
    /\ n \notin minted
    /\ minted' = minted \cup {n}
    /\ IF position = "append"
         THEN Built(Patch("insert", n, LastOf(ModelOrder), NoNode, Only(n, v)))
         ELSE Built(Patch("insert", n, NoNode,
                          IF ModelOrder = <<>> THEN NoNode ELSE Head(ModelOrder), Only(n, v)))

DeleteNode(n) ==
    /\ Known(n)
    /\ Built(Patch("delete", n, NoNode, NoNode, NoState))
    /\ UNCHANGED minted

(* moveNode: to the end. *)
MoveNode(n) ==
    /\ Known(n)
    /\ LastOf(ModelOrder) # n
    /\ Built(Patch("move", n, LastOf(RemoveFirst(ModelOrder, n)), NoNode, NoState))
    /\ UNCHANGED minted

(* moveNodeRelative *)
MoveNodeRelative(n, t, position) ==
    /\ Known(n) /\ Known(t) /\ n # t
    /\ Contains(ModelOrder, t)
    /\ LET rest == RemoveFirst(ModelOrder, n) IN
        \/ /\ position = "before"
           /\ PrevOf(ModelOrder, t) # n
           /\ Built(Patch("move", n, PrevOf(rest, t), t, NoState))
        \/ /\ position = "after"
           /\ NextOf(ModelOrder, t) # n
           /\ Built(Patch("move", n, t, NextOf(rest, t), NoState))
    /\ UNCHANGED minted

-----------------------------------------------------------------------------
(* Messages.                                                               *)

Received(m) == /\ link # "down" /\ down # <<>> /\ Head(down).type = m
               /\ down' = Tail(down)
               /\ UNCHANGED <<sdoc, srv, late, ghost, decided, doubled, minted, edits,
                              hosts, breaks>>

(* _takePending: the op the ref names and every one before it. *)
Position(ref)     == SelectInSeq(pending, LAMBDA p : p.id = ref)
TakePending(ref)  == SubSeq(pending, Position(ref) + 1, Len(pending))

(* _maskState over the ops still pending: the fields a pending edit covers *)
(* are left out.                                                           *)
Mask(s, rest, appliedOnly) ==
    [n \in {x \in DOMAIN s :
              \A i \in DOMAIN rest :
                ~(Covers(rest[i], x) /\ (rest[i].applied \/ ~appliedOnly))} |-> s[n]]

(* Mutant: the masked value is forgotten. *)
RefreshNone(s, rest) == rest

(* ... and the oldest of them, if it has an inverse, keeps the value for   *)
(* its undo.                                                               *)
Refresh(s, rest) ==
    [i \in DOMAIN rest |->
        IF ~rest[i].applied THEN rest[i]
        ELSE [rest[i] EXCEPT !.orig = [n \in DOMAIN @ |->
                IF n \in DOMAIN s /\ \A j \in 1..(i - 1) : ~Covers(rest[j], n)
                  THEN s[n] ELSE @[n]]]]

(* Mutant: an own echo sets the fields a later write covers too. *)
ConfirmUnmasked(entry, o, rest) ==
    /\ entry.applied
    /\ local' = Lenient(local, o)
    /\ pending' = rest

(* The echo of an edit already applied sets its fields to what the server  *)
(* holds.                                                                  *)
Confirm(entry, o, rest) ==
    /\ entry.applied
    /\ local' = Lenient(local, [o EXCEPT !.state = Mask(o.state, rest, FALSE)])
    /\ pending' = rest

(* The echo of a built edit applies it as the server recorded it. *)
Land(entry, o, rest) ==
    /\ ~entry.applied
    /\ local' = Lenient(local, [o EXCEPT !.state = Mask(o.state, rest, TRUE)])
    /\ pending' = rest

(* Somebody else's commit. *)
Foreign(o) ==
    /\ local' = Lenient(local, [o EXCEPT !.state = Mask(o.state, pending, FALSE)])
    /\ pending' = Refresh(o.state, pending)

(* _handlePatch *)
HandlePatch ==
    /\ Received("patch")
    /\ LET m == Head(down)
           i == Position(m.ref)
       IN  /\ IF i = 0 THEN Foreign(m.ops)
              ELSE \/ Confirm(pending[i], m.ops, TakePending(m.ref))
                   \/ Land(pending[i], m.ops, TakePending(m.ref))
           /\ base' = Lenient(base, m.ops)
    /\ UNCHANGED <<up, link, buffered, rejected, dropped>>

(* An error forgets the op it names. *)
HandleError ==
    /\ Received("error")
    /\ pending' = IF Position(Head(down).ref) = 0 THEN pending
                  ELSE TakePending(Head(down).ref)
    /\ rejected' = TRUE
    /\ UNCHANGED <<up, link, local, buffered, base, dropped>>

(* _initDoc: the snapshot replaces the document; what was in flight is     *)
(* forgotten, what was buffered is sent, to be applied by its echo.        *)
InitDoc ==
    /\ Received("snapshot")
    /\ local' = Head(down).doc /\ base' = Head(down).doc
    /\ pending' = [i \in DOMAIN buffered |->
                     Entry(buffered[i].id, buffered[i].ops, FALSE, NoState, FALSE)]
    /\ up' = up \o buffered
    /\ buffered' = <<>> /\ rejected' = FALSE /\ link' = "up"
    /\ dropped' = dropped \cup (Ids(pending) \ decided)

-----------------------------------------------------------------------------
(* The connection.                                                         *)

Resend(s) == [i \in DOMAIN s |-> [id |-> s[i].id, ops |-> s[i].ops]]

(* Mutant: what was in flight when the connection broke is forgotten. *)
GoOfflineForgetting ==
    /\ link # "down" /\ breaks < MaxBreaks
    /\ breaks' = breaks + 1
    /\ link' = "down"
    /\ pending' = <<>>
    /\ up' = <<>> /\ down' = <<>> /\ late' = <<>> /\ srv' = "idle"
    /\ UNCHANGED <<sdoc, ghost, local, buffered, rejected, base, decided, dropped,
                   doubled, minted, edits, hosts>>

(* _wentOffline: what was sent and not yet echoed is kept, ahead of what   *)
(* was buffered.  The server may still serve a prefix of it.               *)
GoOffline ==
    /\ link # "down" /\ breaks < MaxBreaks
    /\ breaks' = breaks + 1
    /\ link' = "down"
    /\ buffered' = Resend(pending) \o buffered
    /\ pending' = <<>>
    /\ \E k \in 0..Len(up) :
         /\ k > 0 => "linger" \in Features
         /\ ghost' = ghost \o SubSeq(up, IF srv = "reject" THEN 2 ELSE 1, k)
    /\ up' = <<>> /\ down' = <<>> /\ late' = <<>> /\ srv' = "idle"
    /\ UNCHANGED <<sdoc, local, rejected, base, decided, dropped, doubled, minted,
                   edits, hosts>>

(* connect: the session answers with a snapshot, and every patch after it. *)
Connect ==
    /\ link = "down"
    /\ link' = "pending"
    /\ down' = <<SnapshotMsg(sdoc)>>
    /\ UNCHANGED <<sdoc, srv, late, up, ghost, client, decided, doubled, counts>>

-----------------------------------------------------------------------------
Init ==
    /\ sdoc = Document(Start, [n \in Nodes |-> 0])
    /\ local = sdoc /\ base = sdoc
    /\ srv = "idle" /\ link = "up" /\ rejected = FALSE
    /\ late = <<>> /\ up = <<>> /\ down = <<>> /\ ghost = <<>>
    /\ pending = <<>> /\ buffered = <<>>
    /\ minted = ToSet(Start) /\ decided = {} /\ dropped = {} /\ doubled = FALSE
    /\ edits = 0 /\ hosts = 0 /\ breaks = 0

Edit ==
    /\ edits < MaxEdits
    /\ \E n \in Nodes :
         \/ \E v \in Values : SetField(n, v) \/ SetPendingField(n, v)
         \/ \E v \in Values, w \in {"append", "prepend"} : CreateNode(n, v, w)
         \/ DeleteNode(n)
         \/ MoveNode(n)
         \/ \E t \in Nodes, w \in {"before", "after"} : MoveNodeRelative(n, t, w)

Next ==
    \/ Edit
    \/ Serve \/ SendError \/ Resync \/ ServeGhost \/ HostCommit
    \/ HandlePatch \/ HandleError \/ InitDoc
    \/ GoOffline \/ Connect

Spec == Init /\ [][Next]_vars

-----------------------------------------------------------------------------
(* Properties.                                                             *)

Doc   == [order : Seq(Nodes), val : [Nodes -> Values]]
Sent  == [id : 1..MaxEdits, ops : Ops]
Frame == [type : {"patch"}, ref : 0..MaxEdits, ops : Ops]
           \cup [type : {"error"}, ref : 1..MaxEdits]
           \cup [type : {"snapshot"}, doc : Doc]

(* Every variable has its type, and no order holds a node twice. *)
TypeOK ==
    /\ sdoc \in Doc /\ local \in Doc /\ base \in Doc
    /\ IsInjective(sdoc.order) /\ IsInjective(local.order)
    /\ srv \in {"idle", "reject", "resync"}
    /\ link \in {"down", "pending", "up"}
    /\ rejected \in BOOLEAN /\ doubled \in BOOLEAN
    /\ up \in Seq(Sent) /\ ghost \in Seq(Sent) /\ buffered \in Seq(Sent)
    /\ down \in Seq(Frame) /\ late \in Seq(Frame)
    /\ pending \in Seq([id : 1..MaxEdits, ops : Ops, applied : BOOLEAN,
                        orig : State, shadowed : BOOLEAN])
    /\ minted \subseteq Nodes /\ decided \cup dropped \subseteq 1..MaxEdits
    /\ edits \in 0..MaxEdits /\ hosts \in 0..MaxHost /\ breaks \in 0..MaxBreaks

(* A write of n that no later one covers is what the client shows of n ... *)
LastWrite(i, n) ==
    /\ pending[i].applied /\ Covers(pending[i], n)
    /\ \A j \in DOMAIN pending : j > i => ~(pending[j].applied /\ Covers(pending[j], n))

(* ... and without one it shows what the server has told it. *)
Overlaid(n) ==
    IF \E i \in DOMAIN pending : LastWrite(i, n)
      THEN pending[CHOOSE i \in DOMAIN pending : LastWrite(i, n)].ops.state[n]
      ELSE base.val[n]

BuiltCovers(n) == \E i \in DOMAIN pending : ~pending[i].applied /\ Covers(pending[i], n)

(* An insert that is sent again after a break may come twice, if somebody  *)
(* deletes the node in between: writes made to the first are masked in the *)
(* second.                                                                 *)
Recreated(n) == n \notin ToSet(Start) /\ breaks > 0

(* A connected client shows what the server has told it, overlaid with its *)
(* own writes still pending, the last one of a field on top: no echo and   *)
(* no other client's write makes a field step back.  A field a built edit  *)
(* covers is not compared, nor is a document a rejection has disowned.     *)
Optimistic ==
    /\ TypeOK
    /\ Online /\ ~rejected =>
        /\ local.order = base.order
        /\ \A n \in ToSet(local.order) :
              BuiltCovers(n) \/ Recreated(n) \/ local.val[n] = Overlaid(n)

(* The inverse of the oldest pending write of a field leads back to what   *)
(* the server holds under it, whoever wrote that and whenever (_maskState  *)
(* refreshes it), unless it is a value the normalizer refused.             *)
UndoReveals ==
    Online /\ ~rejected =>
        \A i \in DOMAIN pending : \A n \in DOMAIN pending[i].orig :
            \/ pending[i].shadowed \/ BuiltCovers(n) \/ Recreated(n)
            \/ \E j \in 1..(i - 1) : Covers(pending[j], n)
            \/ ~Contains(base.order, n)
            \/ pending[i].orig[n] \in {base.val[n]} \cup {v \in Values : v > Limit}

(* The answers to come, and the requests that will have one.               *)
Ref(m) == IF m.type = "snapshot" THEN 0 ELSE m.ref

Coming ==
    [i \in 1..(Len(down) + Len(up)) |->
        IF i <= Len(down) THEN Ref(down[i]) ELSE up[i - Len(down)].id]

(* The answers come in the order of the pending operations, one for each:  *)
(* _takePending, which retires every operation before the one answered,    *)
(* retires none that still waits for its own answer.                       *)
AnswersInOrder ==
    \A k \in DOMAIN pending : \E i \in DOMAIN Coming :
        /\ Coming[i] = pending[k].id
        /\ \A j \in DOMAIN Coming : Coming[j] = pending[k].id => j = i
        /\ \A j \in 1..(i - 1), l \in DOMAIN pending : Coming[j] = pending[l].id => l < k

(* Nothing is under way between the client and the server. *)
Quiet ==
    /\ Online /\ srv = "idle"
    /\ up = <<>> /\ down = <<>> /\ ghost = <<>> /\ late = <<>>

(* When nothing is under way the client waits for nothing ...              *)
NothingWaits == Quiet => pending = <<>> /\ buffered = <<>>

(* ... and holds the server's document, but for structure it got twice, in *)
(* a snapshot that showed it and in the broadcasts that came after.        *)
ConvergedOnce == NothingWaits /\ (Quiet /\ ~doubled => local = sdoc)

(* No break of the connection loses an edit: the server has decided it, or *)
(* the client still holds it, or a resync had taken it from pendingOps     *)
(* while it was in flight.                                                 *)
OnlyDroppedLost ==
    1..edits = decided \cup Ids(pending) \cup Ids(buffered) \cup dropped
=============================================================================
