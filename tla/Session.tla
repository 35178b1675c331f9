------------------------------ MODULE Session ------------------------------
(***************************************************************************)
(* The document session of python/src/atomdoc/_session.py: one document,   *)
(* many connections, one asyncio event loop.  Commits are queued as        *)
(* (message, recipients) pairs and sent by whoever holds the flush lock; a *)
(* client still in its handshake has its copies buffered behind its        *)
(* snapshot.  Every step below is one synchronous stretch of the code, up  *)
(* to its next await; between two steps any other task may run.            *)
(*                                                                         *)
(* What a document holds is abstracted to the number of the commit it      *)
(* reflects, and what a scoped client holds to the number of times its     *)
(* view was taken (reset or change).  The auxiliary variables due, held,   *)
(* answered, resyncAt and retried record what has reached each client;     *)
(* no step of the session reads them.                                      *)
(***************************************************************************)
EXTENDS Integers, Sequences, FiniteSets

CONSTANTS
    Clients,      \* connections (a reconnect is a new connection, a new id)
    Partial,      \* those that ask for partial replication when they connect
    Requests,     \* messages the clients may send, each standing for its ref
    Unlabelled,   \* the ones among them that carry no ref
    NoRequest,    \* _request is None
    MaxVersion,   \* bound: commits in a run
    Features      \* what may happen besides the regular protocol:
                  \*  "overlap"  a transport runs callbacks of one client
                  \*             concurrently (WebSocketTransport never does)
                  \*  "offloop"  the host commits with no running event loop
                  \*  "settled"  the host awaits settled()
                  \*  "cancel"   and may cancel that call
                  \*  "drop"     the network drops connections

ASSUME SessionAssumption ==
    /\ IsFiniteSet(Clients)
    /\ Partial \subseteq Clients
    /\ Unlabelled \subseteq Requests
    /\ NoRequest \notin Requests
    /\ MaxVersion \in Nat
    /\ Features \subseteq {"overlap", "offloop", "settled", "cancel", "drop"}

VARIABLES
    version,      \* _version: number of commits
    clients,      \* keys of _clients
    connecting,   \* keys of _connecting
    buffer,       \* the list _connecting holds for each client
    awaiting,     \* _awaiting_scope
    view,         \* _views: 0 none, n > 0 a view taken n times
    pending,      \* _pending_broadcasts
    sending,      \* a _broadcast of the head of pending is in progress
    todo,         \* clients that broadcast has still to write to
    lockq,        \* _flush_lock: its holder, then the waiters in FIFO order
    scopeq,       \* _scope_locks[c]: likewise, requests
    request,      \* _request: the request being dispatched
    queued,       \* that request has queued something already
    tasks,        \* _flush_tasks, each named by the commit that scheduled it
    settle,       \* where the host's settled() call is
    waits,        \* the tasks it listed
    conn,         \* where each connection's _handle_connect is
    rpc,          \* where each request's handler is
    from,         \* the connection each request comes from
    dead,         \* connections whose sends raise
    left,         \* connections _handle_disconnect was called for
    due,          \* commits a client has to hear of and has not yet
    held,         \* how often the view the client holds has been taken
    answered,     \* refs that reached their client
    resyncAt,     \* version of the last snapshot sent after a rejection
    retried       \* commits whose broadcast was cancelled half way

tables  == <<clients, connecting, awaiting, view>>
queue   == <<pending, sending, todo>>
host    == <<tasks, settle, waits>>
sockets == <<dead, left>>
still   == <<version, request, queued, from>>
seen    == <<due, held, answered, resyncAt, retried>>
vars    == <<still, tables, buffer, queue, lockq, scopeq, host, conn, rpc,
             sockets, seen>>

-----------------------------------------------------------------------------
(* The tasks of the event loop that take the flush lock. *)
Task(v)    == <<"task", v>>
Settled    == <<"settled", 0>>
Connect(c) == <<"connect", c>>
Handler(r) == <<"handler", r>>

Procs == {Task(v) : v \in 1..MaxVersion} \cup {Settled}
           \cup {Connect(c) : c \in Clients} \cup {Handler(r) : r \in Requests}

(* Where a handler is while it is inside _flush_broadcast. *)
FlushPcs == {"ok", "reject", "rejectStep", "scopeFlush", "ackFlush"}

Holder(p) == lockq # <<>> /\ Head(lockq) = p

ScopeHolder(r) == scopeq[from[r]] # <<>> /\ Head(scopeq[from[r]]) = r

(* The holder of the lock is a flush, not the drain of a handshake buffer. *)
Flushing ==
    /\ lockq # <<>>
    /\ \/ Head(lockq) \in {Task(v) : v \in 1..MaxVersion} \cup {Settled}
       \/ \E c \in Clients : Head(lockq) = Connect(c) /\ conn[c] = "hello"
       \/ \E r \in Requests : Head(lockq) = Handler(r) /\ rpc[r] \in FlushPcs

(* The flush of p has emptied the queue: the lock is released and the code *)
(* after the flush runs in the same step.                                  *)
FlushOver(p) == Holder(p) /\ ~sending /\ pending = <<>>

Knows(c) == c \in clients \cup connecting

(* Frames.  A patch to a scoped client carries the view it was projected   *)
(* onto, an ack the view it leads to.                                      *)
Ref(r)          == IF r \in Unlabelled THEN NoRequest ELSE r
Patch(v, r, e)  == [kind |-> "patch", version |-> v, ref |-> r, view |-> e]
Answer(r)       == [kind |-> "answer", version |-> version, ref |-> r, view |-> 0]
ScopeAck(r, e)  == [kind |-> "ack", version |-> version, ref |-> r, view |-> e]

Message == [kind : {"patch", "answer", "ack"}, version : 0..MaxVersion,
            ref : Requests \cup {NoRequest}, view : Nat]
Entry   == [msg : Message, to : SUBSET Clients]

(* Mutant: the handshake table is not cleaned. *)
ForgetConnectedOnly(c) ==
    /\ clients' = clients \ {c}
    /\ awaiting' = awaiting \ {c}
    /\ view' = [view EXCEPT ![c] = 0]
    /\ UNCHANGED connecting

(* _forget *)
Forget(c) ==
    /\ clients' = clients \ {c}
    /\ connecting' = connecting \ {c}
    /\ awaiting' = awaiting \ {c}
    /\ view' = [view EXCEPT ![c] = 0]

(* A frame reaches the socket of a live client. *)
Deliver(c, m) ==
    /\ due' = IF m.kind = "patch" THEN [due EXCEPT ![c] = @ \ {m.version}]
                                  ELSE due
    /\ held' = IF m.kind = "ack" THEN [held EXCEPT ![c] = m.view] ELSE held
    /\ answered' = answered \cup ({m.ref} \ {NoRequest})
    /\ UNCHANGED <<resyncAt, retried>>

(* _safe_send: a send that raises removes the client. *)
SafeSend(c, m) ==
    IF c \in dead THEN Forget(c) /\ UNCHANGED seen
                  ELSE Deliver(c, m) /\ UNCHANGED tables

(* An error sent straight to the client that asked, answering its ref. *)
SendError(r) ==
    /\ answered' = IF from[r] \in dead THEN answered
                   ELSE answered \cup ({Ref(r)} \ {NoRequest})
    /\ UNCHANGED <<due, held, resyncAt, retried>>

-----------------------------------------------------------------------------
Init ==
    /\ version = 0
    /\ clients = {} /\ connecting = {} /\ awaiting = {}
    /\ view = [c \in Clients |-> 0]
    /\ buffer = [c \in Clients |-> <<>>]
    /\ pending = <<>> /\ sending = FALSE /\ todo = {}
    /\ lockq = <<>>
    /\ scopeq = [c \in Clients |-> <<>>]
    /\ request = NoRequest /\ queued = FALSE
    /\ tasks = {} /\ settle = "idle" /\ waits = {}
    /\ conn = [c \in Clients |-> "new"]
    /\ rpc = [r \in Requests |-> "new"]
    /\ from \in [Requests -> Clients]
    /\ dead = {} /\ left = {}
    /\ due = [c \in Clients |-> {}]
    /\ held = [c \in Clients |-> 0]
    /\ answered = {}
    /\ resyncAt = [c \in Clients |-> 0]
    /\ retried = {}

-----------------------------------------------------------------------------
(* Commits.                                                                *)

Whole  == {c \in clients \cup connecting : view[c] = 0 /\ c \notin awaiting}
Scoped == {c \in clients \cup connecting : view[c] > 0}

(* The scoped clients a commit is projected for, in the order of _views:   *)
(* any of them, since a commit may or may not touch a view, and the        *)
(* requester always.                                                       *)
Projections ==
    {q \in UNION {[1..n -> Scoped] : n \in 0..Cardinality(Scoped)} :
        /\ \A i, j \in DOMAIN q : q[i] = q[j] => i = j
        /\ request # NoRequest /\ from[request] \in Scoped
             => \E i \in DOMAIN q : q[i] = from[request]}

ProjectedRef(c) ==
    IF request # NoRequest /\ from[request] = c THEN Ref(request) ELSE NoRequest

WholeEntry ==
    [msg |-> Patch(version + 1, IF request = NoRequest THEN NoRequest ELSE Ref(request), 0),
     to  |-> Whole]

ScopedEntries(q) ==
    [i \in DOMAIN q |->
        [msg |-> Patch(version + 1, ProjectedRef(q[i]), view[q[i]]), to |-> {q[i]}]]

(* _on_doc_change: the commit is queued for every whole-document client,   *)
(* then its projection for each scoped one.                                *)
OnDocChange(q) ==
    /\ version < MaxVersion
    /\ version' = version + 1
    /\ pending' = Append(pending, WholeEntry) \o ScopedEntries(q)
    /\ due' = [c \in Clients |->
                 IF c \in Whole \/ \E i \in DOMAIN q : q[i] = c
                   THEN due[c] \cup {version + 1} ELSE due[c]]
    /\ UNCHANGED <<tables, buffer, sending, todo, lockq, scopeq, request, conn,
                   rpc, from, sockets, held, answered, resyncAt, retried>>

(* Mutant: a host commit schedules no flush. *)
HostCommitUnflushed(q) ==
    /\ request = NoRequest
    /\ OnDocChange(q)
    /\ UNCHANGED <<queued, host>>

(* The host edits the document: a flush is scheduled, if there is a loop. *)
HostCommit(q) ==
    /\ request = NoRequest
    /\ OnDocChange(q)
    /\ \/ tasks' = tasks \cup {version + 1}
       \/ "offloop" \in Features /\ tasks' = tasks
    /\ UNCHANGED <<queued, settle, waits>>

(* A commit made by the request being dispatched (several for a multi-step *)
(* undo); the handler flushes it afterwards.                               *)
RequestCommit(q) ==
    /\ request # NoRequest
    /\ OnDocChange(q)
    /\ queued' = TRUE
    /\ UNCHANGED host

-----------------------------------------------------------------------------
(* Flushing.                                                               *)

(* Mutant: the recipients recorded with the entry are ignored. *)
BeginBroadcastToAll ==
    /\ Flushing /\ ~sending /\ pending # <<>>
    /\ sending' = TRUE
    /\ todo' = clients
    /\ buffer' = [c \in Clients |->
                    IF c \in connecting
                      THEN Append(buffer[c], Head(pending).msg) ELSE buffer[c]]
    /\ UNCHANGED <<still, tables, pending, lockq, scopeq, host, conn, rpc,
                   sockets, seen>>

(* _broadcast: the connected recipients get a send task each, the ones     *)
(* still in their handshake a copy in their buffer.                        *)
BeginBroadcast ==
    /\ Flushing /\ ~sending /\ pending # <<>>
    /\ sending' = TRUE
    /\ todo' = clients \cap Head(pending).to
    /\ buffer' = [c \in Clients |->
                    IF c \in connecting \cap Head(pending).to
                      THEN Append(buffer[c], Head(pending).msg) ELSE buffer[c]]
    /\ UNCHANGED <<still, tables, pending, lockq, scopeq, host, conn, rpc,
                   sockets, seen>>

BroadcastTo(c) ==
    /\ sending /\ c \in todo
    /\ todo' = todo \ {c}
    /\ SafeSend(c, Head(pending).msg)
    /\ UNCHANGED <<still, buffer, pending, sending, lockq, scopeq, host, conn,
                   rpc, sockets>>

(* Every send is done: only now is the entry popped. *)
EndBroadcast ==
    /\ sending /\ todo = {}
    /\ sending' = FALSE
    /\ pending' = Tail(pending)
    /\ UNCHANGED <<still, tables, buffer, todo, lockq, scopeq, host, conn, rpc,
                   sockets, seen>>

TaskStart(v) ==
    /\ v \in tasks /\ \A i \in DOMAIN lockq : lockq[i] # Task(v)
    /\ lockq' = Append(lockq, Task(v))
    /\ UNCHANGED <<still, tables, buffer, queue, scopeq, host, conn, rpc,
                   sockets, seen>>

TaskDone(v) ==
    /\ FlushOver(Task(v))
    /\ lockq' = Tail(lockq)
    /\ tasks' = tasks \ {v}
    /\ UNCHANGED <<still, tables, buffer, queue, scopeq, settle, waits, conn,
                   rpc, sockets, seen>>

(* settled(): wait for the flush tasks there are, then flush. *)
SettledCall ==
    /\ "settled" \in Features /\ settle = "idle"
    /\ settle' = "tasks"
    /\ waits' = tasks
    /\ UNCHANGED <<still, tables, buffer, queue, lockq, scopeq, tasks, conn,
                   rpc, sockets, seen>>

SettledFlush ==
    /\ settle = "tasks" /\ waits \cap tasks = {}
    /\ settle' = "flush"
    /\ waits' = {}
    /\ lockq' = Append(lockq, Settled)
    /\ UNCHANGED <<still, tables, buffer, queue, scopeq, tasks, conn, rpc,
                   sockets, seen>>

SettledReturn ==
    /\ FlushOver(Settled)
    /\ settle' = "idle"
    /\ lockq' = Tail(lockq)
    /\ UNCHANGED <<still, tables, buffer, queue, scopeq, tasks, waits, conn,
                   rpc, sockets, seen>>

RemoveAt(s, i) == SubSeq(s, 1, i - 1) \o SubSeq(s, i + 1, Len(s))

(* Mutant: the entry is popped before it has been sent to everyone. *)
CancelFlushPopped(p) ==
    /\ lockq' = IF \E i \in DOMAIN lockq : lockq[i] = p
                  THEN RemoveAt(lockq, CHOOSE i \in DOMAIN lockq : lockq[i] = p)
                  ELSE lockq
    /\ IF Holder(p) /\ sending
         THEN sending' = FALSE /\ todo' = {} /\ pending' = Tail(pending)
         ELSE UNCHANGED queue
    /\ UNCHANGED <<still, tables, buffer, scopeq, conn, rpc, sockets, seen>>

(* Mutant: the flush lets go of the lock and its sends go on. *)
CancelFlushShielded(p) ==
    /\ lockq' = IF \E i \in DOMAIN lockq : lockq[i] = p
                  THEN RemoveAt(lockq, CHOOSE i \in DOMAIN lockq : lockq[i] = p)
                  ELSE lockq
    /\ UNCHANGED <<still, tables, buffer, queue, scopeq, conn, rpc, sockets, seen>>

(* Cancelling settled() cancels the flush task it awaits, or its own       *)
(* flush: an entry half sent stays at the head of the queue.  Bound: the   *)
(* broadcast of a version is cancelled once.                               *)
CancelFlush(p) ==
    /\ lockq' = IF \E i \in DOMAIN lockq : lockq[i] = p
                  THEN RemoveAt(lockq, CHOOSE i \in DOMAIN lockq : lockq[i] = p)
                  ELSE lockq
    /\ IF Holder(p) /\ sending
         THEN /\ sending' = FALSE /\ todo' = {}
              /\ retried' = retried \cup {Head(pending).msg.version}
         ELSE UNCHANGED <<sending, todo, retried>>
    /\ UNCHANGED <<still, tables, buffer, pending, scopeq, conn, rpc, sockets,
                   due, held, answered, resyncAt>>

SettledCancel ==
    /\ "cancel" \in Features
    /\ sending => Head(pending).msg.version \notin retried
    /\ \/ \E v \in waits \cap tasks :
            settle = "tasks" /\ CancelFlush(Task(v)) /\ tasks' = tasks \ {v}
       \/ settle = "flush" /\ CancelFlush(Settled) /\ UNCHANGED tasks
    /\ settle' = "idle" /\ waits' = {}

-----------------------------------------------------------------------------
(* Connecting (_handle_connect).                                           *)

ConnectStart(c) ==
    /\ conn[c] = "new"
    /\ conn' = [conn EXCEPT ![c] = "hello"]
    /\ lockq' = Append(lockq, Connect(c))
    /\ UNCHANGED <<still, tables, buffer, queue, scopeq, host, rpc, sockets,
                   seen>>

(* A partial connection: registered, the schema sent, no snapshot yet. *)
ConnectPartial(c) ==
    /\ FlushOver(Connect(c)) /\ conn[c] = "hello" /\ c \in Partial
    /\ lockq' = Tail(lockq)
    /\ buffer' = [buffer EXCEPT ![c] = <<>>]
    /\ IF c \in dead
         THEN /\ conn' = [conn EXCEPT ![c] = "failed"]
              /\ Forget(c)
         ELSE /\ conn' = [conn EXCEPT ![c] = "open"]
              /\ connecting' = connecting \cup {c}
              /\ awaiting' = awaiting \cup {c}
              /\ UNCHANGED <<clients, view>>
    /\ UNCHANGED <<still, queue, scopeq, host, rpc, sockets, seen>>

(* A whole-document connection is registered, its snapshot taken and the   *)
(* schema sent in one step: nothing committed so far is due to it.         *)
ConnectWhole(c) ==
    /\ FlushOver(Connect(c)) /\ conn[c] = "hello" /\ c \notin Partial
    /\ lockq' = Tail(lockq)
    /\ buffer' = [buffer EXCEPT ![c] = <<>>]
    /\ IF c \in dead
         THEN /\ conn' = [conn EXCEPT ![c] = "failed"]
              /\ connecting' = connecting \ {c}
         ELSE /\ conn' = [conn EXCEPT ![c] = "schema"]
              /\ connecting' = connecting \cup {c}
    /\ due' = [due EXCEPT ![c] = {}]
    /\ UNCHANGED <<still, clients, awaiting, view, queue, scopeq, host, rpc,
                   sockets, held, answered, resyncAt, retried>>

ConnectSnapshot(c) ==
    /\ conn[c] = "schema"
    /\ IF c \in dead
         THEN /\ conn' = [conn EXCEPT ![c] = "failed"]
              /\ connecting' = connecting \ {c}
         ELSE /\ conn' = [conn EXCEPT ![c] = "snapshot"]
              /\ UNCHANGED connecting
    /\ UNCHANGED <<still, clients, awaiting, view, buffer, queue, lockq,
                   scopeq, host, rpc, sockets, seen>>

ConnectLock(c) ==
    /\ conn[c] = "snapshot"
    /\ conn' = [conn EXCEPT ![c] = "promote"]
    /\ lockq' = Append(lockq, Connect(c))
    /\ UNCHANGED <<still, tables, buffer, queue, scopeq, host, rpc, sockets,
                   seen>>

(* Under the flush lock: from connecting to connected, or nothing if the   *)
(* client was forgotten meanwhile.                                         *)
Promote(c) ==
    /\ clients' = clients \cup {c}
    /\ connecting' = connecting \ {c}
    /\ UNCHANGED <<awaiting, view>>

(* Mutant: the lock is released before the buffer is drained. *)
ConnectPromoteUnlocked(c) ==
    /\ Holder(Connect(c)) /\ conn[c] = "promote"
    /\ IF c \in connecting
         THEN Promote(c) /\ conn' = [conn EXCEPT ![c] = "drain"]
         ELSE conn' = [conn EXCEPT ![c] = "failed"] /\ UNCHANGED tables
    /\ lockq' = Tail(lockq)
    /\ UNCHANGED <<still, buffer, queue, scopeq, host, rpc, sockets, seen>>

ConnectPromote(c) ==
    /\ Holder(Connect(c)) /\ conn[c] = "promote"
    /\ IF c \in connecting
         THEN /\ Promote(c)
              /\ conn' = [conn EXCEPT ![c] = "drain"]
              /\ UNCHANGED lockq
         ELSE /\ conn' = [conn EXCEPT ![c] = "failed"]
              /\ lockq' = Tail(lockq)
              /\ UNCHANGED tables
    /\ UNCHANGED <<still, buffer, queue, scopeq, host, rpc, sockets, seen>>

(* Mutant: the buffer is drained from its end. *)
DrainStepLast(c) ==
    /\ buffer[c] # <<>>
    /\ SafeSend(c, buffer[c][Len(buffer[c])])
    /\ buffer' = [buffer EXCEPT ![c] = SubSeq(@, 1, Len(@) - 1)]
    /\ UNCHANGED <<still, queue, lockq, scopeq, host, conn, rpc, sockets>>

(* One buffered message is sent, under the lock. *)
DrainStep(c) ==
    /\ buffer[c] # <<>>
    /\ SafeSend(c, Head(buffer[c]))
    /\ buffer' = [buffer EXCEPT ![c] = Tail(@)]
    /\ UNCHANGED <<still, queue, lockq, scopeq, host, conn, rpc, sockets>>

ConnectDrain(c) ==
    Holder(Connect(c)) /\ conn[c] = "drain" /\ DrainStep(c)

ConnectDone(c) ==
    /\ Holder(Connect(c)) /\ conn[c] = "drain" /\ buffer[c] = <<>>
    /\ conn' = [conn EXCEPT ![c] = "open"]
    /\ lockq' = Tail(lockq)
    /\ UNCHANGED <<still, tables, buffer, queue, scopeq, host, rpc, sockets,
                   seen>>

(* The network drops a connection: its sends raise from now on. *)
ConnectionLost(c) ==
    /\ "drop" \in Features /\ conn[c] # "new" /\ c \notin dead
    /\ dead' = dead \cup {c}
    /\ UNCHANGED <<still, tables, buffer, queue, lockq, scopeq, host, conn,
                   rpc, left, seen>>

Active(r) == rpc[r] \notin {"new", "done"}

(* _handle_disconnect.  WebSocketTransport calls it once the message loop  *)
(* has ended, and not at all when _handle_connect raised.                  *)
Disconnect(c) ==
    /\ conn[c] \notin {"new", "failed"} /\ c \notin left
    /\ \/ "overlap" \in Features
       \/ conn[c] = "open" /\ \A r \in Requests : from[r] = c => ~Active(r)
    /\ Forget(c)
    /\ dead' = dead \cup {c}
    /\ left' = left \cup {c}
    /\ UNCHANGED <<still, buffer, queue, lockq, scopeq, host, conn, rpc, seen>>

-----------------------------------------------------------------------------
(* Requests (_handle_message).                                             *)

Goto(r, pc) == rpc' = [rpc EXCEPT ![r] = pc]

(* The transport hands over the next message of a client (which speaks     *)
(* once it has been sent something).                                       *)
Receive(r) ==
    LET c == from[r] IN
    /\ rpc[r] = "new" /\ c \notin left
    /\ IF "overlap" \in Features
         THEN conn[c] \notin {"new", "hello", "failed"}
         ELSE conn[c] = "open" /\ \A s \in Requests : from[s] = c => ~Active(s)

(* Not a JSON object (which carries no ref), or a scope that makes no      *)
(* sense, or any request of a client that has not set its scope yet.       *)
RefuseMessage(r) ==
    /\ Receive(r)
    /\ r \in Unlabelled \/ Knows(from[r])
    /\ SendError(r)
    /\ Goto(r, "done")
    /\ UNCHANGED <<still, tables, buffer, queue, lockq, scopeq, host, conn,
                   sockets>>

Dispatch(r) ==
    /\ Receive(r) /\ from[r] \notin awaiting
    /\ request' = r /\ queued' = FALSE
    /\ Goto(r, "dispatch")
    /\ UNCHANGED <<version, tables, buffer, queue, lockq, scopeq, host, conn,
                   from, sockets, seen>>

EndDispatch(r) == request = r /\ r # NoRequest /\ request' = NoRequest

(* Mutant: a request that commits nothing is not answered. *)
DispatchOkSilent(r) ==
    /\ EndDispatch(r)
    /\ Goto(r, "ok")
    /\ lockq' = Append(lockq, Handler(r))
    /\ UNCHANGED <<version, tables, buffer, queue, scopeq, queued, host, conn,
                   from, sockets, seen>>

(* The request succeeded; if it queued nothing, an answer is queued for    *)
(* its client alone (an op always, anything else when it carries a ref).   *)
DispatchOk(r) ==
    /\ EndDispatch(r)
    /\ IF queued
         THEN UNCHANGED pending
         ELSE \/ pending' = Append(pending, [msg |-> Answer(Ref(r)), to |-> {from[r]}])
              \/ r \in Unlabelled /\ UNCHANGED pending
    /\ Goto(r, "ok")
    /\ lockq' = Append(lockq, Handler(r))
    /\ UNCHANGED <<version, tables, buffer, sending, todo, scopeq, queued,
                   host, conn, from, sockets, seen>>

(* An op or create the document refused: rolled back, nothing committed. *)
DispatchRejected(r) ==
    /\ EndDispatch(r) /\ ~queued
    /\ Goto(r, "reject")
    /\ lockq' = Append(lockq, Handler(r))
    /\ UNCHANGED <<version, tables, buffer, queue, scopeq, queued, host, conn,
                   from, sockets, seen>>

(* A history step refused, perhaps after others of the same request went   *)
(* through.                                                                *)
DispatchStepRejected(r) ==
    /\ EndDispatch(r)
    /\ Goto(r, "rejectStep")
    /\ lockq' = Append(lockq, Handler(r))
    /\ UNCHANGED <<version, tables, buffer, queue, scopeq, queued, host, conn,
                   from, sockets, seen>>

(* invalid_op, unsupported, unknown_type: the error is sent at once. *)
DispatchError(r) ==
    /\ EndDispatch(r) /\ ~queued
    /\ SendError(r)
    /\ Goto(r, "done")
    /\ UNCHANGED <<version, tables, buffer, queue, lockq, scopeq, queued, host,
                   conn, from, sockets>>

RequestDone(r) ==
    /\ FlushOver(Handler(r)) /\ rpc[r] = "ok"
    /\ lockq' = Tail(lockq)
    /\ Goto(r, "done")
    /\ UNCHANGED <<still, tables, buffer, queue, scopeq, host, conn, sockets,
                   seen>>

(* The queue is empty: the error goes out.  Its send may suspend before    *)
(* the snapshot of a resync is taken.                                      *)
RejectReply(r) ==
    /\ FlushOver(Handler(r)) /\ rpc[r] \in {"reject", "rejectStep"}
    /\ lockq' = Tail(lockq)
    /\ SendError(r)
    /\ Goto(r, IF rpc[r] = "reject" /\ from[r] \notin dead THEN "resync" ELSE "done")
    /\ UNCHANGED <<still, tables, buffer, queue, scopeq, host, conn, sockets>>

(* _send_snapshot: the document, or the client's view taken anew. *)
Resync(r) ==
    LET c == from[r]
        e == IF view[c] > 0 THEN view[c] + 1 ELSE 0 IN
    /\ rpc[r] = "resync"
    /\ view' = [view EXCEPT ![c] = e]
    /\ IF c \in dead
         THEN UNCHANGED <<due, held, resyncAt>>
         ELSE /\ due' = [due EXCEPT ![c] = {}]
              /\ held' = [held EXCEPT ![c] = e]
              /\ resyncAt' = [resyncAt EXCEPT ![c] = version]
    /\ Goto(r, "done")
    /\ UNCHANGED <<still, clients, connecting, awaiting, buffer, queue, lockq,
                   scopeq, host, conn, sockets, answered, retried>>

-----------------------------------------------------------------------------
(* Scope requests (_handle_scope).                                         *)

(* Mutant: the scope lock is never released. *)
ScopeUnlockNever(r) == UNCHANGED scopeq

ScopeUnlock(r) == scopeq' = [scopeq EXCEPT ![from[r]] = Tail(@)]

(* From a client that is gone: no answer. *)
ScopeIgnored(r) ==
    /\ Receive(r) /\ ~Knows(from[r])
    /\ Goto(r, "done")
    /\ UNCHANGED <<still, tables, buffer, queue, lockq, scopeq, host, conn,
                   sockets, seen>>

ScopeReceive(r) ==
    /\ Receive(r) /\ Knows(from[r])
    /\ Goto(r, "scopeLock")
    /\ scopeq' = [scopeq EXCEPT ![from[r]] = Append(@, r)]
    /\ UNCHANGED <<still, tables, buffer, queue, lockq, host, conn, sockets,
                   seen>>

(* Under the client's scope lock. *)
ScopeEnter(r) ==
    LET c == from[r] IN
    /\ rpc[r] = "scopeLock" /\ ScopeHolder(r)
    /\ \/ /\ ~Knows(c)
          /\ Goto(r, "done") /\ ScopeUnlock(r)
          /\ UNCHANGED <<lockq, seen>>
       \/ /\ c \in connecting /\ c \notin awaiting
          /\ SendError(r)
          /\ Goto(r, "done") /\ ScopeUnlock(r)
          /\ UNCHANGED lockq
       \/ /\ c \in clients \cup awaiting
          /\ Goto(r, "scopeFlush")
          /\ lockq' = Append(lockq, Handler(r))
          /\ UNCHANGED <<scopeq, seen>>
    /\ UNCHANGED <<still, tables, buffer, queue, host, conn, sockets>>

(* The client left during the flush. *)
ScopeGone(r) ==
    /\ FlushOver(Handler(r)) /\ rpc[r] = "scopeFlush" /\ ~Knows(from[r])
    /\ lockq' = Tail(lockq)
    /\ Goto(r, "done") /\ ScopeUnlock(r)
    /\ UNCHANGED <<still, tables, buffer, queue, host, conn, sockets, seen>>

(* The first scope of a partial connection: its view is taken and its      *)
(* snapshot sent.                                                          *)
ScopeFirst(r) ==
    LET c == from[r] IN
    /\ FlushOver(Handler(r)) /\ rpc[r] = "scopeFlush" /\ Knows(c) /\ c \in awaiting
    /\ lockq' = Tail(lockq)
    /\ IF c \in dead
         THEN /\ Forget(c)
              /\ Goto(r, "done") /\ ScopeUnlock(r)
              /\ UNCHANGED seen
         ELSE /\ view' = [view EXCEPT ![c] = 1]
              /\ awaiting' = awaiting \ {c}
              /\ due' = [due EXCEPT ![c] = {}]
              /\ held' = [held EXCEPT ![c] = 1]
              /\ answered' = answered \cup ({Ref(r)} \ {NoRequest})
              /\ Goto(r, "scopeSent")
              /\ UNCHANGED <<clients, connecting, scopeq, resyncAt, retried>>
    /\ UNCHANGED <<still, buffer, queue, host, conn, sockets>>

ScopeLock(r) ==
    /\ rpc[r] = "scopeSent"
    /\ Goto(r, "scopePromote")
    /\ lockq' = Append(lockq, Handler(r))
    /\ UNCHANGED <<still, tables, buffer, queue, scopeq, host, conn, sockets,
                   seen>>

ScopePromote(r) ==
    /\ Holder(Handler(r)) /\ rpc[r] = "scopePromote"
    /\ IF from[r] \in connecting
         THEN /\ Promote(from[r])
              /\ Goto(r, "scopeDrain")
              /\ UNCHANGED <<lockq, scopeq>>
         ELSE /\ Goto(r, "done") /\ ScopeUnlock(r)
              /\ lockq' = Tail(lockq)
              /\ UNCHANGED tables
    /\ UNCHANGED <<still, buffer, queue, host, conn, sockets, seen>>

ScopeDrain(r) ==
    Holder(Handler(r)) /\ rpc[r] = "scopeDrain" /\ DrainStep(from[r])

(* Mutant: the view changes and its delta is not queued. *)
ScopeChangeUnsent(r) ==
    LET c == from[r] IN
    /\ FlushOver(Handler(r)) /\ rpc[r] = "scopeFlush" /\ Knows(c) /\ c \notin awaiting
    /\ view' = [view EXCEPT ![c] = @ + 1]
    /\ lockq' = Append(Tail(lockq), Handler(r))
    /\ Goto(r, "ackFlush")
    /\ UNCHANGED <<still, clients, connecting, awaiting, buffer, queue, scopeq,
                   host, conn, sockets, seen>>

(* Any later scope: the view changes, and the delta is queued like a       *)
(* patch.                                                                  *)
ScopeChange(r) ==
    LET c == from[r]
        e == view[c] + 1 IN
    /\ FlushOver(Handler(r)) /\ rpc[r] = "scopeFlush" /\ Knows(c) /\ c \notin awaiting
    /\ view' = [view EXCEPT ![c] = e]
    /\ pending' = Append(pending, [msg |-> ScopeAck(Ref(r), e), to |-> {c}])
    /\ lockq' = Append(Tail(lockq), Handler(r))
    /\ Goto(r, "ackFlush")
    /\ UNCHANGED <<still, clients, connecting, awaiting, buffer, sending, todo,
                   scopeq, host, conn, sockets, seen>>

ScopeDone(r) ==
    /\ \/ FlushOver(Handler(r)) /\ rpc[r] = "ackFlush"
       \/ Holder(Handler(r)) /\ rpc[r] = "scopeDrain" /\ buffer[from[r]] = <<>>
    /\ lockq' = Tail(lockq)
    /\ Goto(r, "done") /\ ScopeUnlock(r)
    /\ UNCHANGED <<still, tables, buffer, queue, host, conn, sockets, seen>>

-----------------------------------------------------------------------------
FlushNext ==
    \/ BeginBroadcast \/ EndBroadcast
    \/ \E c \in Clients : BroadcastTo(c)
    \/ \E v \in 1..MaxVersion : TaskStart(v) \/ TaskDone(v)

SettledNext ==
    SettledCall \/ SettledFlush \/ SettledReturn \/ SettledCancel

ConnectNext(c) ==
    \/ ConnectPartial(c) \/ ConnectWhole(c) \/ ConnectSnapshot(c)
    \/ ConnectLock(c) \/ ConnectPromote(c) \/ ConnectDrain(c) \/ ConnectDone(c)

HandlerNext(r) ==
    \/ RequestDone(r) \/ RejectReply(r) \/ Resync(r)
    \/ ScopeEnter(r) \/ ScopeGone(r) \/ ScopeFirst(r) \/ ScopeLock(r)
    \/ ScopePromote(r) \/ ScopeDrain(r) \/ ScopeChange(r) \/ ScopeDone(r)

(* The synchronous dispatch of a request: nothing else runs meanwhile. *)
DispatchNext ==
    \/ \E q \in Projections : RequestCommit(q)
    \/ \E r \in Requests : \/ DispatchOk(r) \/ DispatchRejected(r)
                           \/ DispatchStepRejected(r) \/ DispatchError(r)

(* What the environment does: the host, the clients, the network. *)
EnvironmentNext ==
    \/ \E q \in Projections : HostCommit(q)
    \/ \E c \in Clients : ConnectStart(c) \/ ConnectionLost(c) \/ Disconnect(c)
    \/ \E r \in Requests : \/ RefuseMessage(r) \/ Dispatch(r)
                           \/ ScopeIgnored(r) \/ ScopeReceive(r)

Idle == request = NoRequest

LoopNext ==
    /\ Idle
    /\ \/ FlushNext \/ SettledNext \/ EnvironmentNext
       \/ \E c \in Clients : ConnectNext(c)
       \/ \E r \in Requests : HandlerNext(r)

Next == LoopNext \/ DispatchNext

Spec == Init /\ [][Next]_vars

(* The event loop runs every task that can go on; sends complete or raise. *)
(* Nothing is assumed of the host, the clients or the network.             *)
Fairness ==
    /\ WF_vars(Idle /\ FlushNext)
    /\ WF_vars(Idle /\ (SettledFlush \/ SettledReturn))
    /\ WF_vars(\E r \in Requests : \/ DispatchOk(r) \/ DispatchRejected(r)
                                   \/ DispatchStepRejected(r) \/ DispatchError(r))
    /\ \A c \in Clients : WF_vars(Idle /\ ConnectNext(c))
    /\ \A r \in Requests : WF_vars(Idle /\ HandlerNext(r))

FairSpec == Spec /\ Fairness

-----------------------------------------------------------------------------
(* Properties.                                                             *)

ConnPcs == {"new", "hello", "schema", "snapshot", "promote", "drain", "open",
            "failed"}
RequestPcs == FlushPcs \cup {"new", "dispatch", "resync", "scopeLock",
                             "scopeSent", "scopePromote", "scopeDrain", "done"}

TablesType ==
    /\ clients \subseteq Clients /\ connecting \subseteq Clients
    /\ awaiting \subseteq Clients /\ view \in [Clients -> Nat]

QueueType ==
    /\ pending \in Seq(Entry) /\ sending \in BOOLEAN /\ todo \subseteq Clients
    /\ buffer \in [Clients -> Seq(Message)]

LocksType == lockq \in Seq(Procs) /\ scopeq \in [Clients -> Seq(Requests)]

HostType ==
    /\ tasks \subseteq 1..MaxVersion /\ settle \in {"idle", "tasks", "flush"}
    /\ waits \subseteq 1..MaxVersion

StillType ==
    /\ version \in 0..MaxVersion /\ request \in Requests \cup {NoRequest}
    /\ queued \in BOOLEAN /\ from \in [Requests -> Clients]

HandlersType ==
    /\ conn \in [Clients -> ConnPcs] /\ rpc \in [Requests -> RequestPcs]
    /\ dead \subseteq Clients /\ left \subseteq Clients

SeenType ==
    /\ due \in [Clients -> SUBSET (1..MaxVersion)]
    /\ held \in [Clients -> Nat] /\ answered \subseteq Requests
    /\ resyncAt \in [Clients -> 0..MaxVersion] /\ retried \subseteq 0..MaxVersion

(* Every variable has its type. *)
TypeOK ==
    /\ TablesType /\ QueueType /\ LocksType /\ HostType /\ StillType
    /\ HandlersType /\ SeenType

(* What is being sent is the head of the queue, and a flush sends it. *)
SendingLocked == sending => pending # <<>> /\ Flushing

(* A handshake buffer is drained by the task that promoted its client. *)
DrainsLocked ==
    /\ \A c \in Clients : conn[c] = "drain" => Holder(Connect(c))
    /\ \A r \in Requests : rpc[r] = "scopeDrain" => Holder(Handler(r))

(* A handler past the scope lock of its client holds it. *)
ScopeLocked ==
    \A r \in Requests :
        rpc[r] \in {"scopeFlush", "ackFlush", "scopeSent", "scopePromote", "scopeDrain"}
            => ScopeHolder(r)

(* Whoever writes to the clients holds the flush lock all the while, so    *)
(* that flushes and drains never mix and no entry is popped but the one    *)
(* that was sent; and a client's scope requests are handled one by one:    *)
(* also when a flush is cancelled half way, or a client is forgotten while *)
(* its handshake or its request is suspended.                              *)
WriterHoldsLock == TypeOK /\ SendingLocked /\ DrainsLocked /\ ScopeLocked

(* The entries of the queue that have still to be written to c. *)
QueuedFor(c) ==
    {i \in DOMAIN pending : c \in pending[i].to /\ (i = 1 /\ sending => c \in todo)}

IsPatch(m, v) == m.kind = "patch" /\ m.version = v

(* The patch of commit v is in the handshake buffer of c, or queued for it. *)
OnItsWay(c, v) ==
    \/ \E i \in DOMAIN buffer[c] : IsPatch(buffer[c][i], v)
    \/ \E i \in QueuedFor(c) : IsPatch(pending[i].msg, v)

(* Every commit a registered client has not heard of yet is on its way to  *)
(* it, in its handshake buffer or in the queue: whatever handshakes,       *)
(* disconnects, rejections and cancelled flushes overlap, no client is     *)
(* left with a gap in its history.                                         *)
NoLoss ==
    \A c \in clients \cup connecting : \A v \in due[c] : OnItsWay(c, v)

(* The frames on their way to c. *)
Frames(c) ==
    {buffer[c][i] : i \in DOMAIN buffer[c]}
        \cup {pending[i].msg : i \in QueuedFor(c)}

(* The same in the order they will be written: the buffer, up to place 0,  *)
(* then the queue.                                                         *)
Way(c) == ((1 - Len(buffer[c]))..0) \cup QueuedFor(c)
FrameAt(c, i) == IF i < 1 THEN buffer[c][i + Len(buffer[c])] ELSE pending[i].msg
AcksBefore(c, i) == {j \in Way(c) : j < i /\ FrameAt(c, j).kind = "ack"}

(* Commits reach a client in the order they were made: when one is taken   *)
(* off what is due, nothing older that was due before stays due.           *)
InOrder ==
    [][\A c \in Clients : \A v \in due[c] \ due'[c], w \in due[c] \cap due'[c] : v < w]_vars

(* A client is sent the patch of a commit it already has (from its         *)
(* snapshot, or from an earlier copy) only if that commit came with the    *)
(* snapshot of a rejection, or its broadcast was cancelled half way.       *)
OnceOnly ==
    \A c \in clients \cup connecting : \A m \in Frames(c) :
        m.kind = "patch" =>
            \/ m.version \in due[c]
            \/ m.version <= resyncAt[c]
            \/ m.version \in retried

(* A projected patch lands on the view it was computed against: between    *)
(* the frames on their way to a scoped client, each patch names the view   *)
(* the last scope_ack before it leads to, or the one the client holds (a   *)
(* rejection's snapshot excuses the patches it covers).                    *)
ViewAgrees ==
    \A c \in (clients \cup connecting) \ dead : \A i \in Way(c) :
        FrameAt(c, i).kind = "patch" /\ FrameAt(c, i).version > resyncAt[c] =>
            /\ AcksBefore(c, i) = {} => FrameAt(c, i).view = held[c]
            /\ \A j \in AcksBefore(c, i) :
                  (\A k \in AcksBefore(c, i) : k <= j)
                     => FrameAt(c, i).view = FrameAt(c, j).view

(* A request that carries a ref has been answered when its handler ends,   *)
(* or its answer is behind the client's snapshot; unless the connection    *)
(* broke.                                                                  *)
Answered ==
    \A r \in Requests \ Unlabelled :
        rpc[r] = "done" /\ from[r] \notin dead =>
            \/ r \in answered
            \/ \E i \in DOMAIN buffer[from[r]] : buffer[from[r]][i].ref = r

(* When a flush ends, every connected client has been sent every commit,   *)
(* whoever flushed: settled() for a host that awaits it, a request before  *)
(* its answer, and the next of them all for a commit that was made off the *)
(* loop and scheduled no flush.                                            *)
FlushMeansSent ==
    \A p \in Procs : FlushOver(p) /\ Flushing => \A c \in clients : due[c] = {}

(* A connection that is over leaves nothing behind in the session's        *)
(* tables, however its disconnect overlapped its handshake and its         *)
(* requests.                                                               *)
NoLeak ==
    \A c \in Clients :
        conn[c] = "failed" \/ c \in left =>
            c \notin clients \cup connecting \cup awaiting /\ view[c] = 0

(* Every commit reaches every client it concerns, or the client leaves. *)
EventuallyHeard ==
    \A c \in Clients : \A v \in 1..MaxVersion :
        v \in due[c] /\ Knows(c) ~> v \notin due[c] \/ ~Knows(c)

(* Every handler ends: no request is stuck behind a lock. *)
RequestsFinish == \A r \in Requests : Active(r) ~> rpc[r] = "done"
=============================================================================
