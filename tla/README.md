# AtomDoc in TLA+

AtomDoc keeps one document, a tree of typed nodes, consistent between a Python
host (`src/python/src/atomdoc`), any number of connected clients
(`src/typescript/src`), and a durable store. This directory holds TLA+ models of
the parts where that is hard, the TLC configurations that check them on small
instances, and TLAPS proofs of what matters most for every instance.

- [Components](#components): the inventory
- [Plan](#plan): modules in the order they are written, and what is left
- [Session](#session), [Stores](#stores), [Document](#document), [Scope](#scope),
  [Thick client](#thick-client), [Undo](#undo): how the modules follow the code
- [Runs](#runs), [Fairness](#fairness), [Bounds](#bounds)
- [Proofs](#proofs)
- [Findings](#findings)
- [What is not modelled](#what-is-not-modelled)

## Components

| Component | Source | State | Operations | Interacts with | Hard behaviour | What makes it correct |
|---|---|---|---|---|---|---|
| Session | `_session.py`, `_transport.py`, `_ws_transport.py`, `_protocol.py` | connected and connecting clients, handshake buffers, views, queue of broadcasts, flush lock, scope locks, flush tasks | connect, op / create / undo / redo, scope, disconnect, `settled`, flush, unbind | transports call it; it applies operations to the document and listens to its changes; it asks a ClientView for projections | every `await` lets other tasks run: handshakes against commits, disconnects against everything, cancelled flushes | no commit lost or repeated, order kept, every request answered, nothing left of a gone client |
| Document tree and transactions | `_doc.py`, `_operations.py`, `_transaction.py`, `_range.py`, `_node.py`, `_children.py`, `_ref.py` | nodes, slots, references, the operations and inverse operations of the open transaction | insert, delete, move, set state, apply operations, commit, abort | listeners (Session, UndoManager, StoreBridge) run inside commit | inverse order, rollback half way through, listeners that edit, references into deleted subtrees | abort restores exactly, the inverse of a commit undoes it, no dangling reference |
| UndoManager (Python) | `_undo.py` | undo and redo stacks | record, undo, redo, clear, export, import | listens to the document, which it edits | its own edits come back as changes; steps refused by the document | undo then redo is the identity, stacks bounded, a refused step is not half consumed |
| Scope and ClientView | `_scope.py` | anchors and depth of a client, nodes it holds | reset, change, project | Session calls it per commit | a move across the edge of the view is an insert or a delete to the client | the client's tree is the projection of the document |
| DocumentStore, MemoryStore | `_store.py` | entries with token and expiry | read, head, put, touch, delete, list | hosts, several at once | compare-and-set with tokens, entries that expire by themselves | every call is one atomic step, no update lost |
| FileStore | `_store_file.py` | files, temporary files, lock file, thread lock, descriptor | the same, purge, open, close | other processes through the file system | two kinds of locks, renames, crashes, lock files replaced, threads outliving a cancelled call | the same promises, one writer at a time, no litter |
| SqliteStore | `_store_sqlite.py` | a connection, an asyncio lock | the same | other processes through SQLite | transactions in threads of cancelled calls | the same promises |
| Node ids | `_id.py`, `thick/node-id.ts` | last timestamp and counter | generate | document | clock going back | ids are never given twice |
| Edit API and selectors | `_edit.py`, `editing.py`, `_select.py` | none | build operations, evaluate paths | document | none of its own | |
| Node types, schema | `_descriptors.py`, `_types.py`, `_tier.py`, `_array.py`, `_handle.py`, `__init__.py` | none after import | class construction, conversion | document | none of its own | |
| ThickClient | `thick/thick-client.ts` | local copy, pending operations, buffered operations, own history | edit, undo / redo, scope, connect, reconnect, receive | session over a connection, LocalDoc, UndoManager | optimistic edits against remote ones, rejection, resync, reconnection | converges on the session's document, `settled()` means answered |
| UndoManager (TypeScript) | `thick/undo-manager.ts` | stacks, reservations | record, undo, redo, refresh | ThickClient, LocalDoc | a step in flight when another change arrives or the step is refused | stacks bounded, no step lost |
| LocalDoc | `thick/local-doc.ts`, `local-ops.ts`, `local-transaction.ts`, `local-range.ts`, `doc-node.ts` | as the Python document | as the Python document | ThickClient | as the Python document | as the Python document |
| StoreBridge | `thick/store-bridge.ts` | dirty flags | coalesce, notify | LocalDoc, UI stores | changes during a notification | the store shows the last state |
| Thin client | `client.ts`, `store.ts`, `patch.ts`, `operations.ts`, `transaction.ts` | copy of the document | apply patches, send operations | session | patches in order | the copy equals the document |
| TypeScript schema | `define.ts`, `validate.ts`, `schema.ts`, `types.ts` | none | checks | clients | none | |

What can go wrong in each, line by line, is the `hazards` list of `PROJECT.json`;
every property of a run answers one or more of them.

## Plan

In order of what a failure would cost: a client silently out of step, a lost
update in the store, then what a single process does to its own document.

1. **`Session`** with `SessionProofs` (written). Left: `unbind()`.
2. **`DocumentStore`** (abstract), **`MemoryStore`**, **`FileStore`** and
   **`SqliteStore`** implementing it, with `MemoryStoreProofs`, `FileStoreProofs`
   and `SqliteStoreProofs` (written).
3. **`ThickClient`** with `ThickClientProofs` (written): one client, the session reduced to its promises
   (patches in order, answers, snapshots after a rejection: what the first module
   establishes) and a connection that breaks. The client's copy is the server's
   document with the client's unanswered operations on top. Left: a slot per
   parent, scopes.
4. **`UndoManager`** (written: the Python one) implementing **`Timeline`**, with
   `UndoProofs`. Left: 4b the TypeScript manager, which reserves steps for edits
   whose echo has not come and sends history steps that may be refused later.
5. **`DocumentTree`** and **`Document`** (written) implementing **`OrderedTree`**, with
   `DocumentProofs` (the pointers of a tree, then transactions). Left:
   `Implements` as a theorem, for which the proofs have what is needed of the order of
   siblings; a second slot.
6. **`Scope`** (written), which extends `Document` by a client's view, its projection
   and the client that applies it, with `ScopeProofs` (the view). Left: the same with the delays of `Session`.
7. `StoreBridge` and the thin client.

Runs stay few: the bounds of a later module are chosen so that one passing run
covers several of its properties.

## Session

`Session.tla` is one document session in one asyncio loop. A step is what the
code does between two `await`s, and any other task may run between two steps.
Names are the code's: `clients` and `connecting` are the keys of the two tables,
`buffer` the list `_connecting` holds for each client, `pending` is
`_pending_broadcasts`. Locks are FIFO queues whose head is the holder, as
`asyncio.Lock` is: `lockq` is `_flush_lock`, `scopeq[c]` is `_scope_locks[c]`.

| Code | Actions |
|---|---|
| `_on_doc_change` | `OnDocChange`, by the host (`HostCommit`) or by a request (`RequestCommit`) |
| `_flush_broadcast`, `_broadcast`, `_safe_send` | `BeginBroadcast`, `BroadcastTo`, `EndBroadcast`, with `FlushOver` and the code after each flush |
| `_schedule_flush`, `settled` | `TaskStart`, `TaskDone`, `Settled...` |
| `_handle_connect` | `ConnectStart`, `ConnectWhole` or `ConnectPartial`, `ConnectSnapshot`, `ConnectLock`, `ConnectPromote`, `ConnectDrain`, `ConnectDone` |
| `_handle_disconnect`, `_forget` | `Disconnect`, `Forget` |
| `_handle_message` | `RefuseMessage`, `Dispatch`, `DispatchOk`, `DispatchRejected`, `DispatchStepRejected`, `DispatchError`, `RequestDone`, `RejectReply`, `Resync` |
| `_handle_scope` | `Scope...` |

The document is the number of its last commit; a view is the number of times it
was taken, which is what tells whether a projected patch meets the view it was
computed for. The dispatch of a request is synchronous: while `request` is set
only it moves (`Idle`). `due`, `held`, `answered`, `resyncAt` and `retried` are
auxiliary: they record what has reached each client and no step reads them.

`Features` names what may happen besides the regular protocol, and with it which
transport is assumed: without `"overlap"` a connection's callbacks come one at a
time and its disconnect last, as `WebSocketTransport` runs them.

## Stores

`DocumentStore.tla` is what callers rely on, for one key: a call takes effect
atomically between its start and its end, a conditional one only if its condition
held during the call, each write gets a token never used before, entries vanish
only by deletion or expiry, and a call that raises may or may not have taken
effect. `Look` and `Conclude` allow a read to see an entry and ask the clock
later, which is what `FileStore._read_sync` does.

`MemoryStore.tla`: no method awaits while it holds the lock, so each call is one
step after its `Begin`; `_live` evicts what it finds expired (`Entry`).

`FileStore.tla`: several store objects over one directory, each call a thread. A
step is what a thread does up to the next system call others can see. Its
variables are the thread lock of each object (`tlock`), the descriptor (`fd`, by
inode), the flocks by inode, the inode at the lock path, the document file, and
each call's temporary file. `AcquireThreadLock`, `OpenForLock`, `TakeFlock` and
`CheckCurrent` are `_Locked.__enter__` with its retry; `Leave` is `__exit__`;
`Check...`, `Replace`, `WriteFails`, `Sync`, `Unlink` the writers; `PurgeWalk`,
`CheckPurge`, `Sweep` are `_purge_sync`; `Look` and `Conclude` the reader. Closing
a descriptor drops its flock; a thread that uses it afterwards gets an exception.
A cancelled call's thread runs on, since `asyncio.to_thread` cannot stop it: with
`"cancel"` a store may be closed while such a thread is inside the lock.
`used` is auxiliary (tokens that ever named a write).

`SqliteStore.tla`: several store objects, each of its own process, over one database.
A step is one statement. A connection sees what is committed until the first
statement of its transaction fixes a snapshot (`fixed`, `rows`); `BEGIN IMMEDIATE` is
had by one connection at a time (`Writing`). `lock` is the `asyncio.Lock` of a store:
a cancelled call gives it back at once, and its thread goes on with the connection,
so the next call of that store may meet a transaction it did not begin (`BeginFails`).
`StatementFails` is any statement that raises, after which
`_Transaction` rolls back; a `COMMIT` that fails has rolled back by itself. What
SQLite does is external: snapshots in WAL mode, one writer, a transaction that dies
with its process.

`head()` asks without a transaction of its own. In the open transaction of a cancelled
call it would see what is not committed: feature `"joined"`, which the run leaves out
(Findings).

## Document

`DocumentTree.tla` is the node objects: each has a parent, two neighbours and a first
and last child, and the document adds the map of live ids and the reverse index of
references. A tree is a record of functions, so that an operation is a function from
trees to trees, used alike by a host's call, a peer's operation and a rollback. Nodes
have one slot and one field, an optional reference. An object that is removed keeps
its pointers and its field; `grave` is `_graveyard`, from which an insertion by id
takes it back (`Reborn`).

`Document.tla` is transactions over it. Nothing awaits, so a step is one call.

| Code | Actions and operators |
|---|---|
| `_insert_into_slot`, `_attach_node`, `_check_live` | `CanInsert`, `InsertInto`, `Link` |
| `NodeRange.delete`, `NodeRange.move`, `_detach_range` | `DeleteRange`, `MoveRange`, `CanDelete`, `CanMove`, `Detach` |
| `on_insert_range`, `on_delete_range`, `on_move_range`, `on_set_state_*` | `RecordInsert`, `RecordDelete`, `RecordMove`, `RecordSet` |
| `on_apply_operations` | `Applied`, `WithFields`, `ApplyAll`; inside a transaction `InsertIds`, `InsertSkipped` (its parent is gone), `InsertRefused`, `Patch`, `RecordPatch` |
| `with_transaction`, `maybe_trigger_listeners`, `_force_commit` | `Begin`, `Commit`, `Close` |
| `_check_ref_integrity`, `_refs_*` | `CheckRefIntegrity`, `References`, `WithIndex` |
| `abort` | `Rollback`, then one `Undo` per inverse operation, then `AbortDone` |

`Abort` may come after any call: it stands for a caller, a normalizer, a validation
or the check of references that raises. `base` and `gone` are auxiliary.
`OrderedTree.tla` is what a reader of the document may rely on: sequences of children
instead of pointers, one run taken out, put in or moved at a time, a transaction that
keeps all or nothing. `Document` implements it at every step, also of a rollback.

`IsTree` is what a document is throughout (`Pointers`): walks from the root find every node of it, each
once, and the neighbours of each agree with it.

Six sequences of calls go wrong. They are guards of the calls, named by `Faults`,
and the run leaves them out (Findings): `"below new"`, `"revive"`, `"give back"`,
`"stale"`, `"amid"` and `"moved out"`.

## Scope

`Scope.tla` extends `Document` by one scoped client. `anchors`, `held` and `placed` are
`ClientView`'s; `copy`, `stubs` and `lost` the client's `LocalDoc`, `copy` being a
`DocumentTree` of its own. `Project` is `ClientView.project`: the candidates a commit
may have touched, classified again. `Simulated` is `_emit`, which plays the client
while it writes the patch: deletions, arrivals, moves, departures (`EmitDeletes`,
`EmitArrivals`, `EmitMoves`, `EmitLeaving`), then fields (`EmitState`). `Receive` is
`LocalDoc._applyOps`, an operation at a time (`Land`), with what it refuses. `ChangeScope`
is `ClientView.change` on one side and `_handleScopeAck` on the other.

A patch is applied when it is made. That patches arrive, once, in order, and on the
right side of a change of scope is `Session`'s (`ViewAgrees`).

Six kinds of commits are projected wrongly (`Careful` says which); a run allows those
its `Faults` name.

## Thick client

`ThickClient.tla` is one `ThickAtomDocClient`, its connection, and the server and
the host at the other end. The document is one slot (`order`) with one field per
node (`val`). `pending` is `pendingOps` and `buffered` `bufferedOps`; `link` is
`"pending"` between the opening of a socket and its snapshot, as `onlinePending`.
`up` and `down` are the connection; `ghost` holds requests of a broken connection
that the server has received and serves all the same.

| Code | Actions and operators |
|---|---|
| `setField`, `createNode`, `deleteNode`, `moveNode`, `moveNodeRelative` | `SetField`, `SetPendingField`, `CreateNode`, ...; `Queue` and `Built` are `_queue` and `_sendBuilt` |
| `PendingModel` | `Foreseen`, `Gone`, `Known`, `ModelOrder` |
| `_handlePatch`, `_takePending`, `_maskState` | `HandlePatch` = `Confirm`, `Land` or `Foreign`; `TakePending`; `Mask`, `Refresh` |
| `_applyRemote`, `LocalDoc.applyOperations` | `Lenient` |
| error and snapshot messages, `_initDoc` | `HandleError`, `InitDoc` |
| `connect`, `_wentOffline` | `Connect`, `GoOffline` |
| `Session._apply_op`, `Doc.apply_operations(strict=True)` | `Serve`, `Applies`, `Committed`, `Recorded`, `Answer` |
| the rejection path of `_handle_message` | `SendError`, `Resync` |

The echo of a commit is `Recorded`: the neighbours the node got and the fields
that changed. The host's normalizer is external: it cuts a value above `Limit`,
and may note that in the field of `Tally`. Auxiliary: `base` (what the server has
told the client, without masking), `decided`, `dropped`, `doubled`, and `shadowed`
of a pending write (a built edit covered the field when it was made).

`Optimistic` says what masking is for: between echoes the client shows the last
thing the server told it with its own pending writes on top. `UndoReveals` is the
same for the inverse the client keeps of its oldest pending write. Both except
fields that a built edit covers: `_maskState` keeps a remote value from the
document there, and has no inverse to refresh. And both except nodes of which an
insert may have been sent twice (`Recreated`): after a break the client sends what
it has not heard of, the node may have been inserted and deleted meanwhile, and what
the client wrote to the first is masked in the second.

## Undo

`UndoManager.tla` is every undo manager that listens to one document: the
document's own (`Host`), which records all commits, and the one a session with the
`"per-client"` policy keeps for each client, which records the commits that client
requested. A commit reaches all of them; a client's undo is an edit to `Host`.
Nothing awaits, so a step is a whole transaction.

The document is a set of nodes with one field each. What an operation does to a
node is a word of insertions and deletions, of which only the first (it must apply)
and the last (it decides) matter, and a value written afterwards; so operations
merge, as `merge_operations` concatenates them, without growing. A field may hold
a reference, which keeps its target from being deleted.

| Code | Actions and operators |
|---|---|
| `on_apply_operations` without `strict` | `Apply`; `Applies` with `_check_ref_integrity` (`Sound`) |
| the recorded inverse, `merge_operations` | `InverseOf`, `Merge` |
| `_on_change` | `Recorded`, for each manager that `Accepts` the commit, in `Commit` |
| `undo`, `redo` | `Step`: refused and kept, consumed without a commit, or filed on the other side |
| `clear`, `_drop_client_undo` | `Clear` |
| `export_history`, `import_history` | `Transfer` |

`recent` says whether the clock is within `merge_interval` of the last step; `Pause`
lets the interval pass. `past` and `future` are auxiliary: the documents the steps of
`Host` started from and lead to. `Timeline.tla` says what a user who is alone expects
of them; `Retraces` is that the manager implements it, its stacks `InStep` with them.

It does so while `intact`. A value is lost in two ways, both real: the inverse of a
commit that deletes a node, inserts it again and gives it back the value it had does
not have that value, which is pruned as if the node had kept it (`Loses`); and the
inverse of a deletion does not mention a field at its default, so that a newer
inverse merged with it may fill in another value (`Confuses`, see Findings).

## Runs

| Run | Instance | Shows |
|---|---|---|
| `session_ws` | 2 clients (one partial), 2 requests with refs, 2 commits with and without a loop, connections drop | `ViewAgrees`, `Answered`, `InOrder`, with WebSocketTransport's sequencing |
| `session_overlap` | the same clients, 1 request, 1 commit on or off the loop; callbacks of one client overlap, connections drop, `settled()` awaited and cancelled | `WriterHoldsLock`: flushes and drains never mix, whoever is cancelled or forgotten half way; `NoLoss`, `OnceOnly`; `FlushMeansSent`: a flush that ends has sent everything, also what was committed off the loop; and `NoLeak`: nothing stays behind of a connection that is over |
| `session_live` | 1 client, 2 requests (one without a ref) that overlap, 1 commit, the connection drops, fair | every commit is heard or the client leaves; every handler ends although both locks are contended |
| `memory` | 3 calls of any kind, 2 moments, leases of 1 | `MemoryStore` implements `DocumentStore` |
| `file_locks` | 2 calls, 2 store objects, 2 lock files, crash, close, removal of the lock file | `OneWriter`, `CasOnce`, and `FileStore` implements `DocumentStore` |
| `file_expiry` | 2 calls of any kind, 1 store, 2 moments, failing writes, close under a running thread, a process that dies, fair | `NoLitter`, `LiveIsKept`, refinement, every call ends |
| `sqlite` | 2 calls of any kind, 2 store objects, 2 moments, cancelled calls, failing statements, crashes, closing | `Paired`: the two tables tell one story, in what is committed and in what a read returns; `Owned`: no connection is left inside a transaction and no lock is left taken; refinement |
| `document` | 4 nodes, 3 trees to start from, every transaction of up to 3 calls, committed or rolled back | `IndexExact`, `Pointers`, `Replays`: the patch makes a replica what the document is; `PutsBackAbsent`: a rollback inserts only what is not there; `Reversible`, `RefsResolve`, refinement of `OrderedTree` |
| `scope` | the same nodes, 3 trees with references, 7 scopes, one transaction of up to 2 calls, the scope changed before and after it any number of times | `ViewExact`: the view kept up to date is the view from scratch; `Mirrors`: the client has what a snapshot would show; `Delta` |
| `scope_unwrap` | the same, with `"left"` allowed | finding, see below |
| `thick` | slot `<<a, b>>`, one node to create, 3 values of which the normalizer accepts 2, 2 edits, 1 host commit, 1 break with requests still served | `Optimistic`, `UndoReveals`, `AnswersInOrder`, `ConvergedOnce`, `OnlyDroppedLost` |
| `undo` | 2 nodes, one of which can be referenced, 1 plain value, the document's manager and one client's, `max_steps` 1 or 2, 3 edits | types and references; while no value is lost, `Retraces` (implements `Timeline`) and `NeverRefused`; `Reversible` |

`WriterHoldsLock`, `NoLitter`, `Paired`, `Pointers`, `ViewExact`, `Mirrors` and `Optimistic` each
include the type invariant of their module.

Every property of a passing run has a mutant: an operator, marked `Mutant:` and
defined before the definition it changes, under which the run fails.

Deadlock is not checked where the system may simply stop: when every request has
been handled, every call made, or the bound on commits is reached.

## Fairness

Session: the event loop runs every task that is ready, and a send completes or
raises. So weak fairness of the flush, of each connection's handshake, of each
request's handler and of the synchronous dispatch. Nothing is assumed of the
host, of clients or of the network: no commit, message, drop or disconnect need
ever happen. Starvation is not hidden by weak fairness, since the locks are FIFO
in the model as in asyncio.

FileStore: the operating system runs every thread that can go on. Weak fairness
of each call's next step is enough although `flock` is not FIFO: finitely many
calls compete, and each leaves the lock for good (or, after finding its lock file
replaced, at most as often as it is replaced, which is bounded).

## Bounds

- `MaxVersion` (commits): two commits give a queue with an entry in progress and
  one behind it, which is what ordering and repetition need; a third adds nothing
  a client could tell apart from the second.
- Two clients: one acting and one watching; scoped and whole-document. Liveness has
  one, whose requests, handshake and disconnect compete for both locks.
- Two requests: the lock of a client's scope, or the flush lock, contended.
- `"cancel"`: the broadcast of a version is cancelled at most once, so that the
  queue of a cancelled flush stays finite.
- `MaxTime`, `MaxTtl`: an entry that is live when a call starts and expired when
  it ends, and a lease renewed in between.
- `MaxInodes`: a lock file and its replacement. The lock file is removed only
  while no thread is inside the lock: the code cannot defend a thread that is
  already inside, and nothing in it removes the file.
- Thick client: two edits, one break and one host commit put two operations in
  flight, rejected or replayed, against a foreign change between them. A second
  host commit was checked without values (1.2 million states).
- Undo: two nodes let a reference keep a node from being deleted; three edits fill a
  stack of two, merge into it or drop its oldest. Undo and redo are not bounded.
- Document: three calls let a node go, come back and be written, moved or named by a
  reference; with the root and three nodes a run has two members and a chain two
  levels. One transaction, since a commit leaves nothing behind but the tree and the
  graveyard, and the trees to start from include one with a removed subtree. What
  happens at the second commit is what happens at the first. `"amid"` and `"moved out"`
  take five nodes and up to five calls. `Reversible`, `PutsBackAbsent` and `Pointers` were checked
  once with these bounds for the calls that take part in them: insertions and deletions of
  a removed node x3 and its child x4, moves of two siblings x1 and x2 anywhere (297 thousand
  states).
- Scope: two calls put a move and a deletion, or a reference and its target, in one
  patch, and the scopes around it cover anchors above, at, below and beside them.
- SqliteStore: two calls of one store object, of which the first is cancelled, share
  a connection; two of different objects are two processes.
- Two calls, or three in `memory`, each made once: a call races another and, in
  `memory`, a third undoes what the second did.

## Proofs

| Theorem | States | By |
|---|---|---|
| `SessionProofs!NothingLost` | `Spec => []NoLoss` | `LossInv` = `TypeInv`, `NoLoss` and *nothing is due to a connection that is not registered yet*, which is what makes the snapshot cover all earlier commits |
| `SessionProofs!NothingLeaks` | `Spec => []NoLeak` | `Roster`: which of the tables a connection may be in, given how far its `_handle_connect`, its disconnect and its scope requests have come |
| `SessionProofs!HolderWrites` | `Spec => []WriterHoldsLock` | `TypeInv` = types, *the entry being sent is in the queue* (so no pop of an empty list) and *a handler past the scope lock holds it* (so no release of another's lock); `Roster`; `Drains`: who holds the flush lock while something is sent |
| `SessionProofs!FlushSent` | `Spec => []FlushMeansSent` | `LossInv`, `Roster` and `Drains`: a buffer that outlives its promotion is being drained by a task that holds the flush lock |
| `SessionProofs!SentOnce`, `SentInOrder` | `Spec => []OnceOnly`, `Spec => InOrder` | `OrderInv`: what waits for a client, in its buffer and then in the queue, is in the order of the commits and past everything it was sent (`Past`, `BufferRises`, `BufferFirst`, `QueueRises`); a broadcast goes only to recipients of its entry (`SentTo`), and nothing goes to a client that has set no scope (`Awaited`) |
| `SessionProofs!AllAnswered` | `Spec => []Answered` | `Replies`: where the answer to a request is, given how far its handler has come |
| `SessionProofs!PatchesFitViews` | `"overlap" \notin Features => (Spec => []ViewAgrees)` | `Turns`: a client's requests are served one at a time on an open connection (`Alone`), and a delta is queued only while the request that changes the scope is served (`Deltas`); `Abreast`: what waits for a client is for the view it holds, or behind a delta for the one the session has of it |
| `MemoryStoreProofs!Refinement` | `Spec => Implements` | an invariant on tokens (never more than were made), undecided calls and start times; each step maps to one step of `DocumentStore` or a stutter |
| `UndoProofs!TypeCorrect` | `Spec => []TypeOK` | `TypeInv` = types and `InStep`: the auxiliary stacks are as long as the real ones |
| `UndoProofs!Exact` | `Spec => Retraces` | `TypeInv` and `intact => Aligned`: each step of the document's stacks applies to the document the step above it leads to, and leads to the one `Timeline` remembers |
| `UndoProofs!NothingRefused` | `Spec => []NeverRefused` | the same invariant |
| `UndoProofs!EveryStepReverts` | `Spec => []Reversible` | `InverseLeads`: the inverse of an operation that applies, and does not lose a value, leads back, for every document whose references resolve |
| `DocumentProofs!IndexCorrect` | `"revive" \notin Faults => (Spec => []IndexExact)` | `IndexInv` = `IndexExact` and the shape of a tree; each operation adds and removes the references of the nodes it adds and removes, whatever nodes these are |
| `DocumentProofs!CallsKeepTree` | `{"stale", "revive"} \cap Faults = {} => (Init /\ [][Begin \/ AnyCall \/ Commit]_vars => []Pointers)` | `TreeInv` = `Pointers`, and the insertions that are recorded or left to roll back have a run to insert; each call takes trees to trees (`InsertTree`, `InsertIdsTree`, `DeleteTree`, `MoveTree`, `SetTree`) |
| `DocumentProofs!RollbacksKeepTree` | `{"stale", "revive"} \cap Faults = {} => (Spec /\ []PutsBackAbsent => []Pointers)` | the same invariant; an inverse operation is made for the document as it was, and lands in another after a fault, so that it is taken as any operation whatever (`AppliedTree`) |
| `DocumentProofs!ReferencesResolve` | `{"give back", "revive"} \cap Faults = {} => (Spec => RefsResolve)` | `IndexInv` and `KnownInv`: a node of the document that the record does not call inserted or updated was there when the transaction began, with the same reference, and a node that is gone since is recorded as deleted |
| `ScopeProofs!ViewIsExact` | `{"stale", "give back", "revive", "revived"} \cap Faults = {} => (ScopeSpec => []ViewExact)` | `ViewInv` = the invariants of the document above, `Exact` (the view is that of the document which the open transaction began with) and `Placement` (a node that is not recorded as inserted or moved is where it was); what a commit does not look at again is what it was (`UnseenSame`), and the rest is classified as from scratch (`ClassifyIs`) |
| `FileStoreProofs!TypeCorrect` | `Spec => []TypeOK` | `Counted`: there are as many tokens as `put` calls that made one, so never more than calls |
| `FileStoreProofs!NothingLeftBehind` | `Spec => []NoLitter` | `Tidy`: a call has a temporary file only between creating and renaming it, or because its process died there |
| `FileStoreProofs!CompareAndSet`, `LiveStays`, `Refinement` | `Quiet => (Spec => []CasOnce)`, `LiveIsKept`, `Implements` | `DataInv` = `LockInv` and: what a call inside the lock found stays true until it acts (`Granted`), a conditional put that succeeded has used up its token (`Spent`) |
| `FileStoreProofs!MutualExclusion` | `Quiet => (Spec => []OneWriter)` | `LockInv`: a thread inside has the thread lock of its object, the flock of the file that object has open, and that file is the one at the lock path |
| `SqliteStoreProofs!Ownership`, `Pairing` | `Spec => []Owned`, `Spec => []Paired` | `Inv`: a connection's transaction belongs to a call of its store that is in the midst of its work (`Tied`, `Connected`), one connection writes at a time (`OneWriter`), a reader's snapshot and what is committed pair entry and body (`Snapshots`, `Stored`) |
| `SqliteStoreProofs!Refinement` | `"joined" \notin Features => (Spec => Implements)` | `Inv`: what a writer has drafted so far is what its call asks for, over the rows that are still committed, and the condition it checked holds or did during the call (`Drafts`, `Granted`); each step is one of `DocumentStore` or a stutter |
| `ThickClientProofs!NothingElseLost` | `Spec => []OnlyDroppedLost` | `Inv`: the client's two lists are in the order of the edits (`Held`), nothing is under way while the connection is down and nothing of the client's is answered before its first snapshot (`Linked`), requests and answers are in the order of the edits and an answer comes only to what is decided (`Rising`), a pending operation has its request or its answer under way (`Awaited`) |
| `ThickClientProofs!AnsweredInOrder`, `Settles` | `Spec => []AnswersInOrder`, `Spec => []NothingWaits` | the same `Inv`: the first answer on its way is that of the first pending operation; when neither requests nor answers are left, nothing waits for one |
| `ThickClientProofs!TypeCorrect` | `Spec => []TypeOK` | `TypeInv`: types, what the client may ask for (`Own`) and what it may hear (`Commit`), and that no order holds a node twice |
| `ThickClientProofs!ShownOptimistically` | `Tally \notin Nodes => (Spec => []Optimistic)` | `Shown`: a field shows the client's last write of it or what the server told of it; with `Agreed` (an answer tells the fields its operation wrote), `Normal` (the server holds what its normalizer leaves alone) and `Once` (a node the client creates is new to all, until a break) |
| `ThickClientProofs!UndoRevealed` | `Tally \notin Nodes => (Spec => []UndoReveals)` | `Restores`: the inverse of a write leads to the client's write of the field before it, the oldest to what the server told; with `Alone` (a patch that inserts a node tells of no other) and all of the above |
| `ThickClientProofs!Converged` | `Tally \notin Nodes => (Spec => []ConvergedOnce)` | `Replay`: what is on its way leads from what the client was told to what the server holds; with `LateInv` (broadcasts after the snapshot that shows them change nothing), `Excused` (a snapshot follows every rejection), `Told` (an uncovered field is shown as told) and all of the above |

Each holds for every number of clients, requests, edits, breaks of a connection, commits, calls,
stores, moments, lock files, nodes, trees, values and undo steps. They assume what the modules assume of their constants
(`SessionAssumption`, `MemoryStoreAssumption`, `FileStoreAssumption`, `SqliteStoreAssumption`, `UndoAssumption`,
`DocumentTreeAssumption`, `DocumentAssumption`: finiteness,
and that special values differ from ordinary ones; of the thick client that the first
document holds no node twice and that values are numbers), which TLC evaluates in every
run. `MutualExclusion`, `CompareAndSet`, `LiveStays` and the refinement of `FileStore` also
assume `Quiet`: no store is closed while the thread of a cancelled call runs on. Without
it the statements are false (Findings). `NothingLeftBehind` and `TypeCorrect` of
`FileStore` do without; they assume that there are finitely many calls.

That each commit reaches each client once and in order takes everything else the session
guarantees. A client's future is its handshake buffer followed by the queue, and what it was sent
must end where that begins. A broadcast that is cancelled half way stays at the head of
the queue and is sent again to those who have it, so `SentTo` records to whom an entry in
progress has gone; a rejection's snapshot may show a commit that is still queued, which is
why `OnceOnly` speaks of frames and not of commits. `Roster` is needed because
`_forget` runs beside everything else: a buffer that is dropped between two sends of its drain
must not come back, and a connection that was never promoted must not be sent to.

`OneWriter` is not inductive: that two threads are not both inside follows only
from what each of them holds. The three layers of `LockInv` are the three
mechanisms of the code, and dropping any of them breaks the induction where
dropping the mechanism breaks the code. Crashes and closing are one lemma
(`ShutLocks`): the flock that goes is nobody's.

That the SQLite store is atomic rests on one fact per kind of call. A write takes effect
at its `COMMIT`; since its `BEGIN IMMEDIATE` nobody else has written, so the rows it
checked are those it replaces, although the clock has moved (which is why `Granted`
says that the entry *was* live during the call). A read takes effect when it selects the entry,
in a transaction without a snapshot yet, and decides when it asks the clock. A thread
whose call was cancelled does the same steps; what it would return is nobody's, so its
end is that of a call that raised. `"joined"` is the hypothesis of the
theorem: there `head()` would see rows that are not committed.

That a projected patch meets the view it was computed for rests on the order in which
`_handle_scope` does things: it flushes, takes the view anew and queues the delta without
an await in between, so a delta is queued when nothing else is, and until the flush after
it is over its request is being served. While it is, nothing else may take that view anew: a
rejection's snapshot does, which is why a transport must run the callbacks of a client one after
the other. With `"overlap"`, a change of scope and a rejected edit of a client that holds the whole
document break `ViewAgrees` (TLC finds it with two requests and one commit).

That a thick client loses no edit rests on one fact about `_takePending`: the prefix it
retires is one operation. It retires everything up to the one that is answered, so
each answer must be the first pending operation's (`FirstIsAnswered`). That needs the
order of what is under way in both directions, which a break cannot disturb,
because it leaves nothing under way, and the server still serving what the broken connection brought
(`ghost`) answers nobody. The invariant says nothing of what operations do to a
document, so these three theorems hold for any operations, normalizer and host.

That it shows what it should (`ShownOptimistically`) does look at documents. An echo confirms a write by
taking it out of the overlay, so the echo must bring the field's value along, or what
is shown would step back to what the server told before: that is `Fulfils`, which `Agreed` says of
every answer under way. A server that changes a field it was not asked to change
while it takes back the one it was makes an answer that does not; hence the hypothesis that
the normalizer notes nothing elsewhere (`Tally \notin Nodes`). Without it the statement is false
(Findings). A patch of somebody else is masked where a pending write covers a field, and
changes what is shown and what the server told alike everywhere else, but for nodes it
brings: of those the client must have nothing, or a mask would keep a value of a node it does not know.
`Once` says so by following a node the client creates through the request, the answer and
the snapshots; it ends at the first break (`Recreated`). The orders are sequences and
the operations on them are folds and searches, about which the proofs use induction over
numbers in the form of a set that contains 0 and each successor (`Induction`).

That undoing takes back the client's edit and no other (`UndoRevealed`) is said by `UndoReveals` of the
oldest pending write of a field only, and that is not inductive: when its echo arrives the next one is
the oldest, and its inverse must be right then. `Restores` says why it is. Its inverse is
what the client showed, hence the value of the write before it, and that value is what the echo
brings, unless the normalizer cuts it, which is the exception `UndoReveals` makes.

That both documents agree in the end (`Converged`) is about what the client was *told* (`base`), not what it
shows: the documents that base passes through while everything on its way is heard are a
sequence whose last one is the server's (`Replay`). A commit's patch and an answer lengthen it by
one document (`RecordedLeads`, `AnswerLeads`: the anchors and values of a recorded commit lead from
the order and fields before it to those after it), hearing a message takes the first one off. A rejection
breaks this nowhere but in the broadcasts that come after the snapshot that already shows them: those
must change nothing when they are heard a second time. Field writes do not, whatever their number,
because the last of each field is what the snapshot shows, and neither does one structural
commit; two of them may (`doubled`, the exception `ConvergedOnce` makes, for good: a later snapshot does
not lift it, though it would bring the documents together again). Then what is shown is what was told, but for the fields a pending
operation covers (`Told`), and in the end there are none (`Settles`).

That undo is exact rests on two facts about operations, `InverseLeads` and
`MergeLeads`, and on four about stacks: a chain of steps stays one when its oldest
are dropped (`ChainCut`), a step is taken (`ChainPop`), filed (`ChainPush`) or merged
(`ChainMerge`). The two ways to lose a value are the exact side conditions of the
two facts: `InverseLeads` needs `~Loses`, `MergeLeads` needs `~Confuses`, and neither
needs anything else of the operations, so the theorems say that nothing but these
two ever breaks a history.

That only what the record names need be checked for references is the content of
`KnownInv`: the check of a commit looks at the nodes that are recorded as inserted,
updated or deleted, so every other node must be as it was when the transaction began.
These two say nothing of where the pointers lead: they hold for whatever set of nodes goes or
comes with a call.

That the pointers always are a tree's (`Pointers`) takes most of `DocumentProofs`. The code follows pointers:
`_iter_range` the siblings, `_descendants` what is below a node, `ancestors` what is above it, and
checks before a call no more than it finds that way. `IsTree` says it that way too, as what the walks find.
But a walk says little of what the next one finds after a cut. So the proofs go over to sets: a `Forest` on
the nodes S with the tops T gives each node k the set `later[k]` of the siblings behind it, `next` names
the first of these, `prev` the last of the others, and no set of nodes is all below itself (`Grounded`).
`TreeForest` and `ForestTree` lead from walks to sets and back. Both directions count: a walk that ends
before it ran out of steps and finds nothing twice is complete (`SeqCount`, `LaidForest`), and what is above a node is
finite (`AncestorsExist`, by the closure of `parent`). A call is then two steps on sets. A range and all below it
is a `Bough`; taking it off leaves two forests (`BoughForest`, `RestForest`, `DetachForests`), and a forest whose
tops are linked in between two siblings makes one with the one they are in (`JoinForest`, `LinkForests`). What is
allowed ends up as what these need: that a node is not moved below itself says that the place is not in the bough
(`MoveApart`), and the place a move names is found among the siblings that are left (`PlaceSame`).
Removed objects are forests as well, if their pointers agree (`DeadForest`), and an insertion by id resets
objects that are tops of nothing (`RebornTree`). All this is for any set of nodes, and recursive functions are
only ever unfolded once: that the walks exist at all comes from `RecursionExists`, of a function in place
of an operator.

For rollbacks the theorem takes `PutsBackAbsent` for granted, which the run checks. It cannot be proved as the
model stands by an invariant about the tree alone: it says that the inverse operations lead back through the documents
the calls came from, as `Reversible` does, and `"amid"` and `"moved out"` show what that depends on. That,
`Replays` (the same for the patch) and the refinement of `OrderedTree` (whose sequences are what the walks
return) stay with TLC.

That a view is kept exactly (`ViewExact`) is a question of what a commit may leave out. What a node is to a
client follows from the nodes above it, from the anchors below it, and from the full nodes that refer to it.
`CallsPlace` says that the record names every node that got another parent, so a node which is not below
a recorded one has the same nodes above it (`UntouchedUp`) and is full, or at the bound, as before
(`UntouchedSame`). What is left is nodes that are looked at for the sake of others: those above an anchor that was
touched, those that a touched or written node refers to now, and all stubs, because a stub may lose what it was a stub for
anywhere in the document (`UnseenSame`). A full node needs no such care, nor does the place of what is not looked
at: what is above a full node is held (`FullPlaced`), so it is in the client's tree (`InTreeIs`).
The former targets of references and of deleted nodes, which `project` looks at besides, are not needed for this: they
are stubs if they have anything to lose. `"revived"` is excluded because there `project` drops nodes that are in the document.

`Mirrors` and `Delta` stay with TLC: they are about the order of the operations in a patch and what the client makes of each,
one after the other, which is induction over the patch.

Only model-checked besides, since the prover does not reason about fairness or
`ENABLED`: the liveness properties.

## Findings

- **`scope_unwrap`**. `_emit` puts a commit's deletions first. A node that is moved out
  of another one, which the same transaction deletes (a group is unwrapped), is still
  below it on the client when the deletion lands, and goes with it. The move that
  follows finds no node: the client lacks it for good, or gives up on a fill.

The other disagreements have no run of their own. Each is what an exception of a
property, a constant or a guard is for, and can be seen by allowing it.

*Scope*, by adding the name to `Faults` of `MCScope_unwrap.cfg` in place of `"left"`:
- `"exit under"` (`_scope.py:761`): a node is moved under one that leaves the view. It
  is taken to have left with it, but on the client it is where it was, and stays.
- `"beside"` (`_scope.py:594`): a node that is moved out of sight counts as in place, so
  that others are placed next to where it no longer is.
- `"revived"` (`_scope.py:472`): all that is under a deleted node counts as deleted,
  also what was inserted elsewhere in the meantime.
- `"joined"` (`_scope.py:661`): a node is moved under another and deleted with it. Its
  deletion is left out, though on the client it is somewhere else.
- `"blank"` (`_scope.py:785`): a node deleted and inserted again by its id has lost its
  fields; the client, which held it before, is not told.

*Document*, by adding the name to `Faults` of `MCDocument.cfg`:
- `"below new"` (`_operations.py:239`): the inverse of a deletion is not recorded under
  a parent that the transaction inserted. A node that was moved there and deleted is
  not brought back, although `PROTOCOL.md` says of an abort "Apply the inverse
  operations to undo all changes".
- `"amid"` (`_operations.py:109`): for the same reason the inverse of an insertion is not recorded
  under a new parent. x1 and x2 are moved below a new node g, x3 is inserted between them:
  the inverse of the move takes the range from x1 to x2, and x3 with it, which nothing removes.
  After the abort x3 is in the document.
- `"moved out"` (`_operations.py:239`): insert g with a child h, move x1 and x2 below h, then x1 out
  to where they were, then x2 below x1, delete h. No inverse puts h back, so the inverses that
  move x1 and x2 into it do nothing, and the one that moves the range from x1 to x2 does not find
  it: after the abort x2 is still below x1.
- `"revive"` (`_doc.py:1516`): an insertion by id of a node that was removed and
  inserted again as an object resets the live object before it is refused, or
  skipped because the parent it names is gone: then the transaction goes on, with
  a node whose pointers and fields are blank.
- `"give back"` (`_operations.py:464`): a node is deleted, inserted again and given the
  value it had. The value is pruned from the patch as unchanged, so that a replica
  lacks it, and the node is no longer among those `_check_ref_integrity`
  (`_doc.py:1050`) looks at: a reference given to the object while it was removed would
  pass unchecked (with `"stale"`, which lets it be given), which is why
  `ReferencesResolve` excludes it.
- `"stale"`: a removed object is inserted again although something below it was
  inserted elsewhere, so that its pointers lead into another parent's children: the
  lists to record have no first node, and the model gives no meaning to what follows.
  Or one is inserted whose field was written while it was removed: the inverse patch
  then has the later value.

*SqliteStore*, by adding `"joined"` to `Features`: a `head()` that comes while the thread
of a cancelled `put` is in its transaction answers from rows that may be rolled back;
the comment at `_store_sqlite.py:88` says "one connection, one caller at a time".

*Undo*: within `merge_interval`, a node at its default is deleted, inserted again with
a value, and changed or deleted. One undo of the merged step brings the node back with
the value it had in the middle, not the default: the deletion's inverse leaves defaults
out (`_operations.py:209`), and a newer inverse's value fills the gap. `intact` ends
there (`Confuses`).

*Thick client*:
- With `Tally = b` in `MCThickClient.cfg`, `ConvergedOnce` fails: a normalizer that takes
  a write back and changes another field in the same commit leaves the written field
  out of the patch; the echo retires the client's pending write and the client keeps
  its own value for good (`thick-client.ts:1129`).
- After a break a buffered insert may be sent again when the server has applied it and the
  host has deleted the node since: the replay brings the node back (`thick-client.ts:1054`),
  for both sides alike (`Recreated`). No property speaks of an operation that is applied twice
  and leaves both sides with one document.
- `PendingModel.order` (`thick-client.ts:218`) lifts every node some pending edit places
  or deletes before it replays the edits, so the anchor of an earlier edit may be
  missing when that edit is replayed: "move b before a", "delete a" is foreseen
  as c, b and served as b, c (`ModelOrder`). The next append lands in the middle.
- The snapshot after a rejection clears `pendingOps` (`thick-client.ts:1037`), also of
  edits the server has not read yet; a break of the connection then loses them.
  `OnlyDroppedLost` says that no others are.

*Session*: `_handle_message` awaits
the send of an error between its flush and the snapshot, so a commit in between is
in the snapshot and is sent again after it (the comment at `_session.py:560` says
the snapshot is the newest thing the client receives): `resyncAt` in `Session`.
For one field write or one move that is harmless; two structural patches applied
a second time may leave the client in another order for good: `doubled` in
`ThickClient`, which `ConvergedOnce` excepts.

*FileStore*: `_aclose` closes the lock descriptor without the thread lock. If a
cancelled `put`'s thread is still inside, its flock goes and another process enters:
two writers, though `_store_file.py:192` promises one at a time. `OneWriter` is
checked and proved without it (`Quiet`).

*Undo*, again: `on_apply_operations` prunes a restored value from the forward patch as it does from
the inverse (`Loses`): clients are told to delete the node and to insert it, and not
its value. And a redo of an undo that replaced a node gives the node its default.

*FileStore*, again: `_read_sync` opens the file and compares its expiry with the clock
afterwards: if the lease is renewed in between and the old one ends, the read
raises `DocumentNotFound` though a live document was there all along.
`DocumentStore` allows it (`Look`, then `Conclude`).

The docstring of `Session` (`_session.py:88-91`) says a step that no longer applies
is kept; `README.md` and `PROTOCOL.md` say that a step whose targets are gone
applies as far as it can and is consumed, and the code (`Apply`) does that. And a
client that takes back its own write of a field takes away what another client
has written there since, though `PROTOCOL.md` says another client's edits are
untouched; no property of `UndoManager` claims that.

## What is not modelled

- Session: `unbind()`, and what a request for an undo step reverts. A send outside the
  broadcasts (the schema, a snapshot, an error, the first `scope_ack`) succeeds or raises
  when the step that starts it is taken: a connection that is lost while such a send is
  suspended is noticed at the next one.
- `FileStore`: that the lock file is still the one locked is seen, and the lock let go and
  opened again otherwise, in one step (`CheckCurrent`); no other call acts on what is
  between. The lock file is removed only while no call is inside the lock (`RemoveLockFile`),
  which is an assumption about who removes it (Bounds).
- Stores: the contents of listings (a listing is modelled for what it evicts),
  validation of keys, damaged files, the encoding of paths, capabilities; of
  `SqliteStore`, listings altogether.
- Document: nodes with several slots, strict operations (`ThickClient!Serve` has
  them), checks of types and of values and listeners that raise (all are reasons for
  `Abort`), adopting and restoring whole documents, calls made by listeners.
- Scope: which requests of a scoped client are refused (`check_operations`: a function
  of the view and the request, without state), references to lists, projections that
  are delivered late (`Session`).
- Thick client: scopes (but for `LocalDoc`, in `Scope`), references, several slots
  and parents, the undo manager and the store bridge behind it.
- Undo: the order of siblings (`Document!Reversible` is about it), steps with several fields
  of a node (each is independent of the others), the TypeScript manager.
- `LocalDoc`'s own transactions, which are written after the Python document's.
- The components marked so in `PROJECT.json`; the plan says which come next. Building operations from host calls, evaluating selectors,
  class construction and schema checks are pure and stay out.
