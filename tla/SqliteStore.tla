---------------------------- MODULE SqliteStore ----------------------------
(***************************************************************************)
(* The SQLite store of python/src/atomdoc/_store_sqlite.py, for one key:   *)
(* store objects, each of a process of its own, over one database in WAL   *)
(* mode.  A store object has one connection and an asyncio lock, held by   *)
(* the one call that is awaiting its thread.  When that call is cancelled  *)
(* the lock is free and the thread runs on, on the same connection.        *)
(*                                                                         *)
(* now, used, since, seen, outcome are those of DocumentStore.  A step is  *)
(* one statement of SQL, or what a thread does with the clock.             *)
(***************************************************************************)
EXTENDS Naturals, FiniteSets

CONSTANTS
    Calls, Kinds, Anything, MaxTime, MaxTtl,
    Stores,     \* store objects
    None,       \* nobody
    Features    \* what may happen besides calls:
                \*  "cancel"  a call is cancelled
                \*  "ioerror" a statement fails
                \*  "crash"   a process dies
                \*  "close"   a store is closed
                \*  "joined"  head() in the transaction of a cancelled call

ASSUME SqliteStoreAssumption ==
    /\ MaxTime \in Nat \ {0} /\ MaxTtl \in Nat
    /\ None \notin Stores \cup Calls
    /\ Anything \notin Nat

VARIABLES
    now, used, call, since, seen, outcome,
    db,         \* the rows that are committed: of the entry and of the body
    tx,         \* the transaction each connection is in
    at,         \* the store object each call is made of
    pc,         \* where it is
    until,      \* the expiry a put or touch has computed; a purge's now
    data,       \* the body a read has read, named by the write it is from
    writes,     \* tokens made so far
    lock,       \* _lock: the call that awaits its thread
    status      \* of a store: "up", "closed" or "crashed"

committed == <<db, used>>
request   == <<call, since, at>>
result    == <<seen, outcome, data>>
vars      == <<now, committed, request, result, tx, pc, until, writes, lock, status>>

NoRow == [token |-> 0, expires |-> 0, body |-> 0]
NoTx  == [owner |-> None, writing |-> FALSE, fixed |-> FALSE, rows |-> NoRow]

Entry(row) == [token |-> row.token, expires |-> row.expires]

State(c) ==
    CASE pc[c] = "idle" -> "idle"
      [] pc[c] = "done" -> "returned"
      [] pc[c] = "failed" -> "failed"
      [] OTHER -> "called"

(* What this store is to implement; head() is a read that ignores the body. *)
AsRead(k) == IF k = "head" THEN "read" ELSE k
Store == INSTANCE DocumentStore WITH
    Kinds <- {AsRead(k) : k \in Kinds},
    doc   <- Entry(db),
    call  <- [c \in Calls |-> [call[c] EXCEPT !.kind = AsRead(@)]],
    state <- [c \in Calls |-> State(c)]

Live(row) == Store!Live(Entry(row), now)
Held(row) == Store!Held(Entry(row), now)

Requests ==
    Store!Requests \cup {[r EXCEPT !.kind = "head"] : r \in {q \in Store!Requests : q.kind = "read"}}

Conn(c) == tx[at[c]]
Awaited(c) == lock[at[c]] = c
Over(c) == pc[c] \in {"idle", "done", "failed"}
InThread(c) == ~Over(c) /\ pc[c] # "wait"
Goto(c, l) == pc' = [pc EXCEPT ![c] = l]

(* The thread of c is about to use the connection, which is open. *)
Ready(c, l) == pc[c] = l /\ status[at[c]] # "closed"

(* What a statement sees: the connection's snapshot, or what is committed. *)
Rows(s) == IF tx[s].fixed THEN tx[s].rows ELSE db

-----------------------------------------------------------------------------
(* Nothing is stored, or a lease; what never expires is one put away. *)
Init ==
    /\ now = 1
    /\ db \in {NoRow} \cup {[token |-> 1, expires |-> e, body |-> 1] : e \in 2..MaxTime}
    /\ used = {db.token} \ {0}
    /\ call = [c \in Calls |-> Store!NoCall] /\ since = [c \in Calls |-> 0]
    /\ at \in [Calls -> Stores]
    /\ seen = [c \in Calls |-> Store!NoDoc] /\ outcome = [c \in Calls |-> "none"]
    /\ data = [c \in Calls |-> 0] /\ until = [c \in Calls |-> 0]
    /\ tx = [s \in Stores |-> NoTx] /\ lock = [s \in Stores |-> None]
    /\ pc = [c \in Calls |-> "idle"] /\ writes = 1
    /\ status = [s \in Stores |-> "up"]

Tick ==
    /\ now < MaxTime
    /\ now' = now + 1
    /\ UNCHANGED <<committed, request, result, tx, pc, until, writes, lock, status>>

Begin(c, r) ==
    /\ pc[c] = "idle" /\ status[at[c]] = "up" /\ r.kind \in Kinds
    /\ call' = [call EXCEPT ![c] = r]
    /\ since' = [since EXCEPT ![c] = now]
    /\ Goto(c, "wait")
    /\ UNCHANGED <<now, committed, at, result, tx, until, writes, lock, status>>

(* async with self._lock: await asyncio.to_thread(...) *)
Acquire(c) ==
    /\ pc[c] = "wait" /\ lock[at[c]] = None
    /\ lock' = [lock EXCEPT ![at[c]] = c]
    /\ Goto(c, "start")
    /\ UNCHANGED <<now, committed, request, result, tx, until, writes, status>>

Released(c) == IF lock[at[c]] = c THEN [lock EXCEPT ![at[c]] = None] ELSE lock

(* The awaiting call is cancelled: the lock is released. A thread that has  *)
(* not started never does, one that has runs on.                           *)
Cancel(c) ==
    /\ "cancel" \in Features
    /\ \/ pc[c] = "wait" /\ Goto(c, "failed")
       \/ pc[c] = "start" /\ Awaited(c) /\ Goto(c, "failed")
       \/ InThread(c) /\ Awaited(c) /\ UNCHANGED pc
    /\ lock' = Released(c)
    /\ UNCHANGED <<now, committed, request, result, tx, until, writes, status>>

(* The thread ends; whoever cancelled the call does not hear of it. *)
End(c, l) ==
    /\ Goto(c, IF Awaited(c) THEN l ELSE "failed")
    /\ lock' = Released(c)

(* The thread's answer, which nobody hears if the call was cancelled. *)
Answer(c, o) == outcome' = IF Awaited(c) THEN [outcome EXCEPT ![c] = o] ELSE outcome

-----------------------------------------------------------------------------
(* Transactions.                                                           *)

(* The connection is in a transaction already, of a cancelled call; or     *)
(* another process has been writing for longer than _BUSY_TIMEOUT.         *)
Writing == \E s \in Stores : tx[s].writing
BeginFails(c) ==
    /\ Ready(c, "start") /\ call[c].kind # "head"
    /\ Conn(c) # NoTx \/ (call[c].kind # "read" /\ Writing)
    /\ End(c, "failed")
    /\ UNCHANGED <<now, committed, request, result, tx, until, writes, status>>

(* Mutant: entry and body are read without a transaction. *)
BeginReadNot(c) ==
    /\ Ready(c, "start") /\ call[c].kind = "read" /\ Conn(c) = NoTx
    /\ Goto(c, "select")
    /\ UNCHANGED <<now, committed, request, result, tx, until, writes, lock, status>>

(* BEGIN: the snapshot is that of the first statement. *)
BeginRead(c) ==
    /\ Ready(c, "start") /\ call[c].kind = "read" /\ Conn(c) = NoTx
    /\ tx' = [tx EXCEPT ![at[c]].owner = c]
    /\ Goto(c, "select")
    /\ UNCHANGED <<now, committed, request, result, until, writes, lock, status>>

(* BEGIN IMMEDIATE: the only writer there is. *)
BeginWrite(c) ==
    /\ Ready(c, "start") /\ call[c].kind \notin {"read", "head"}
    /\ Conn(c) = NoTx /\ ~Writing
    /\ tx' = [tx EXCEPT ![at[c]] = [owner |-> c, writing |-> TRUE, fixed |-> TRUE, rows |-> db]]
    /\ Goto(c, "check")
    /\ UNCHANGED <<now, committed, request, result, until, writes, lock, status>>

(* Mutant: the transaction is left open. *)
RaiseOnly(c) == UNCHANGED tx

(* ROLLBACK, which a closed connection has had already. *)
Raise(c) ==
    tx' = IF Conn(c).owner = c THEN [tx EXCEPT ![at[c]] = NoTx] ELSE tx

(* A statement fails, or the connection was closed; a COMMIT that fails has *)
(* rolled back by itself.                                                  *)
StatementFails(c) ==
    /\ pc[c] \in {"start", "select", "check", "entry", "body", "commit", "end"}
    /\ status[at[c]] = "closed" \/ ("ioerror" \in Features /\ pc[c] # "start")
    /\ Raise(c)
    /\ End(c, "failed")
    /\ UNCHANGED <<now, committed, request, result, until, writes, status>>

-----------------------------------------------------------------------------
(* Reading.                                                                *)

(* SELECT from entries: a read in its own transaction; head() in none, or  *)
(* in the one that the connection happens to be in.                        *)
SelectEntry(c) ==
    LET row == Rows(at[c]) IN
    /\ \/ Ready(c, "select")
       \/ Ready(c, "start") /\ call[c].kind = "head" /\ (Conn(c) = NoTx \/ "joined" \in Features)
    /\ tx' = IF Conn(c) = NoTx THEN tx
             ELSE [tx EXCEPT ![at[c]].rows = row, ![at[c]].fixed = TRUE]
    /\ CASE row.token # 0 ->
              seen' = [seen EXCEPT ![c] = Entry(row)] /\ Goto(c, "clock") /\ UNCHANGED <<outcome, lock>>
         [] row.token = 0 /\ call[c].kind = "head" ->
              Answer(c, "missing") /\ End(c, "done") /\ UNCHANGED seen
         [] OTHER ->
              Answer(c, "missing") /\ Goto(c, "end") /\ UNCHANGED <<seen, lock>>
    /\ UNCHANGED <<now, committed, request, data, until, writes, status>>

(* An expired entry is not there. *)
Clock(c) ==
    LET live == Store!Live(seen[c], now) IN
    /\ pc[c] = "clock"
    /\ IF call[c].kind = "head" THEN End(c, "done")
       ELSE Goto(c, IF live THEN "body" ELSE "end") /\ UNCHANGED lock
    /\ Answer(c, IF live THEN "ok" ELSE "missing")
    /\ UNCHANGED <<now, committed, request, seen, data, tx, until, writes, status>>

SelectBody(c) ==
    /\ Ready(c, "body") /\ call[c].kind = "read"
    /\ data' = [data EXCEPT ![c] = Rows(at[c]).body]
    /\ Goto(c, "end")
    /\ UNCHANGED <<now, committed, request, seen, outcome, tx, until, writes, lock, status>>

(* COMMIT *)
EndRead(c) ==
    /\ Ready(c, "end")
    /\ Raise(c)
    /\ End(c, "done")
    /\ UNCHANGED <<now, committed, request, result, until, writes, status>>

-----------------------------------------------------------------------------
(* Writing.                                                                *)

Refused(c) ==
    /\ call[c].match \notin {Anything, Held(Rows(at[c]))}
    /\ call[c].kind = "touch" => Live(Rows(at[c]))

(* StaleWrite or DocumentNotFound; ROLLBACK. *)
Refuse(c) ==
    /\ Ready(c, "check") /\ call[c].kind # "purge"
    /\ \/ Refused(c) /\ Answer(c, "stale")
       \/ call[c].kind = "touch" /\ ~Live(Rows(at[c])) /\ Answer(c, "missing")
    /\ Raise(c)
    /\ End(c, "done")
    /\ UNCHANGED <<now, committed, request, seen, data, until, writes, status>>

(* The check passed; the clock is read again for the expiry. *)
Allow(c) ==
    /\ Ready(c, "check") /\ call[c].kind \in {"put", "touch"} /\ ~Refused(c)
    /\ call[c].kind = "touch" => Live(Rows(at[c]))
    /\ Goto(c, "entry")
    /\ UNCHANGED <<now, committed, request, result, tx, until, writes, lock, status>>

(* A statement of a transaction that writes. *)
Change(c, rows, l) ==
    /\ tx' = [tx EXCEPT ![at[c]].rows = rows]
    /\ Goto(c, l)
    /\ UNCHANGED <<now, committed, request, result, lock, status>>

Expiry(c) == IF call[c].ttl = 0 THEN 0 ELSE now + call[c].ttl

(* Mutant: a put without a ttl leaves the expiry that is there. *)
PutEntryKeepingExpiry(c) ==
    LET until_ == IF call[c].ttl = 0 THEN Rows(at[c]).expires ELSE Expiry(c) IN
    /\ Ready(c, "entry") /\ call[c].kind = "put"
    /\ writes' = writes + 1
    /\ Change(c, [Rows(at[c]) EXCEPT !.token = writes', !.expires = until_], "body")
    /\ UNCHANGED until

(* INSERT INTO entries, under a token like no other; INSERT INTO bodies. *)
PutEntry(c) ==
    /\ Ready(c, "entry") /\ call[c].kind = "put"
    /\ writes' = writes + 1
    /\ Change(c, [Rows(at[c]) EXCEPT !.token = writes', !.expires = Expiry(c)], "body")
    /\ UNCHANGED until

PutBody(c) ==
    /\ Ready(c, "body") /\ call[c].kind = "put"
    /\ Change(c, [Rows(at[c]) EXCEPT !.body = Rows(at[c]).token], "commit")
    /\ UNCHANGED <<until, writes>>

(* UPDATE entries SET expires: the body is not written again. *)
Touch(c) ==
    /\ Ready(c, "entry") /\ call[c].kind = "touch"
    /\ Change(c, [Rows(at[c]) EXCEPT !.expires = Expiry(c)], "commit")
    /\ UNCHANGED <<until, writes>>

(* held is remembered: an expired row was not there. *)
DeleteBody(c) ==
    /\ Ready(c, "check") /\ call[c].kind = "delete" /\ ~Refused(c)
    /\ until' = [until EXCEPT ![c] = Held(Rows(at[c]))]
    /\ Change(c, [Rows(at[c]) EXCEPT !.body = 0], "body")
    /\ UNCHANGED writes

DeleteEntry(c) ==
    /\ Ready(c, "body") /\ call[c].kind = "delete"
    /\ Change(c, [Rows(at[c]) EXCEPT !.token = 0, !.expires = 0], "commit")
    /\ UNCHANGED <<until, writes>>

Expired(c) == ~Store!Live(Entry(Rows(at[c])), until'[c])

(* Bodies and entries of what has expired by one and the same moment. *)
PurgeBodies(c) ==
    /\ Ready(c, "check") /\ call[c].kind = "purge"
    /\ until' = [until EXCEPT ![c] = now]
    /\ Change(c, IF Expired(c) THEN [Rows(at[c]) EXCEPT !.body = 0] ELSE Rows(at[c]), "body")
    /\ UNCHANGED writes

PurgeEntries(c) ==
    /\ Ready(c, "body") /\ call[c].kind = "purge"
    /\ UNCHANGED <<until, writes>>
    /\ Change(c, IF Expired(c) THEN [Rows(at[c]) EXCEPT !.token = 0, !.expires = 0]
                 ELSE Rows(at[c]), "commit")

(* COMMIT: now everybody sees it. *)
Commit(c) ==
    /\ Ready(c, "commit")
    /\ db' = Rows(at[c])
    /\ used' = used \cup ({db'.token} \ {0})
    /\ seen' = IF call[c].kind \in {"put", "touch"} THEN [seen EXCEPT ![c] = Entry(db')] ELSE seen
    /\ outcome' = CASE call[c].kind = "purge" -> outcome
                    [] call[c].kind = "delete" ->
                         [outcome EXCEPT ![c] = IF until[c] = 0 THEN "missing" ELSE "ok"]
                    [] OTHER -> [outcome EXCEPT ![c] = "ok"]
    /\ tx' = [tx EXCEPT ![at[c]] = NoTx]
    /\ until' = [until EXCEPT ![c] = 0]
    /\ Goto(c, "leave")
    /\ UNCHANGED <<now, request, data, writes, lock, status>>

(* The thread is done, and the call if it still awaits it. *)
Leave(c) ==
    /\ pc[c] = "leave"
    /\ IF call[c].kind = "purge" THEN Answer(c, "ok") ELSE UNCHANGED outcome
    /\ End(c, "done")
    /\ UNCHANGED <<now, committed, request, seen, data, tx, until, writes, status>>

-----------------------------------------------------------------------------
(* The stores.                                                             *)

(* A store that nobody is using might as well never be used again. *)
InUse(s) == \E c \in Calls : at[c] = s /\ ~Over(c)

(* aclose has the lock, and the connection goes. (That calls are refused   *)
(* from the moment it asks for the lock is left out: they do not begin.)   *)
CloseStore(s) ==
    /\ "close" \in Features /\ status[s] = "up" /\ lock[s] = None /\ InUse(s)
    /\ status' = [status EXCEPT ![s] = "closed"]
    /\ tx' = [tx EXCEPT ![s] = NoTx]
    /\ UNCHANGED <<now, committed, request, result, pc, until, writes, lock>>

(* The process dies; what it had not committed is gone. *)
Crash(s) ==
    /\ "crash" \in Features /\ status[s] # "crashed" /\ InUse(s)
    /\ status' = [status EXCEPT ![s] = "crashed"]
    /\ tx' = [tx EXCEPT ![s] = NoTx] /\ lock' = [lock EXCEPT ![s] = None]
    /\ pc' = [c \in Calls |-> IF at[c] = s /\ ~Over(c) THEN "failed" ELSE pc[c]]
    /\ UNCHANGED <<now, committed, request, result, until, writes>>

Step(c) ==
    \/ Acquire(c)
    \/ BeginFails(c) \/ BeginRead(c) \/ BeginWrite(c) \/ StatementFails(c)
    \/ SelectEntry(c) \/ Clock(c) \/ SelectBody(c) \/ EndRead(c)
    \/ Refuse(c) \/ Allow(c) \/ PutEntry(c) \/ PutBody(c) \/ Touch(c) \/ DeleteBody(c) \/ DeleteEntry(c)
    \/ PurgeBodies(c) \/ PurgeEntries(c)
    \/ Commit(c) \/ Leave(c)

Next ==
    \/ Tick
    \/ \E s \in Stores : CloseStore(s) \/ Crash(s)
    \/ \E c \in Calls : Step(c) \/ Cancel(c) \/ \E r \in Requests : Begin(c, r)

Spec == Init /\ [][Next]_vars

-----------------------------------------------------------------------------
(* Properties.                                                             *)

Entries == [token : Nat, expires : Nat]
Row     == [token : Nat, expires : Nat, body : Nat]
Transactions == [owner : Calls \cup {None}, writing : BOOLEAN, fixed : BOOLEAN, rows : Row]

(* Every variable has its type. *)
TypeOK ==
    /\ now \in 1..MaxTime /\ used \subseteq Nat /\ writes \in Nat
    /\ db \in Row
    /\ tx \in [Stores -> Transactions]
    /\ call \in [Calls -> [kind : Kinds \cup {"none"}, match : Nat \cup {Anything}, ttl : 0..MaxTtl]]
    /\ since \in [Calls -> 0..MaxTime] /\ seen \in [Calls -> Entries]
    /\ outcome \in [Calls -> {"none", "ok", "stale", "missing"}]
    /\ at \in [Calls -> Stores] /\ data \in [Calls -> Nat] /\ until \in [Calls -> Nat]
    /\ pc \in [Calls -> {"idle", "wait", "start", "select", "clock", "check", "entry", "body", "commit",
                         "end", "leave", "done", "failed"}]
    /\ lock \in [Stores -> Calls \cup {None}]
    /\ status \in [Stores -> {"up", "closed", "crashed"}]

(* The store keeps the promises of DocumentStore: with calls cancelled     *)
(* under their threads, statements that fail, processes that die.          *)
Implements == Store!Spec

(* The two tables never tell different stories: what is committed is an    *)
(* entry with its own body or neither, and a read returns the body of the  *)
(* very write its token names, whatever is committed in between.           *)
Paired ==
    /\ TypeOK
    /\ db.body = db.token
    /\ \A c \in Calls : pc[c] = "done" /\ call[c].kind = "read" /\ outcome[c] = "ok"
                        => data[c] = seen[c].token

(* A transaction is over when its thread is, and the lock is free when its *)
(* call is: the connection, which all later calls share, is never left     *)
(* inside a transaction, and nobody is kept from working.                  *)
Owned ==
    \A s \in Stores :
        /\ tx[s] # NoTx => tx[s].owner \in Calls /\ InThread(tx[s].owner)
        /\ lock[s] # None => InThread(lock[s])
=============================================================================
