--------------------------- MODULE SqliteStoreProofs ---------------------------
(***************************************************************************)
(* The invariant of SqliteStore, for any store objects and calls, although *)
(* the thread of a cancelled call goes on with a connection others use.    *)
(*                                                                         *)
(* What has to be known: whose transaction each connection is in and where *)
(* that call is (Tied, Connected), that one connection writes at a time    *)
(* (OneWriter) and so what a writer checked is what it replaces (Drafts,   *)
(* Granted), and what a call has found out when (Found).                   *)
(***************************************************************************)
EXTENDS SqliteStore, TLAPS

Inside == {"select", "clock", "check", "entry", "body", "commit", "end"}

(* Which calls come where. *)
Paths ==
    \A c \in Calls :
        /\ pc[c] \in {"select", "end"} => call[c].kind = "read"
        /\ pc[c] = "clock" => call[c].kind \in {"read", "head"}
        /\ pc[c] \in {"check", "entry", "commit", "leave"} => call[c].kind \notin {"read", "head"}
        /\ pc[c] = "entry" => call[c].kind \in {"put", "touch"}
        /\ pc[c] = "body" => call[c].kind \in {"read", "put", "delete", "purge"}
        /\ pc[c] = "commit" => call[c].kind \in {"put", "touch", "delete", "purge"}

(* The call whose transaction a connection is in is one of its store, in   *)
(* the midst of its work; the one that has the lock is not over.           *)
Tied ==
    \A s \in Stores :
        /\ tx[s].owner = None => tx[s] = NoTx
        /\ tx[s].owner # None =>
             /\ at[tx[s].owner] = s /\ pc[tx[s].owner] \in Inside
             /\ call[tx[s].owner].kind # "head"
             /\ tx[s].writing <=> call[tx[s].owner].kind # "read"
        /\ tx[s].writing => tx[s].fixed
        /\ lock[s] # None => at[lock[s]] = s /\ InThread(lock[s])

(* A thread in the midst of its work is in its own transaction, unless the *)
(* store was closed under it.                                              *)
Connected ==
    \A c \in Calls :
        /\ ~Over(c) => status[at[c]] # "crashed"
        /\ pc[c] \in Inside /\ call[c].kind # "head" /\ status[at[c]] = "up" => Conn(c).owner = c

OneWriter == \A s, t \in Stores : tx[s].writing /\ tx[t].writing => s = t

Stored ==
    /\ db.body = db.token /\ (db.token = 0 => db.expires = 0)
    /\ db.token \in used \cup {0} /\ \A u \in used : u <= writes
    /\ \A c \in Calls : since[c] <= now

(* What a call has found out, and when it has. *)
Found ==
    \A c \in Calls :
        /\ pc[c] \in {"idle", "wait", "start", "select", "clock", "check", "entry", "commit"}
             => outcome[c] = "none"
        /\ pc[c] = "body" /\ call[c].kind # "read" => outcome[c] = "none"
        /\ pc[c] = "leave" => (outcome[c] = "none" <=> call[c].kind = "purge")
        /\ pc[c] \in {"body", "end"} /\ call[c].kind = "read" /\ Awaited(c) => outcome[c] # "none"
        /\ pc[c] = "clock" => seen[c].token # 0
        /\ pc[c] \in {"end", "done"} /\ call[c].kind = "read" /\ outcome[c] = "ok"
             => data[c] = seen[c].token

(* The snapshot of a reader pairs entry and body. *)
Snapshots ==
    \A c \in Calls : Conn(c).owner = c /\ ~Conn(c).writing =>
        /\ Conn(c).fixed => Conn(c).rows.body = Conn(c).rows.token
        /\ pc[c] = "select" /\ "joined" \notin Features => ~Conn(c).fixed
        /\ pc[c] \in {"clock", "body"} => Conn(c).fixed /\ Conn(c).rows.token = seen[c].token

(* The entry was live at a moment of the call; an expiry of that time. *)
WasLive(c) == db.token # 0 /\ (db.expires = 0 \/ since[c] < db.expires)
InTime(c, e) ==
    IF call[c].ttl = 0 THEN e = 0 ELSE since[c] + call[c].ttl <= e /\ e <= now + call[c].ttl
NotLive(row, t) == row.token = 0 \/ (row.expires # 0 /\ row.expires <= t)

(* What a writer has written so far, over what is still committed. *)
Draft(c, rows) ==
    /\ pc[c] \in {"check", "entry"} => rows = db
    /\ call[c].kind = "put" /\ pc[c] \in {"body", "commit"} =>
         /\ rows.token \notin used /\ rows.token # 0 /\ rows.token <= writes
         /\ InTime(c, rows.expires)
         /\ pc[c] = "commit" => rows.body = rows.token
    /\ call[c].kind = "touch" /\ pc[c] = "commit" =>
         rows.token = db.token /\ rows.body = db.token /\ InTime(c, rows.expires)
    /\ call[c].kind = "delete" =>
         /\ pc[c] \in {"body", "commit"} => rows.body = 0
         /\ pc[c] = "commit" => rows.token = 0 /\ rows.expires = 0
    /\ call[c].kind = "purge" =>
         /\ pc[c] = "body" =>
              /\ until[c] <= now /\ rows.token = db.token /\ rows.expires = db.expires
              /\ rows.body = IF NotLive(rows, until[c]) THEN 0 ELSE rows.token
         /\ pc[c] = "commit" =>
              \/ rows = db
              \/ rows = NoRow /\ NotLive(db, now)

(* The condition of a call that passed its check still holds or did while  *)
(* the call was made, whatever the clock says.                             *)
Granted(c) ==
    /\ call[c].kind \in {"put", "delete"} =>
         \/ call[c].match = Anything
         \/ call[c].match = 0 /\ NotLive(db, now)
         \/ call[c].match = db.token /\ WasLive(c)
    /\ call[c].kind = "touch" => WasLive(c) /\ call[c].match \in {Anything, db.token}
    /\ call[c].kind = "delete" => IF until[c] = 0 THEN NotLive(db, now) ELSE WasLive(c)

Drafting(c) == Conn(c).owner = c /\ Conn(c).writing
Drafts ==
    \A c \in Calls : Drafting(c) =>
        /\ Draft(c, Conn(c).rows)
        /\ pc[c] \in {"entry", "body", "commit"} => Granted(c)

Inv ==
    /\ TypeOK /\ Paths /\ Tied /\ Connected /\ OneWriter /\ Stored /\ Found
    /\ Snapshots /\ Drafts

-----------------------------------------------------------------------------
(* What the parts of steps do.                                             *)

USE SqliteStoreAssumption
USE DEF Goto, Ready, Conn, committed, request, result

Outcomes == {"none", "ok", "stale", "missing"}

Points == {"idle", "wait", "start", "select", "clock", "check", "entry", "body", "commit", "end",
           "leave", "done", "failed"}

LEMMA NoTxType == NoTx \in Transactions /\ NoTx.owner = None /\ ~NoTx.writing /\ ~NoTx.fixed
BY DEF NoTx, Transactions, Row, NoRow

LEMMA RowsType ==
    ASSUME TypeOK, NEW s \in Stores PROVE Rows(s) \in Row
BY DEF TypeOK, Rows, Transactions

(* A thread at work is in its own transaction. *)
LEMMA Owns ==
    ASSUME Inv, NEW c \in Calls, pc[c] \in Inside, call[c].kind # "head", status[at[c]] # "closed"
    PROVE  Conn(c).owner = c /\ (Conn(c).writing <=> call[c].kind # "read")
BY DEF Inv, TypeOK, Connected, Tied, Over, Inside

(* A rollback ends the caller's transaction and no other. *)
LEMMA Raised ==
    ASSUME Inv, NEW c \in Calls, Raise(c)
    PROVE  /\ tx' \in [Stores -> Transactions]
           /\ \A s \in Stores : tx'[s] = IF tx[s].owner = c THEN NoTx ELSE tx[s]
<1>1. tx' \in [Stores -> Transactions]
  BY NoTxType DEF Inv, TypeOK, Raise
<1>2. ASSUME NEW s \in Stores PROVE tx'[s] = IF tx[s].owner = c THEN NoTx ELSE tx[s]
  BY DEF Inv, TypeOK, Tied, Raise, NoTx
<1> QED
  BY <1>1, <1>2

(* When its thread ends a call does not hold the lock any more, and returns *)
(* if it did.                                                              *)
LEMMA Ended ==
    ASSUME Inv, NEW c \in Calls, NEW l \in Points, End(c, l)
    PROVE  /\ pc' \in [Calls -> Points]
           /\ pc' = [pc EXCEPT ![c] = IF Awaited(c) THEN l ELSE "failed"]
           /\ lock' \in [Stores -> Calls \cup {None}]
           /\ \A s \in Stores : lock'[s] = IF lock[s] = c THEN None ELSE lock[s]
<1>1. /\ pc' = [pc EXCEPT ![c] = IF Awaited(c) THEN l ELSE "failed"]
      /\ pc' \in [Calls -> Points]
  BY DEF End, Inv, TypeOK, Points
<1>2. lock' \in [Stores -> Calls \cup {None}]
  BY DEF Inv, TypeOK, End, Released
<1>3. ASSUME NEW s \in Stores PROVE lock'[s] = IF lock[s] = c THEN None ELSE lock[s]
  BY DEF Inv, TypeOK, Tied, End, Released
<1> QED
  BY <1>1, <1>2, <1>3

LEMMA Answered ==
    ASSUME Inv, NEW c \in Calls, NEW o \in Outcomes, Answer(c, o)
    PROVE  /\ outcome' \in [Calls -> Outcomes]
           /\ \A d \in Calls \ {c} : outcome'[d] = outcome[d]
           /\ outcome'[c] = IF Awaited(c) THEN o ELSE outcome[c]
BY DEF Inv, TypeOK, Answer, Outcomes

(* A statement that writes changes the caller's draft. *)
LEMMA Changes ==
    ASSUME Inv, NEW c \in Calls, NEW rows \in Row, NEW l, Change(c, rows, l), Conn(c).owner = c
    PROVE  /\ tx' \in [Stores -> Transactions]
           /\ \A s \in Stores \ {at[c]} : tx'[s] = tx[s]
           /\ tx'[at[c]].owner = c /\ tx'[at[c]].writing = Conn(c).writing
           /\ tx'[at[c]].fixed = Conn(c).fixed /\ tx'[at[c]].rows = rows
<1>1. tx' = [tx EXCEPT ![at[c]].rows = rows] /\ at[c] \in Stores /\ tx \in [Stores -> Transactions]
  BY DEF Inv, TypeOK, Change
<1> QED
  BY <1>1 DEF Transactions

LEMMA InTransaction ==
    ASSUME Inv, NEW c \in Calls, Conn(c).owner = c
    PROVE  pc[c] \in Inside /\ call[c].kind # "head" /\ (Conn(c).writing <=> call[c].kind # "read")
BY DEF Inv, TypeOK, Tied

(* What the writer has found and drafted. *)
LEMMA OwnDraft ==
    ASSUME Inv, NEW c \in Calls, Drafting(c)
    PROVE  /\ Rows(at[c]) = Conn(c).rows /\ Draft(c, Rows(at[c]))
           /\ pc[c] \in {"entry", "body", "commit"} => Granted(c)
BY DEF Inv, TypeOK, Tied, Drafts, Drafting, Rows

(* There is one draft at most. *)
LEMMA OnlyDraft ==
    ASSUME Inv, OneWriter', UNCHANGED at, NEW c \in Calls, Drafting(c)',
           Draft(c, Conn(c).rows)', (pc[c] \in {"entry", "body", "commit"} => Granted(c))'
    PROVE  Drafts'
<1> SUFFICES ASSUME NEW d \in Calls, Drafting(d)'
             PROVE  d = c
  BY DEF Drafts
<1> QED
  BY DEF OneWriter, Drafting, Inv, TypeOK

(* The draft of another call does not change with what this one does. *)
(* When a transaction goes, the others stay what they were. *)
LEMMA OthersKept ==
    ASSUME Inv, NEW c \in Calls, UNCHANGED <<at, seen>>,
           \A d \in Calls \ {c} : pc'[d] = pc[d],
           \A s \in Stores : tx'[s] = IF tx[s].owner = c THEN NoTx ELSE tx[s]
    PROVE  /\ Snapshots' /\ OneWriter'
           /\ \A d \in Calls : Drafting(d)' =>
                 d # c /\ Drafting(d) /\ tx'[at[d]].rows = tx[at[d]].rows
<1>1. ASSUME NEW d \in Calls, tx'[at[d]].owner = d
      PROVE  tx'[at[d]] = tx[at[d]] /\ pc'[d] = pc[d] /\ d # c
  <2>1. at[d] \in Stores
    BY DEF Inv, TypeOK
  <2>2. tx[at[d]].owner # c
    BY <1>1, <2>1, NoTxType
  <2>3. tx'[at[d]] = tx[at[d]] /\ d # c
    BY <1>1, <2>1, <2>2
  <2> QED
    BY <2>3
<1>2. Snapshots'
  BY <1>1 DEF Inv, Snapshots
<1>3. \A s \in Stores : tx'[s].writing => tx[s].writing
  BY NoTxType
<1>4. OneWriter'
  BY <1>3 DEF Inv, OneWriter
<1>5. ASSUME NEW d \in Calls, Drafting(d)'
      PROVE  d # c /\ Drafting(d) /\ tx'[at[d]].rows = tx[at[d]].rows
  BY <1>1, <1>5 DEF Drafting
<1> QED
  BY <1>2, <1>4, <1>5

LEMMA DraftsOfOthers ==
    ASSUME Inv, NEW c \in Calls, UNCHANGED <<now, db, used, writes, call, since, until, at>>,
           \A d \in Calls \ {c} : pc'[d] = pc[d],
           \A d \in Calls : Drafting(d)' => d # c /\ Drafting(d) /\ tx'[at[d]].rows = tx[at[d]].rows
    PROVE  Drafts'
<1> SUFFICES ASSUME NEW d \in Calls, Drafting(d)'
             PROVE  /\ Draft(d, Conn(d).rows)'
                    /\ (pc[d] \in {"entry", "body", "commit"} => Granted(d))'
  BY DEF Drafts
<1>1. d # c /\ Drafting(d) /\ tx'[at[d]].rows = tx[at[d]].rows /\ pc'[d] = pc[d]
  OBVIOUS
<1>2. Draft(d, Conn(d).rows) /\ (pc[d] \in {"entry", "body", "commit"} => Granted(d))
  BY <1>1 DEF Inv, Drafts
<1>3. Draft(d, Conn(d).rows)'
  BY <1>1, <1>2 DEF Draft, InTime, NotLive
<1>4. (pc[d] \in {"entry", "body", "commit"} => Granted(d))'
  BY <1>1, <1>2 DEF Granted, WasLive, NotLive
<1> QED
  BY <1>3, <1>4

-----------------------------------------------------------------------------
(* The steps of a thread, and its cancellation.                            *)

LEMMA AcquireInv ==
    ASSUME Inv, NEW c \in Calls, Acquire(c) PROVE Inv'
<1>1. TypeOK'
  BY SMTT(30) DEF Acquire, Inv, Outcomes, TypeOK
<1>2. Paths'
  BY SMTT(30) DEF Acquire, Inv, Paths, TypeOK
<1>3. Tied'
  BY SMTT(30) DEF Acquire, InThread, Inside, Inv, Over, Paths, Tied, TypeOK
<1>4. Connected'
  BY SMTT(30) DEF Acquire, Connected, Inside, Inv, Over, Paths, Tied, TypeOK
<1>5. OneWriter'
  BY SMTT(30) DEF Acquire, Inv, OneWriter, Tied, TypeOK
<1>6. Stored'
  BY SMTT(30) DEF Acquire, Inv, Stored, TypeOK
<1>7. Found'
  BY SMTT(30) DEF Acquire, Awaited, Found, Inv, Paths, TypeOK
<1>8. Snapshots'
  BY SMTT(30) DEF Acquire, Inside, Inv, Paths, Snapshots, Tied, TypeOK
<1>9. Drafts'
  <2>1. UNCHANGED at /\ \A d \in Calls : Drafting(d)' => d # c /\ Drafting(d) /\ tx'[at[d]].rows = tx[at[d]].rows
    <3>1. UNCHANGED <<at, tx>> /\ pc[c] = "wait"
      BY DEF Acquire
    <3>2. ~Drafting(c)
      BY <3>1, InTransaction DEF Drafting, Inside
    <3> QED
      BY <3>1, <3>2 DEF Drafting
  <2> QED
    BY <2>1, DraftsOfOthers DEF Acquire, Inv, TypeOK
<1> QED
  BY <1>1, <1>2, <1>3, <1>4, <1>5, <1>6, <1>7, <1>8, <1>9 DEF Inv

LEMMA BeginFailsInv ==
    ASSUME Inv, NEW c \in Calls, BeginFails(c) PROVE Inv'
<1>e. /\ pc' = [pc EXCEPT ![c] = IF Awaited(c) THEN "failed" ELSE "failed"]
      /\ lock' \in [Stores -> Calls \cup {None}]
      /\ \A s \in Stores : lock'[s] = IF lock[s] = c THEN None ELSE lock[s]
      /\ pc' \in [Calls -> Points]
  BY Ended DEF Points, BeginFails
<1>1. TypeOK'
  BY <1>e, SMTT(30) DEF BeginFails, Inv, Outcomes, TypeOK
<1>2. Paths'
  BY <1>e, SMTT(30) DEF BeginFails, Inv, Paths, TypeOK
<1>3. Tied'
  BY <1>e, SMTT(30) DEF BeginFails, InThread, Inside, Inv, Over, Paths, Tied, TypeOK
<1>4. Connected'
  BY <1>e, SMTT(30) DEF BeginFails, Connected, Inside, Inv, Over, Paths, Tied, TypeOK
<1>5. OneWriter'
  BY <1>e, SMTT(30) DEF BeginFails, Inv, OneWriter, Tied, TypeOK
<1>6. Stored'
  BY <1>e, SMTT(30) DEF BeginFails, Inv, Stored, TypeOK
<1>7. Found'
  BY <1>e, SMTT(30) DEF Awaited, BeginFails, Found, Inv, Paths, TypeOK
<1>8. Snapshots'
  BY <1>e, SMTT(30) DEF BeginFails, Inside, Inv, Paths, Snapshots, Tied, TypeOK
<1>9. Drafts'
  <2>1. UNCHANGED at /\ \A d \in Calls : Drafting(d)' => d # c /\ Drafting(d) /\ tx'[at[d]].rows = tx[at[d]].rows
    BY <1>e, NoTxType, InTransaction DEF BeginFails, Drafting, Inv, TypeOK, Inside
  <2> QED
    BY <1>e, <2>1, DraftsOfOthers DEF BeginFails, Inv, TypeOK
<1> QED
  BY <1>1, <1>2, <1>3, <1>4, <1>5, <1>6, <1>7, <1>8, <1>9 DEF Inv

LEMMA BeginReadInv ==
    ASSUME Inv, NEW c \in Calls, BeginRead(c) PROVE Inv'
<1>r. /\ tx' \in [Stores -> Transactions]
      /\ \A s \in Stores \ {at[c]} : tx'[s] = tx[s]
      /\ tx'[at[c]].owner = c /\ ~tx'[at[c]].writing /\ ~tx'[at[c]].fixed
      /\ tx[at[c]].owner = None
  BY NoTxType DEF BeginRead, Inv, TypeOK, Transactions
<1>1. TypeOK'
  BY <1>r, SMTT(30) DEF BeginRead, Inv, Outcomes, TypeOK
<1>2. Paths'
  BY <1>r, SMTT(30) DEF BeginRead, Inv, Paths, TypeOK
<1>3. Tied'
  BY <1>r, SMTT(30) DEF BeginRead, InThread, Inside, Inv, Over, Paths, Tied, TypeOK
<1>4. Connected'
  BY <1>r, SMTT(30) DEF BeginRead, Connected, Inside, Inv, Over, Paths, Tied, TypeOK
<1>5. OneWriter'
  BY <1>r, SMTT(30) DEF BeginRead, Inv, OneWriter, Tied, TypeOK
<1>6. Stored'
  BY <1>r, SMTT(30) DEF BeginRead, Inv, Stored, TypeOK
<1>7. Found'
  BY <1>r, SMTT(30) DEF Awaited, BeginRead, Found, Inv, Paths, TypeOK
<1>8. Snapshots'
  BY <1>r, SMTT(30) DEF BeginRead, Inside, Inv, Paths, Snapshots, Tied, TypeOK
<1>9. Drafts'
  <2>1. UNCHANGED at /\ \A d \in Calls : Drafting(d)' => d # c /\ Drafting(d) /\ tx'[at[d]].rows = tx[at[d]].rows
    BY <1>r, NoTxType DEF BeginRead, Drafting, Inv, TypeOK, Tied, Paths, Inside, Transactions
  <2> QED
    BY <1>r, <2>1, DraftsOfOthers DEF BeginRead, Inv, TypeOK
<1> QED
  BY <1>1, <1>2, <1>3, <1>4, <1>5, <1>6, <1>7, <1>8, <1>9 DEF Inv

LEMMA BeginWriteInv ==
    ASSUME Inv, NEW c \in Calls, BeginWrite(c) PROVE Inv'
<1>r. /\ tx' \in [Stores -> Transactions]
      /\ \A s \in Stores \ {at[c]} : tx'[s] = tx[s] /\ ~tx[s].writing
      /\ tx'[at[c]].owner = c /\ tx'[at[c]].writing /\ tx'[at[c]].fixed /\ tx'[at[c]].rows = db
      /\ tx[at[c]].owner = None
  BY NoTxType DEF BeginWrite, Inv, TypeOK, Transactions, Writing
<1>1. TypeOK'
  BY <1>r, SMTT(30) DEF BeginWrite, Inv, Outcomes, TypeOK, Writing
<1>2. Paths'
  BY <1>r, SMTT(30) DEF BeginWrite, Inv, Paths, TypeOK, Writing
<1>3. Tied'
  BY <1>r, SMTT(30) DEF BeginWrite, InThread, Inside, Inv, Over, Paths, Tied, TypeOK, Writing
<1>4. Connected'
  BY <1>r, SMTT(30) DEF BeginWrite, Connected, Inside, Inv, Over, Paths, Tied, TypeOK, Writing
<1>5. OneWriter'
  BY <1>r, SMTT(30) DEF BeginWrite, Inv, OneWriter, Tied, TypeOK, Writing
<1>6. Stored'
  BY <1>r, SMTT(30) DEF BeginWrite, Inv, Stored, TypeOK, Writing
<1>7. Found'
  BY <1>r, SMTT(30) DEF Awaited, BeginWrite, Found, Inv, Paths, TypeOK, Writing
<1>8. Snapshots'
  BY <1>r, SMTT(30) DEF BeginWrite, Inside, Inv, Paths, Snapshots, Tied, TypeOK, Writing
<1>9. Drafts'
  <2>1. /\ UNCHANGED <<at, db, call>> /\ pc'[c] = "check" /\ call[c].kind \notin {"read", "head"}
        /\ \A d \in Calls : at[d] \in Stores
    BY DEF BeginWrite, Inv, TypeOK
  <2>2. ASSUME NEW d \in Calls, Drafting(d)'
        PROVE  d = c
    BY <1>r, <2>1, <2>2 DEF Drafting
  <2>3. Draft(c, Conn(c).rows)'
    BY <1>r, <2>1 DEF Draft
  <2> QED
    BY <2>1, <2>2, <2>3 DEF Drafts
<1> QED
  BY <1>1, <1>2, <1>3, <1>4, <1>5, <1>6, <1>7, <1>8, <1>9 DEF Inv

LEMMA StatementFailsInv ==
    ASSUME Inv, NEW c \in Calls, StatementFails(c) PROVE Inv'
<1>r. /\ tx' \in [Stores -> Transactions]
      /\ \A s \in Stores : tx'[s] = IF tx[s].owner = c THEN NoTx ELSE tx[s]
  BY Raised DEF StatementFails
<1>e. /\ pc' = [pc EXCEPT ![c] = IF Awaited(c) THEN "failed" ELSE "failed"]
      /\ lock' \in [Stores -> Calls \cup {None}]
      /\ \A s \in Stores : lock'[s] = IF lock[s] = c THEN None ELSE lock[s]
      /\ pc' \in [Calls -> Points]
  BY Ended DEF Points, StatementFails
<1>1. TypeOK'
  BY <1>r, <1>e, NoTxType, SMTT(30) DEF Inv, Outcomes, StatementFails, TypeOK
<1>2. Paths'
  BY <1>r, <1>e, NoTxType, SMTT(30) DEF Inv, Paths, StatementFails, TypeOK
<1>3. Tied'
  BY <1>r, <1>e, NoTxType, SMTT(30) DEF InThread, Inside, Inv, Over, Paths, StatementFails, Tied,
     TypeOK
<1>4. Connected'
  BY <1>r, <1>e, NoTxType, SMTT(30) DEF Connected, Inside, Inv, Over, Paths, StatementFails, Tied,
     TypeOK
<1>5. OneWriter'
  BY <1>r, <1>e, OthersKept DEF StatementFails, Inv, TypeOK
<1>6. Stored'
  BY <1>r, <1>e, NoTxType, SMTT(30) DEF Inv, StatementFails, Stored, TypeOK
<1>7. Found'
  BY <1>r, <1>e, NoTxType, SMTT(30) DEF Awaited, Found, Inv, Paths, StatementFails, TypeOK
<1>8. Snapshots'
  BY <1>r, <1>e, OthersKept DEF StatementFails, Inv, TypeOK
<1>9. Drafts'
  <2>1. UNCHANGED at /\ \A d \in Calls : Drafting(d)' => d # c /\ Drafting(d) /\ tx'[at[d]].rows = tx[at[d]].rows
    BY <1>r, <1>e, OthersKept DEF StatementFails, Inv, TypeOK
  <2> QED
    BY <1>r, <1>e, <2>1, DraftsOfOthers DEF StatementFails, Inv, TypeOK
<1> QED
  BY <1>1, <1>2, <1>3, <1>4, <1>5, <1>6, <1>7, <1>8, <1>9 DEF Inv

LEMMA SelectEntryInv ==
    ASSUME Inv, NEW c \in Calls, SelectEntry(c) PROVE Inv'
<1> DEFINE row == Rows(at[c])
<1>a. row \in Row /\ at[c] \in Stores /\ Entry(row) \in Entries
  BY RowsType DEF Inv, TypeOK, Entry, Entries, Row
<1>u. UNCHANGED <<now, db, used, call, since, at, writes, status, until, data>>
  BY DEF SelectEntry
<1>k. /\ \/ pc[c] = "select" /\ call[c].kind = "read" /\ Conn(c).owner = c /\ ~Conn(c).writing
         \/ pc[c] = "start" /\ call[c].kind = "head" /\ Conn(c).owner # c
            /\ (Conn(c) = NoTx \/ "joined" \in Features)
      /\ status[at[c]] = "up" /\ InThread(c)
  <2>1. pc[c] = "select" => call[c].kind = "read" /\ Conn(c).owner = c /\ ~Conn(c).writing
    BY Owns DEF SelectEntry, Inv, Paths, Inside
  <2>2. pc[c] = "start" => call[c].kind = "head" /\ Conn(c).owner # c
                           /\ (Conn(c) = NoTx \/ "joined" \in Features)
    BY InTransaction DEF SelectEntry, Inside
  <2>3. status[at[c]] = "up" /\ InThread(c)
    BY DEF SelectEntry, Inv, TypeOK, Connected, Over, InThread
  <2> QED
    BY <2>1, <2>2, <2>3 DEF SelectEntry
<1>t. tx' = IF Conn(c) = NoTx THEN tx ELSE [tx EXCEPT ![at[c]].rows = row, ![at[c]].fixed = TRUE]
  BY DEF SelectEntry
<1>r. /\ tx' \in [Stores -> Transactions]
      /\ \A s \in Stores \ {at[c]} : tx'[s] = tx[s]
      /\ tx'[at[c]].owner = Conn(c).owner /\ tx'[at[c]].writing = Conn(c).writing
      /\ Conn(c) = NoTx => tx'[at[c]] = NoTx
      /\ Conn(c) # NoTx => tx'[at[c]].fixed /\ tx'[at[c]].rows = row
      /\ Conn(c) # NoTx /\ Conn(c).fixed => row = Conn(c).rows
      /\ Conn(c) # NoTx /\ ~Conn(c).fixed => row = db
  <2>1. CASE Conn(c) = NoTx
    BY <2>1, <1>t, <1>a DEF Inv, TypeOK, NoTx
  <2>2. CASE Conn(c) # NoTx
    <3>1. tx' = [tx EXCEPT ![at[c]] = [@ EXCEPT !.rows = row, !.fixed = TRUE]]
      BY <2>2, <1>t
    <3>2. tx \in [Stores -> Transactions] /\ Conn(c) \in Transactions
      BY <1>a DEF Inv, TypeOK
    <3> DEFINE t == [Conn(c) EXCEPT !.rows = row, !.fixed = TRUE]
    <3>4. /\ t \in Transactions
          /\ t.owner = Conn(c).owner /\ t.writing = Conn(c).writing /\ t.fixed = TRUE /\ t.rows = row
      BY <3>2, <1>a DEF Transactions
    <3>5. tx' \in [Stores -> Transactions] /\ \A s \in Stores \ {at[c]} : tx'[s] = tx[s]
      BY <3>1, <3>2, <3>4
    <3>7. tx'[at[c]] = t
      BY <3>1, <3>2, <1>a
    <3> HIDE DEF t
    <3>6. row = IF Conn(c).fixed THEN Conn(c).rows ELSE db
      BY DEF Rows
    <3> HIDE DEF t
    <3> QED
      BY <2>2, <3>4, <3>5, <3>6, <3>7
  <2> QED
    BY <2>1, <2>2
<1>s. \/ /\ row.token # 0 /\ seen' = [seen EXCEPT ![c] = Entry(row)]
         /\ pc' = [pc EXCEPT ![c] = "clock"] /\ UNCHANGED <<outcome, lock>>
      \/ /\ row.token = 0 /\ call[c].kind = "head" /\ UNCHANGED seen
         /\ pc' = [pc EXCEPT ![c] = IF Awaited(c) THEN "done" ELSE "failed"]
         /\ lock' \in [Stores -> Calls \cup {None}]
         /\ \A s \in Stores : lock'[s] = IF lock[s] = c THEN None ELSE lock[s]
         /\ outcome' \in [Calls -> Outcomes] /\ \A d \in Calls \ {c} : outcome'[d] = outcome[d]
      \/ /\ row.token = 0 /\ call[c].kind = "read" /\ UNCHANGED <<seen, lock>>
         /\ pc' = [pc EXCEPT ![c] = "end"]
         /\ outcome' \in [Calls -> Outcomes] /\ \A d \in Calls \ {c} : outcome'[d] = outcome[d]
         /\ outcome'[c] = IF Awaited(c) THEN "missing" ELSE outcome[c]
  <2>1. CASE row.token # 0
    BY <2>1 DEF SelectEntry
  <2>2. CASE row.token = 0 /\ call[c].kind = "head"
    <3>1. Answer(c, "missing") /\ End(c, "done") /\ UNCHANGED seen
      BY <2>2 DEF SelectEntry
    <3> QED
      BY <3>1, <2>2, Ended, Answered DEF Points, Outcomes
  <2>3. CASE row.token = 0 /\ call[c].kind = "read"
    <3>1. Answer(c, "missing") /\ pc' = [pc EXCEPT ![c] = "end"] /\ UNCHANGED <<seen, lock>>
      BY <2>3 DEF SelectEntry
    <3> QED
      BY <3>1, <2>3, Answered DEF Outcomes
  <2> QED
    BY <2>1, <2>2, <2>3, <1>k
<1>p. /\ pc' \in [Calls -> Points] /\ \A d \in Calls \ {c} : pc'[d] = pc[d]
      /\ lock' \in [Stores -> Calls \cup {None}]
      /\ \A s \in Stores : lock'[s] # lock[s] => lock[s] = c /\ lock'[s] = None
      /\ outcome' \in [Calls -> Outcomes] /\ \A d \in Calls \ {c} : outcome'[d] = outcome[d]
      /\ seen' \in [Calls -> Entries] /\ \A d \in Calls \ {c} : seen'[d] = seen[d]
      /\ pc'[c] \in {"done", "failed"} \/ (UNCHANGED lock /\ pc'[c] = "clock")
         \/ (UNCHANGED lock /\ pc'[c] = "end" /\ call[c].kind = "read")
      /\ pc'[c] \in {"done", "failed"} => call[c].kind = "head" /\ \A s \in Stores : lock'[s] # c
  <2>1. /\ pc \in [Calls -> Points] /\ seen \in [Calls -> Entries] /\ outcome \in [Calls -> Outcomes]
        /\ lock \in [Stores -> Calls \cup {None}]
    BY DEF Inv, TypeOK, Points, Outcomes
  <2>2. CASE row.token # 0
    BY <1>s, <1>a, <2>1, <2>2 DEF Points
  <2>3. CASE row.token = 0 /\ call[c].kind = "head"
    BY <1>s, <1>a, <2>1, <2>3 DEF Points
  <2>4. CASE row.token = 0 /\ call[c].kind = "read"
    BY <1>s, <1>a, <2>1, <2>4 DEF Points
  <2> QED
    BY <1>s, <2>2, <2>3, <2>4
<1> HIDE DEF row
<1>1. TypeOK'
  <2>1. TypeOK
    BY DEF Inv
  <2> QED
    BY <1>u, <1>r, <1>p, <2>1, SMTT(20) DEF TypeOK, Points, Outcomes
<1>2. Paths'
  BY <1>u, <1>p, <1>k, SMTT(30) DEF Inv, Paths
<1>3. Tied'
  <2> SUFFICES ASSUME NEW s \in Stores
               PROVE  /\ (tx[s].owner = None => tx[s] = NoTx)'
                      /\ tx'[s].owner # None =>
                           /\ at[tx'[s].owner] = s /\ pc'[tx'[s].owner] \in Inside
                           /\ call[tx'[s].owner].kind # "head"
                           /\ tx'[s].writing <=> call[tx'[s].owner].kind # "read"
                      /\ tx'[s].writing => tx'[s].fixed
                      /\ lock'[s] # None => at[lock'[s]] = s /\ InThread(lock[s])'
    BY <1>u DEF Tied
  <2>1. tx'[s].owner = tx[s].owner /\ tx'[s].writing = tx[s].writing /\ (tx[s].owner = None => tx'[s] = NoTx)
        /\ (tx[s].fixed => tx'[s].fixed) /\ tx[s].owner \in Calls \cup {None}
    <3>1. (tx[s].owner = None => tx[s] = NoTx) /\ NoTx.owner = None /\ ~NoTx.fixed /\ tx[s] \in Transactions
      BY NoTxType DEF Inv, Tied, TypeOK
    <3>2. tx[s].owner \in Calls \cup {None}
      BY <3>1 DEF Transactions
    <3>3. CASE s # at[c]
      BY <3>1, <3>2, <3>3, <1>r
    <3>4. CASE s = at[c]
      BY <3>1, <3>2, <3>4, <1>r
    <3> QED
      BY <3>3, <3>4
  <2>2. tx[s].owner # None => tx[s].owner \in Calls /\ pc'[tx[s].owner] \in Inside
    BY <1>p, <1>k, <2>1, InTransaction DEF Inv, Tied, Inside
  <2>3. lock'[s] # None => lock'[s] = lock[s] /\ InThread(lock[s])'
    BY <1>p, <1>u DEF Inv, Tied, TypeOK, InThread, Over
  <2> QED
    BY <2>1, <2>2, <2>3 DEF Inv, Tied
<1>4. Connected'
  BY <1>u, <1>p, <1>k, <1>r, SMTT(30) DEF Inv, TypeOK, Connected, Inside, Over
<1>5. OneWriter'
  BY <1>r, <1>u DEF Inv, OneWriter, TypeOK
<1>6. Stored'
  BY <1>u DEF Inv, Stored
<1>7. Found'
  BY <1>u, <1>s, <1>a, <1>p, <1>k, SMTT(30) DEF Inv, TypeOK, Found, Awaited, Entry, Outcomes
<1>8. Snapshots'
  <2>1. row.body = row.token \/ Conn(c).writing \/ Conn(c) = NoTx
    <3>1. CASE Conn(c) # NoTx /\ Conn(c).fixed /\ ~Conn(c).writing
      <4> DEFINE d == Conn(c).owner
      <4>1. d \in Calls /\ Conn(d) = Conn(c)
        BY <3>1, <1>a DEF Inv, TypeOK, Tied, Transactions
      <4> QED
        BY <3>1, <4>1, <1>r DEF Inv, Snapshots
    <3> QED
      BY <3>1, <1>r DEF Inv, Stored
  <2> QED
    BY <1>u, <1>s, <1>p, <1>k, <1>r, <2>1, SMTT(30) DEF Inv, TypeOK, Snapshots, Entry, NoTx
<1>9. Drafts'
  <2>1. \A d \in Calls : Drafting(d)' => d # c /\ Drafting(d) /\ tx'[at[d]].rows = tx[at[d]].rows
    BY <1>r, <1>k, <1>u DEF Drafting, Inv, TypeOK, Tied, NoTx
  <2> QED
    BY <1>u, <1>p, <2>1, DraftsOfOthers
<1> QED
  BY <1>1, <1>2, <1>3, <1>4, <1>5, <1>6, <1>7, <1>8, <1>9 DEF Inv

LEMMA ClockInv ==
    ASSUME Inv, NEW c \in Calls, Clock(c) PROVE Inv'
<1>u. UNCHANGED <<now, db, used, call, since, at, writes, status, until, data, seen, tx>>
  BY DEF Clock
<1>k. pc[c] = "clock" /\ call[c].kind \in {"read", "head"} /\ seen[c].token # 0
  BY DEF Clock, Inv, Paths, Found
<1>o. PICK o \in {"ok", "missing"} :
        /\ (o = "ok") <=> Store!Live(seen[c], now)
        /\ outcome' \in [Calls -> Outcomes]
        /\ \A d \in Calls \ {c} : outcome'[d] = outcome[d]
        /\ outcome'[c] = IF Awaited(c) THEN o ELSE outcome[c]
  <2>1. PICK o \in {"ok", "missing"} : Answer(c, o) /\ ((o = "ok") <=> Store!Live(seen[c], now))
    BY DEF Clock
  <2> QED
    BY <2>1, Answered DEF Outcomes
<1>p. \/ /\ call[c].kind = "head"
         /\ pc' = [pc EXCEPT ![c] = IF Awaited(c) THEN "done" ELSE "failed"] /\ pc' \in [Calls -> Points]
         /\ lock' \in [Stores -> Calls \cup {None}]
         /\ \A s \in Stores : lock'[s] = IF lock[s] = c THEN None ELSE lock[s]
      \/ /\ call[c].kind = "read" /\ UNCHANGED lock
         /\ pc' = [pc EXCEPT ![c] = IF o = "ok" THEN "body" ELSE "end"]
  <2>1. CASE call[c].kind = "head"
    <3>1. End(c, "done")
      BY <2>1 DEF Clock
    <3> QED
      BY <3>1, <2>1, Ended DEF Points
  <2>2. CASE call[c].kind = "read"
    BY <2>2, <1>o DEF Clock
  <2> QED
    BY <2>1, <2>2, <1>k
<1>q. /\ pc' \in [Calls -> Points] /\ \A d \in Calls \ {c} : pc'[d] = pc[d]
      /\ lock' \in [Stores -> Calls \cup {None}]
      /\ \A s \in Stores : lock'[s] # lock[s] => lock[s] = c /\ lock'[s] = None
      /\ \/ pc'[c] \in {"done", "failed"} /\ call[c].kind = "head" /\ \A s \in Stores : lock'[s] # c
         \/ pc'[c] = (IF o = "ok" THEN "body" ELSE "end") /\ call[c].kind = "read" /\ UNCHANGED lock
  <2>1. pc \in [Calls -> Points] /\ lock \in [Stores -> Calls \cup {None}] /\ c # None
    BY DEF Inv, TypeOK, Points
  <2>2. CASE call[c].kind = "head"
    BY <1>p, <2>1, <2>2
  <2>3. CASE call[c].kind = "read"
    BY <1>p, <2>1, <2>3 DEF Points
  <2> QED
    BY <2>2, <2>3, <1>k
<1>1. TypeOK'
  <2>1. TypeOK
    BY DEF Inv
  <2> QED
    BY <1>u, <1>o, <1>q, <2>1, SMTT(20) DEF TypeOK, Points, Outcomes
<1>2. Paths'
  BY <1>u, <1>q, <1>k, SMTT(30) DEF Inv, Paths
<1>3. Tied'
  <2>1. \A s \in Stores : tx[s].owner # None => pc'[tx[s].owner] \in Inside
    BY <1>q, <1>k, InTransaction DEF Inv, Tied, TypeOK, Transactions, Inside
  <2>2. \A s \in Stores : lock'[s] # None => lock'[s] = lock[s] /\ InThread(lock[s])'
    BY <1>q, <1>u DEF Inv, Tied, TypeOK, InThread, Over
  <2> QED
    BY <1>u, <2>1, <2>2 DEF Inv, Tied
<1>4. Connected'
  BY <1>u, <1>q, <1>k, SMTT(30) DEF Inv, TypeOK, Connected, Inside, Over
<1>5. OneWriter'
  BY <1>u DEF Inv, OneWriter
<1>6. Stored'
  BY <1>u DEF Inv, Stored
<1>7. Found'
  BY <1>u, <1>o, <1>q, <1>k, SMTT(30) DEF Inv, TypeOK, Found, Awaited, Outcomes
<1>8. Snapshots'
  BY <1>u, <1>q, <1>k, SMTT(30) DEF Inv, Snapshots
<1>9. Drafts'
  <2>1. \A d \in Calls : Drafting(d)' => d # c /\ Drafting(d) /\ tx'[at[d]].rows = tx[at[d]].rows
    BY <1>k, <1>u, InTransaction DEF Drafting
  <2> QED
    BY <1>u, <1>q, <2>1, DraftsOfOthers
<1> QED
  BY <1>1, <1>2, <1>3, <1>4, <1>5, <1>6, <1>7, <1>8, <1>9 DEF Inv

LEMMA SelectBodyInv ==
    ASSUME Inv, NEW c \in Calls, SelectBody(c) PROVE Inv'
<1>a. Conn(c).owner = c /\ ~Conn(c).writing
  BY Owns DEF SelectBody, Inside, Inv
<1>b. Rows(at[c]) \in Row /\ Rows(at[c]).body \in Nat
  BY RowsType DEF Inv, TypeOK, Row
<1>c. Rows(at[c]).body = seen[c].token
  BY <1>a DEF SelectBody, Inv, TypeOK, Snapshots, Rows
<1>1. TypeOK'
  BY <1>b, SMTT(30) DEF Inv, Outcomes, SelectBody, TypeOK
<1>2. Paths'
  BY <1>b, SMTT(30) DEF Inv, Paths, SelectBody, TypeOK
<1>3. Tied'
  BY <1>b, SMTT(30) DEF InThread, Inside, Inv, Over, Paths, SelectBody, Tied, TypeOK
<1>4. Connected'
  BY <1>b, SMTT(30) DEF Connected, Inside, Inv, Over, Paths, SelectBody, Tied, TypeOK
<1>5. OneWriter'
  BY <1>b, SMTT(30) DEF Inv, OneWriter, SelectBody, Tied, TypeOK
<1>6. Stored'
  BY <1>b, SMTT(30) DEF Inv, SelectBody, Stored, TypeOK
<1>7. Found'
  BY <1>b, <1>a, <1>c, SMTT(30) DEF Awaited, Found, Inv, Paths, SelectBody, TypeOK
<1>8. Snapshots'
  BY <1>b, SMTT(30) DEF Inside, Inv, Paths, SelectBody, Snapshots, Tied, TypeOK
<1>9. Drafts'
  <2>1. UNCHANGED at /\ \A d \in Calls : Drafting(d)' => d # c /\ Drafting(d) /\ tx'[at[d]].rows = tx[at[d]].rows
    BY NoTxType DEF SelectBody, Drafting, Inv, TypeOK, Tied, Paths, Inside, Transactions
  <2> QED
    BY <2>1, DraftsOfOthers DEF SelectBody, Inv, TypeOK
<1> QED
  BY <1>1, <1>2, <1>3, <1>4, <1>5, <1>6, <1>7, <1>8, <1>9 DEF Inv

LEMMA EndReadInv ==
    ASSUME Inv, NEW c \in Calls, EndRead(c) PROVE Inv'
<1>r. /\ tx' \in [Stores -> Transactions]
      /\ \A s \in Stores : tx'[s] = IF tx[s].owner = c THEN NoTx ELSE tx[s]
  BY Raised DEF EndRead
<1>e. /\ pc' = [pc EXCEPT ![c] = IF Awaited(c) THEN "done" ELSE "failed"]
      /\ lock' \in [Stores -> Calls \cup {None}]
      /\ \A s \in Stores : lock'[s] = IF lock[s] = c THEN None ELSE lock[s]
      /\ pc' \in [Calls -> Points]
  BY Ended DEF Points, EndRead
<1>1. TypeOK'
  BY <1>r, <1>e, NoTxType, SMTT(30) DEF EndRead, Inv, Outcomes, TypeOK
<1>2. Paths'
  BY <1>r, <1>e, NoTxType, SMTT(30) DEF EndRead, Inv, Paths, TypeOK
<1>3. Tied'
  BY <1>r, <1>e, NoTxType, SMTT(30) DEF EndRead, InThread, Inside, Inv, Over, Paths, Tied, TypeOK
<1>4. Connected'
  BY <1>r, <1>e, NoTxType, SMTT(30) DEF Connected, EndRead, Inside, Inv, Over, Paths, Tied, TypeOK
<1>5. OneWriter'
  BY <1>r, <1>e, OthersKept DEF EndRead, Inv, TypeOK
<1>6. Stored'
  BY <1>r, <1>e, NoTxType, SMTT(30) DEF EndRead, Inv, Stored, TypeOK
<1>7. Found'
  BY <1>r, <1>e, NoTxType, SMTT(30) DEF Awaited, EndRead, Found, Inv, Paths, TypeOK
<1>8. Snapshots'
  BY <1>r, <1>e, OthersKept DEF EndRead, Inv, TypeOK
<1>9. Drafts'
  <2>1. UNCHANGED at /\ \A d \in Calls : Drafting(d)' => d # c /\ Drafting(d) /\ tx'[at[d]].rows = tx[at[d]].rows
    BY <1>r, <1>e, OthersKept DEF EndRead, Inv, TypeOK
  <2> QED
    BY <1>r, <1>e, <2>1, DraftsOfOthers DEF EndRead, Inv, TypeOK
<1> QED
  BY <1>1, <1>2, <1>3, <1>4, <1>5, <1>6, <1>7, <1>8, <1>9 DEF Inv

LEMMA RefuseInv ==
    ASSUME Inv, NEW c \in Calls, Refuse(c) PROVE Inv'
<1>r. /\ tx' \in [Stores -> Transactions]
      /\ \A s \in Stores : tx'[s] = IF tx[s].owner = c THEN NoTx ELSE tx[s]
  BY Raised DEF Refuse
<1>e. /\ pc' = [pc EXCEPT ![c] = IF Awaited(c) THEN "done" ELSE "failed"]
      /\ lock' \in [Stores -> Calls \cup {None}]
      /\ \A s \in Stores : lock'[s] = IF lock[s] = c THEN None ELSE lock[s]
      /\ pc' \in [Calls -> Points]
  BY Ended DEF Points, Refuse
<1>o. PICK o \in {"stale", "missing"} :
             /\ outcome' \in [Calls -> Outcomes]
             /\ \A d \in Calls \ {c} : outcome'[d] = outcome[d]
             /\ outcome'[c] = IF Awaited(c) THEN o ELSE outcome[c]
  BY Answered DEF Refuse, Outcomes
<1>1. TypeOK'
  <2>1. UNCHANGED <<now, used, writes, db, call, since, seen, at, data, until, status>>
    BY DEF Refuse
  <2>2. TypeOK
    BY DEF Inv
  <2>3. /\ tx' \in [Stores -> Transactions] /\ pc' \in [Calls -> Points] /\ lock' \in [Stores -> Calls \cup {None}] /\ outcome' \in [Calls -> Outcomes]
    BY <1>o, <1>e, <1>r
  <2> QED
    BY <2>1, <2>2, <2>3, SMTT(20) DEF TypeOK, Points, Outcomes
<1>2. Paths'
  BY <1>r, <1>e, <1>o, NoTxType, SMTT(30) DEF Inv, Paths, Refuse, TypeOK
<1>3. Tied'
  BY <1>r, <1>e, <1>o, NoTxType, SMTT(30) DEF InThread, Inside, Inv, Over, Paths, Refuse, Tied,
     TypeOK
<1>4. Connected'
  BY <1>r, <1>e, <1>o, NoTxType, SMTT(30) DEF Connected, Inside, Inv, Over, Paths, Refuse, Tied,
     TypeOK
<1>5. OneWriter'
  BY <1>r, <1>e, OthersKept DEF Refuse, Inv, TypeOK
<1>6. Stored'
  BY <1>r, <1>e, <1>o, NoTxType, SMTT(30) DEF Inv, Refuse, Stored, TypeOK
<1>7. Found'
  BY <1>r, <1>e, <1>o, NoTxType, SMTT(30) DEF Awaited, Found, Inv, Paths, Refuse, TypeOK
<1>8. Snapshots'
  BY <1>r, <1>e, OthersKept DEF Refuse, Inv, TypeOK
<1>9. Drafts'
  <2>1. UNCHANGED at /\ \A d \in Calls : Drafting(d)' => d # c /\ Drafting(d) /\ tx'[at[d]].rows = tx[at[d]].rows
    BY <1>r, <1>e, OthersKept DEF Refuse, Inv, TypeOK
  <2> QED
    BY <1>r, <1>e, <2>1, DraftsOfOthers DEF Refuse, Inv, TypeOK
<1> QED
  BY <1>1, <1>2, <1>3, <1>4, <1>5, <1>6, <1>7, <1>8, <1>9 DEF Inv

LEMMA AllowInv ==
    ASSUME Inv, NEW c \in Calls, Allow(c) PROVE Inv'
<1>u. /\ UNCHANGED <<now, db, used, call, since, at, writes, status, until, data, seen, tx, outcome, lock>>
      /\ pc' = [pc EXCEPT ![c] = "entry"] /\ pc[c] = "check" /\ call[c].kind \in {"put", "touch"}
  BY DEF Allow
<1>q. pc' \in [Calls -> Points] /\ pc'[c] = "entry" /\ \A d \in Calls \ {c} : pc'[d] = pc[d]
  BY <1>u DEF Inv, TypeOK, Points
<1>a. Drafting(c)
  BY <1>u, Owns DEF Allow, Drafting, Inside
<1>1. TypeOK'
  <2>1. TypeOK
    BY DEF Inv
  <2> QED
    BY <1>u, <1>q, <2>1, SMTT(20) DEF TypeOK, Points, Outcomes
<1>2. Paths'
  BY <1>u, <1>q, SMTT(30) DEF Inv, Paths
<1>3. Tied'
  <2>1. ASSUME NEW s \in Stores, tx[s].owner # None
        PROVE  pc'[tx[s].owner] \in Inside
    <3>1. tx[s].owner \in Calls /\ pc[tx[s].owner] \in Inside
      BY <2>1 DEF Inv, Tied, TypeOK, Transactions
    <3> QED
      BY <1>q, <3>1 DEF Inside
  <2>2. \A s \in Stores : lock[s] # None => InThread(lock[s])'
    BY <1>q, <1>u DEF Inv, Tied, TypeOK, InThread, Over
  <2> QED
    BY <1>u, <2>1, <2>2 DEF Inv, Tied
<1>4. Connected'
  BY <1>u, <1>q, SMTT(30) DEF Inv, TypeOK, Connected, Inside, Over
<1>5. OneWriter'
  BY <1>u DEF Inv, OneWriter
<1>6. Stored'
  BY <1>u DEF Inv, Stored
<1>7. Found'
  BY <1>u, <1>q, SMTT(30) DEF Inv, TypeOK, Found, Awaited, Outcomes
<1>8. Snapshots'
  BY <1>u, <1>q, SMTT(30) DEF Inv, Snapshots
<1>9. Drafts'
  <2>1. Draft(c, Rows(at[c])) /\ Rows(at[c]) = Conn(c).rows /\ Rows(at[c]) = db
    BY <1>a, <1>u, OwnDraft DEF Draft
  <2>2. Draft(c, Conn(c).rows)'
    BY <1>q, <1>u, <2>1 DEF Draft
  <2>3. Granted(c)'
    <3>1. ~Refused(c) /\ (call[c].kind = "touch" => Live(db))
      BY <2>1 DEF Allow
    <3>2. now \in Nat /\ since[c] \in Nat /\ since[c] <= now /\ db.expires \in Nat /\ db.token \in Nat
          /\ (db.token = 0 => db.expires = 0)
      BY DEF Inv, TypeOK, Row, Stored
    <3>3. Live(db) <=> ~NotLive(db, now)
      BY <3>2 DEF Live, Store!Live, Entry, NotLive
    <3>4. Live(db) => WasLive(c)
      BY <3>2 DEF Live, Store!Live, Entry, WasLive
    <3>5. Held(db) = IF Live(db) THEN db.token ELSE 0
      BY DEF Held, Live, Store!Held, Store!Absent, Entry
    <3> QED
      BY <1>u, <2>1, <3>1, <3>3, <3>4, <3>5 DEF Granted, Refused, WasLive, NotLive
  <2>4. Drafting(c)' /\ OneWriter'
    BY <1>a, <1>u, <1>5 DEF Drafting
  <2> QED
    BY <1>u, <2>2, <2>3, <2>4, OnlyDraft
<1> QED
  BY <1>1, <1>2, <1>3, <1>4, <1>5, <1>6, <1>7, <1>8, <1>9 DEF Inv

LEMMA PutEntryInv ==
    ASSUME Inv, NEW c \in Calls, PutEntry(c) PROVE Inv'
<1> DEFINE rows == [Rows(at[c]) EXCEPT !.token = writes', !.expires = Expiry(c)]
<1>a. Conn(c).owner = c /\ Conn(c).writing
  BY Owns DEF PutEntry, Inside, Inv, Paths, TypeOK
<1>d. /\ Rows(at[c]) = Conn(c).rows /\ Draft(c, Rows(at[c]))
      /\ pc[c] \in {"entry", "body", "commit"} => Granted(c)
  BY <1>a, OwnDraft DEF Drafting
<1>b. Rows(at[c]) \in Row /\ now \in Nat /\ call[c].ttl \in Nat /\ writes \in Nat /\ Expiry(c) \in Nat
  BY RowsType DEF Inv, TypeOK, Expiry
<1>g. rows \in Row
  <2>1. writes' \in Nat
    BY <1>b DEF PutEntry
  <2> QED
    BY <1>b, <2>1 DEF Row
<1>c. Change(c, rows, "body")
  BY DEF PutEntry
<1> HIDE DEF rows
<1>r. /\ tx' \in [Stores -> Transactions]
      /\ \A s \in Stores \ {at[c]} : tx'[s] = tx[s]
      /\ tx'[at[c]].owner = c /\ tx'[at[c]].writing = Conn(c).writing
      /\ tx'[at[c]].fixed = Conn(c).fixed /\ tx'[at[c]].rows = rows
  BY <1>a, <1>g, <1>c, Changes
<1>1. TypeOK'
  BY <1>a, <1>r, SMTT(30) DEF Change, Inv, Outcomes, PutEntry, TypeOK
<1>2. Paths'
  BY <1>a, <1>r, SMTT(30) DEF Change, Inv, Paths, PutEntry, TypeOK
<1>3. Tied'
  BY <1>a, <1>r, SMTT(30) DEF Change, InThread, Inside, Inv, Over, Paths, PutEntry, Tied, TypeOK
<1>4. Connected'
  BY <1>a, <1>r, SMTT(30) DEF Change, Connected, Inside, Inv, Over, Paths, PutEntry, Tied, TypeOK
<1>5. OneWriter'
  BY <1>a, <1>r, SMTT(30) DEF Change, Inv, OneWriter, PutEntry, Tied, TypeOK
<1>6. Stored'
  BY <1>a, <1>r, SMTT(30) DEF Change, Inv, PutEntry, Stored, TypeOK
<1>7. Found'
  BY <1>a, <1>r, SMTT(30) DEF Awaited, Change, Found, Inv, Paths, PutEntry, TypeOK
<1>8. Snapshots'
  BY <1>a, <1>r, SMTT(30) DEF Change, Inside, Inv, Paths, PutEntry, Snapshots, Tied, TypeOK
<1>9. Drafts'
  <2>0. UNCHANGED at /\ Drafting(c)'
    BY <1>a, <1>r DEF PutEntry, Change, Drafting
  <2>1. Draft(c, Conn(c).rows)'
    BY <2>0, <1>a, <1>b, <1>d, <1>r DEF PutEntry, Change, rows, Draft, Inv, TypeOK, Row, Stored,
       InTime, Expiry
  <2>2. (pc[c] \in {"entry", "body", "commit"} => Granted(c))'
    BY <1>a, <1>b, <1>d, <1>r DEF PutEntry, Change, Inv, TypeOK, Granted, WasLive, NotLive
  <2> QED
    BY <1>5, <2>0, <2>1, <2>2, OnlyDraft
<1> QED
  BY <1>1, <1>2, <1>3, <1>4, <1>5, <1>6, <1>7, <1>8, <1>9 DEF Inv

LEMMA PutBodyInv ==
    ASSUME Inv, NEW c \in Calls, PutBody(c) PROVE Inv'
<1> DEFINE rows == [Rows(at[c]) EXCEPT !.body = Rows(at[c]).token]
<1>a. Conn(c).owner = c /\ Conn(c).writing
  BY Owns DEF PutBody, Inside, Inv, Paths, TypeOK
<1>d. /\ Rows(at[c]) = Conn(c).rows /\ Draft(c, Rows(at[c]))
      /\ pc[c] \in {"entry", "body", "commit"} => Granted(c)
  BY <1>a, OwnDraft DEF Drafting
<1>b. Rows(at[c]) \in Row /\ now \in Nat /\ call[c].ttl \in Nat /\ writes \in Nat /\ Expiry(c) \in Nat
  BY RowsType DEF Inv, TypeOK, Expiry
<1>g. rows \in Row
  BY <1>b DEF Row
<1>c. Change(c, rows, "commit")
  BY DEF PutBody
<1> HIDE DEF rows
<1>r. /\ tx' \in [Stores -> Transactions]
      /\ \A s \in Stores \ {at[c]} : tx'[s] = tx[s]
      /\ tx'[at[c]].owner = c /\ tx'[at[c]].writing = Conn(c).writing
      /\ tx'[at[c]].fixed = Conn(c).fixed /\ tx'[at[c]].rows = rows
  BY <1>a, <1>g, <1>c, Changes
<1>1. TypeOK'
  BY <1>a, <1>r, SMTT(30) DEF Change, Inv, Outcomes, PutBody, TypeOK
<1>2. Paths'
  BY <1>a, <1>r, SMTT(30) DEF Change, Inv, Paths, PutBody, TypeOK
<1>3. Tied'
  BY <1>a, <1>r, SMTT(30) DEF Change, InThread, Inside, Inv, Over, Paths, PutBody, Tied, TypeOK
<1>4. Connected'
  BY <1>a, <1>r, SMTT(30) DEF Change, Connected, Inside, Inv, Over, Paths, PutBody, Tied, TypeOK
<1>5. OneWriter'
  BY <1>a, <1>r, SMTT(30) DEF Change, Inv, OneWriter, PutBody, Tied, TypeOK
<1>6. Stored'
  BY <1>a, <1>r, SMTT(30) DEF Change, Inv, PutBody, Stored, TypeOK
<1>7. Found'
  BY <1>a, <1>r, SMTT(30) DEF Awaited, Change, Found, Inv, Paths, PutBody, TypeOK
<1>8. Snapshots'
  BY <1>a, <1>r, SMTT(30) DEF Change, Inside, Inv, Paths, PutBody, Snapshots, Tied, TypeOK
<1>9. Drafts'
  <2>0. UNCHANGED at /\ Drafting(c)'
    BY <1>a, <1>r DEF PutBody, Change, Drafting
  <2>1. Draft(c, Conn(c).rows)'
    BY <2>0, <1>a, <1>b, <1>d, <1>r DEF PutBody, Change, rows, Draft, Inv, TypeOK, Row, InTime,
       Paths
  <2>2. (pc[c] \in {"entry", "body", "commit"} => Granted(c))'
    BY <1>a, <1>b, <1>d, <1>r DEF PutBody, Change, Inv, TypeOK, Granted, WasLive, NotLive
  <2> QED
    BY <1>5, <2>0, <2>1, <2>2, OnlyDraft
<1> QED
  BY <1>1, <1>2, <1>3, <1>4, <1>5, <1>6, <1>7, <1>8, <1>9 DEF Inv

LEMMA TouchInv ==
    ASSUME Inv, NEW c \in Calls, Touch(c) PROVE Inv'
<1> DEFINE rows == [Rows(at[c]) EXCEPT !.expires = Expiry(c)]
<1>a. Conn(c).owner = c /\ Conn(c).writing
  BY Owns DEF Touch, Inside, Inv, Paths, TypeOK
<1>d. /\ Rows(at[c]) = Conn(c).rows /\ Draft(c, Rows(at[c]))
      /\ pc[c] \in {"entry", "body", "commit"} => Granted(c)
  BY <1>a, OwnDraft DEF Drafting
<1>b. Rows(at[c]) \in Row /\ now \in Nat /\ call[c].ttl \in Nat /\ writes \in Nat /\ Expiry(c) \in Nat
  BY RowsType DEF Inv, TypeOK, Expiry
<1>g. rows \in Row
  BY <1>b DEF Row
<1>c. Change(c, rows, "commit")
  BY DEF Touch
<1> HIDE DEF rows
<1>r. /\ tx' \in [Stores -> Transactions]
      /\ \A s \in Stores \ {at[c]} : tx'[s] = tx[s]
      /\ tx'[at[c]].owner = c /\ tx'[at[c]].writing = Conn(c).writing
      /\ tx'[at[c]].fixed = Conn(c).fixed /\ tx'[at[c]].rows = rows
  BY <1>a, <1>g, <1>c, Changes
<1>1. TypeOK'
  BY <1>a, <1>r, SMTT(30) DEF Change, Inv, Outcomes, Touch, TypeOK
<1>2. Paths'
  BY <1>a, <1>r, SMTT(30) DEF Change, Inv, Paths, Touch, TypeOK
<1>3. Tied'
  BY <1>a, <1>r, SMTT(30) DEF Change, InThread, Inside, Inv, Over, Paths, Tied, Touch, TypeOK
<1>4. Connected'
  BY <1>a, <1>r, SMTT(30) DEF Change, Connected, Inside, Inv, Over, Paths, Tied, Touch, TypeOK
<1>5. OneWriter'
  BY <1>a, <1>r, SMTT(30) DEF Change, Inv, OneWriter, Tied, Touch, TypeOK
<1>6. Stored'
  BY <1>a, <1>r, SMTT(30) DEF Change, Inv, Stored, Touch, TypeOK
<1>7. Found'
  BY <1>a, <1>r, SMTT(30) DEF Awaited, Change, Found, Inv, Paths, Touch, TypeOK
<1>8. Snapshots'
  BY <1>a, <1>r, SMTT(30) DEF Change, Inside, Inv, Paths, Snapshots, Tied, Touch, TypeOK
<1>9. Drafts'
  <2>0. UNCHANGED at /\ Drafting(c)'
    BY <1>a, <1>r DEF Touch, Change, Drafting
  <2>1. Draft(c, Conn(c).rows)'
    BY <2>0, <1>a, <1>b, <1>d, <1>r DEF Touch, Change, rows, Draft, Inv, TypeOK, Row, InTime,
       Expiry, Stored
  <2>2. (pc[c] \in {"entry", "body", "commit"} => Granted(c))'
    BY <1>a, <1>b, <1>d, <1>r DEF Touch, Change, Inv, TypeOK, Granted, WasLive, NotLive
  <2> QED
    BY <1>5, <2>0, <2>1, <2>2, OnlyDraft
<1> QED
  BY <1>1, <1>2, <1>3, <1>4, <1>5, <1>6, <1>7, <1>8, <1>9 DEF Inv

LEMMA DeleteBodyInv ==
    ASSUME Inv, NEW c \in Calls, DeleteBody(c) PROVE Inv'
<1> DEFINE rows == [Rows(at[c]) EXCEPT !.body = 0]
<1>a. Conn(c).owner = c /\ Conn(c).writing
  BY Owns DEF DeleteBody, Inside, Inv, Paths, TypeOK
<1>d. /\ Rows(at[c]) = Conn(c).rows /\ Draft(c, Rows(at[c]))
      /\ pc[c] \in {"entry", "body", "commit"} => Granted(c)
  BY <1>a, OwnDraft DEF Drafting
<1>b. Rows(at[c]) \in Row /\ now \in Nat /\ call[c].ttl \in Nat /\ writes \in Nat /\ Expiry(c) \in Nat
  BY RowsType DEF Inv, TypeOK, Expiry
<1>g. rows \in Row
  BY <1>b DEF Row
<1>c. Change(c, rows, "body")
  BY DEF DeleteBody
<1> HIDE DEF rows
<1>r. /\ tx' \in [Stores -> Transactions]
      /\ \A s \in Stores \ {at[c]} : tx'[s] = tx[s]
      /\ tx'[at[c]].owner = c /\ tx'[at[c]].writing = Conn(c).writing
      /\ tx'[at[c]].fixed = Conn(c).fixed /\ tx'[at[c]].rows = rows
  BY <1>a, <1>g, <1>c, Changes
<1>h. until' \in [Calls -> Nat]
  BY <1>b DEF DeleteBody, Inv, TypeOK, Held, Store!Held, Store!Absent, Entry, Row
<1>1. TypeOK'
  BY <1>a, <1>r, <1>h, SMTT(30) DEF Change, DeleteBody, Inv, Outcomes, TypeOK
<1>2. Paths'
  BY <1>a, <1>r, <1>h, SMTT(30) DEF Change, DeleteBody, Inv, Paths, TypeOK
<1>3. Tied'
  BY <1>a, <1>r, <1>h, SMTT(30) DEF Change, DeleteBody, InThread, Inside, Inv, Over, Paths, Tied,
     TypeOK
<1>4. Connected'
  BY <1>a, <1>r, <1>h, SMTT(30) DEF Change, Connected, DeleteBody, Inside, Inv, Over, Paths, Tied,
     TypeOK
<1>5. OneWriter'
  BY <1>a, <1>r, <1>h, SMTT(30) DEF Change, DeleteBody, Inv, OneWriter, Tied, TypeOK
<1>6. Stored'
  BY <1>a, <1>r, <1>h, SMTT(30) DEF Change, DeleteBody, Inv, Stored, TypeOK
<1>7. Found'
  BY <1>a, <1>r, <1>h, SMTT(30) DEF Awaited, Change, DeleteBody, Found, Inv, Paths, TypeOK
<1>8. Snapshots'
  BY <1>a, <1>r, <1>h, SMTT(30) DEF Change, DeleteBody, Inside, Inv, Paths, Snapshots, Tied, TypeOK
<1>9. Drafts'
  <2>0. UNCHANGED at /\ Drafting(c)'
    BY <1>a, <1>r DEF DeleteBody, Change, Drafting
  <2>1. Draft(c, Conn(c).rows)'
    BY <2>0, <1>a, <1>b, <1>d, <1>r DEF DeleteBody, Change, rows, Draft, Inv, TypeOK, Row, Paths
  <2>2. (pc[c] \in {"entry", "body", "commit"} => Granted(c))'
    BY <1>a, <1>b, <1>d, <1>r DEF DeleteBody, Change, Inv, TypeOK, Granted, WasLive, NotLive,
       Draft, Stored, Row, Refused, Live, Held, Store!Held, Store!Live, Store!Absent, Entry
  <2> QED
    BY <1>5, <2>0, <2>1, <2>2, OnlyDraft
<1> QED
  BY <1>1, <1>2, <1>3, <1>4, <1>5, <1>6, <1>7, <1>8, <1>9 DEF Inv

LEMMA DeleteEntryInv ==
    ASSUME Inv, NEW c \in Calls, DeleteEntry(c) PROVE Inv'
<1> DEFINE rows == [Rows(at[c]) EXCEPT !.token = 0, !.expires = 0]
<1>a. Conn(c).owner = c /\ Conn(c).writing
  BY Owns DEF DeleteEntry, Inside, Inv, Paths, TypeOK
<1>d. /\ Rows(at[c]) = Conn(c).rows /\ Draft(c, Rows(at[c]))
      /\ pc[c] \in {"entry", "body", "commit"} => Granted(c)
  BY <1>a, OwnDraft DEF Drafting
<1>b. Rows(at[c]) \in Row /\ now \in Nat /\ call[c].ttl \in Nat /\ writes \in Nat /\ Expiry(c) \in Nat
  BY RowsType DEF Inv, TypeOK, Expiry
<1>g. rows \in Row
  BY <1>b DEF Row
<1>c. Change(c, rows, "commit")
  BY DEF DeleteEntry
<1> HIDE DEF rows
<1>r. /\ tx' \in [Stores -> Transactions]
      /\ \A s \in Stores \ {at[c]} : tx'[s] = tx[s]
      /\ tx'[at[c]].owner = c /\ tx'[at[c]].writing = Conn(c).writing
      /\ tx'[at[c]].fixed = Conn(c).fixed /\ tx'[at[c]].rows = rows
  BY <1>a, <1>g, <1>c, Changes
<1>1. TypeOK'
  BY <1>a, <1>r, SMTT(30) DEF Change, DeleteEntry, Inv, Outcomes, TypeOK
<1>2. Paths'
  BY <1>a, <1>r, SMTT(30) DEF Change, DeleteEntry, Inv, Paths, TypeOK
<1>3. Tied'
  BY <1>a, <1>r, SMTT(30) DEF Change, DeleteEntry, InThread, Inside, Inv, Over, Paths, Tied, TypeOK
<1>4. Connected'
  BY <1>a, <1>r, SMTT(30) DEF Change, Connected, DeleteEntry, Inside, Inv, Over, Paths, Tied, TypeOK
<1>5. OneWriter'
  BY <1>a, <1>r, SMTT(30) DEF Change, DeleteEntry, Inv, OneWriter, Tied, TypeOK
<1>6. Stored'
  BY <1>a, <1>r, SMTT(30) DEF Change, DeleteEntry, Inv, Stored, TypeOK
<1>7. Found'
  BY <1>a, <1>r, SMTT(30) DEF Awaited, Change, DeleteEntry, Found, Inv, Paths, TypeOK
<1>8. Snapshots'
  BY <1>a, <1>r, SMTT(30) DEF Change, DeleteEntry, Inside, Inv, Paths, Snapshots, Tied, TypeOK
<1>9. Drafts'
  <2>0. UNCHANGED at /\ Drafting(c)'
    BY <1>a, <1>r DEF DeleteEntry, Change, Drafting
  <2>1. Draft(c, Conn(c).rows)'
    BY <2>0, <1>a, <1>b, <1>d, <1>r DEF DeleteEntry, Change, rows, Draft, Inv, TypeOK, Row, Paths
  <2>2. (pc[c] \in {"entry", "body", "commit"} => Granted(c))'
    BY <1>a, <1>b, <1>d, <1>r DEF DeleteEntry, Change, Inv, TypeOK, Granted, WasLive, NotLive
  <2> QED
    BY <1>5, <2>0, <2>1, <2>2, OnlyDraft
<1> QED
  BY <1>1, <1>2, <1>3, <1>4, <1>5, <1>6, <1>7, <1>8, <1>9 DEF Inv

LEMMA PurgeBodiesInv ==
    ASSUME Inv, NEW c \in Calls, PurgeBodies(c) PROVE Inv'
<1> DEFINE rows == IF Expired(c) THEN [Rows(at[c]) EXCEPT !.body = 0] ELSE Rows(at[c])
<1>a. Conn(c).owner = c /\ Conn(c).writing
  BY Owns DEF PurgeBodies, Inside, Inv, Paths, TypeOK
<1>d. /\ Rows(at[c]) = Conn(c).rows /\ Draft(c, Rows(at[c]))
      /\ pc[c] \in {"entry", "body", "commit"} => Granted(c)
  BY <1>a, OwnDraft DEF Drafting
<1>b. Rows(at[c]) \in Row /\ now \in Nat /\ call[c].ttl \in Nat /\ writes \in Nat /\ Expiry(c) \in Nat
  BY RowsType DEF Inv, TypeOK, Expiry
<1>g. rows \in Row
  BY <1>b DEF Row
<1>c. Change(c, rows, "body")
  BY DEF PurgeBodies
<1> HIDE DEF rows
<1>r. /\ tx' \in [Stores -> Transactions]
      /\ \A s \in Stores \ {at[c]} : tx'[s] = tx[s]
      /\ tx'[at[c]].owner = c /\ tx'[at[c]].writing = Conn(c).writing
      /\ tx'[at[c]].fixed = Conn(c).fixed /\ tx'[at[c]].rows = rows
  BY <1>a, <1>g, <1>c, Changes
<1>1. TypeOK'
  BY <1>a, <1>r, SMTT(30) DEF Change, Inv, Outcomes, PurgeBodies, TypeOK
<1>2. Paths'
  BY <1>a, <1>r, SMTT(30) DEF Change, Inv, Paths, PurgeBodies, TypeOK
<1>3. Tied'
  BY <1>a, <1>r, SMTT(30) DEF Change, InThread, Inside, Inv, Over, Paths, PurgeBodies, Tied, TypeOK
<1>4. Connected'
  BY <1>a, <1>r, SMTT(30) DEF Change, Connected, Inside, Inv, Over, Paths, PurgeBodies, Tied, TypeOK
<1>5. OneWriter'
  BY <1>a, <1>r, SMTT(30) DEF Change, Inv, OneWriter, PurgeBodies, Tied, TypeOK
<1>6. Stored'
  BY <1>a, <1>r, SMTT(30) DEF Change, Inv, PurgeBodies, Stored, TypeOK
<1>7. Found'
  BY <1>a, <1>r, SMTT(30) DEF Awaited, Change, Found, Inv, Paths, PurgeBodies, TypeOK
<1>8. Snapshots'
  BY <1>a, <1>r, SMTT(30) DEF Change, Inside, Inv, Paths, PurgeBodies, Snapshots, Tied, TypeOK
<1>9. Drafts'
  <2>0. UNCHANGED at /\ Drafting(c)'
    BY <1>a, <1>r DEF PurgeBodies, Change, Drafting
  <2>1. Draft(c, Conn(c).rows)'
    <3>1. /\ pc[c] = "check" /\ pc'[c] = "body" /\ call[c].kind = "purge"
          /\ until'[c] = now /\ UNCHANGED <<now, db, call>>
      BY DEF PurgeBodies, Change, Inv, TypeOK
    <3>2. Rows(at[c]) = db
      BY <1>d, <3>1 DEF Draft
    <3>3. /\ rows.token = db.token /\ rows.expires = db.expires
          /\ rows.body = IF NotLive(rows, now) THEN 0 ELSE rows.token
      BY <1>b, <3>1, <3>2 DEF rows, Row, Expired, Store!Live, Entry, NotLive, Inv, Stored
    <3> QED
      BY <1>b, <1>r, <2>0, <3>1, <3>3 DEF Draft
  <2>2. (pc[c] \in {"entry", "body", "commit"} => Granted(c))'
    BY <1>a, <1>b, <1>d, <1>r DEF PurgeBodies, Change, Inv, TypeOK, Granted, WasLive, NotLive
  <2> QED
    BY <1>5, <2>0, <2>1, <2>2, OnlyDraft
<1> QED
  BY <1>1, <1>2, <1>3, <1>4, <1>5, <1>6, <1>7, <1>8, <1>9 DEF Inv

LEMMA PurgeEntriesInv ==
    ASSUME Inv, NEW c \in Calls, PurgeEntries(c) PROVE Inv'
<1> DEFINE rows == IF Expired(c) THEN [Rows(at[c]) EXCEPT !.token = 0, !.expires = 0] ELSE Rows(at[c])
<1>a. Conn(c).owner = c /\ Conn(c).writing
  BY Owns DEF PurgeEntries, Inside, Inv, Paths, TypeOK
<1>d. /\ Rows(at[c]) = Conn(c).rows /\ Draft(c, Rows(at[c]))
      /\ pc[c] \in {"entry", "body", "commit"} => Granted(c)
  BY <1>a, OwnDraft DEF Drafting
<1>b. Rows(at[c]) \in Row /\ now \in Nat /\ call[c].ttl \in Nat /\ writes \in Nat /\ Expiry(c) \in Nat
  BY RowsType DEF Inv, TypeOK, Expiry
<1>g. rows \in Row
  BY <1>b DEF Row
<1>c. Change(c, rows, "commit")
  BY DEF PurgeEntries
<1> HIDE DEF rows
<1>r. /\ tx' \in [Stores -> Transactions]
      /\ \A s \in Stores \ {at[c]} : tx'[s] = tx[s]
      /\ tx'[at[c]].owner = c /\ tx'[at[c]].writing = Conn(c).writing
      /\ tx'[at[c]].fixed = Conn(c).fixed /\ tx'[at[c]].rows = rows
  BY <1>a, <1>g, <1>c, Changes
<1>1. TypeOK'
  BY <1>a, <1>r, SMTT(30) DEF Change, Inv, Outcomes, PurgeEntries, TypeOK
<1>2. Paths'
  BY <1>a, <1>r, SMTT(30) DEF Change, Inv, Paths, PurgeEntries, TypeOK
<1>3. Tied'
  BY <1>a, <1>r, SMTT(30) DEF Change, InThread, Inside, Inv, Over, Paths, PurgeEntries, Tied, TypeOK
<1>4. Connected'
  BY <1>a, <1>r, SMTT(30) DEF Change, Connected, Inside, Inv, Over, Paths, PurgeEntries, Tied,
     TypeOK
<1>5. OneWriter'
  BY <1>a, <1>r, SMTT(30) DEF Change, Inv, OneWriter, PurgeEntries, Tied, TypeOK
<1>6. Stored'
  BY <1>a, <1>r, SMTT(30) DEF Change, Inv, PurgeEntries, Stored, TypeOK
<1>7. Found'
  BY <1>a, <1>r, SMTT(30) DEF Awaited, Change, Found, Inv, Paths, PurgeEntries, TypeOK
<1>8. Snapshots'
  BY <1>a, <1>r, SMTT(30) DEF Change, Inside, Inv, Paths, PurgeEntries, Snapshots, Tied, TypeOK
<1>9. Drafts'
  <2>0. UNCHANGED at /\ Drafting(c)'
    BY <1>a, <1>r DEF PurgeEntries, Change, Drafting
  <2>1. Draft(c, Conn(c).rows)'
    <3>1. /\ Draft(c, Rows(at[c])) /\ pc[c] = "body" /\ pc'[c] = "commit" /\ call[c].kind = "purge"
          /\ Conn(c)'.rows = rows /\ UNCHANGED <<now, db, call, at, until>> /\ now \in Nat /\ until[c] \in Nat
          /\ db.body = db.token /\ (db.token = 0 => db.expires = 0) /\ db \in Row
      BY <1>d, <1>r, <2>0 DEF PurgeEntries, Change, Inv, TypeOK, Stored
    <3>2. /\ until[c] <= now /\ Rows(at[c]).token = db.token /\ Rows(at[c]).expires = db.expires
          /\ Rows(at[c]).body = IF NotLive(Rows(at[c]), until[c]) THEN 0 ELSE Rows(at[c]).token
      BY <3>1 DEF Draft
    <3>3. Expired(c) <=> NotLive(Rows(at[c]), until[c])
      BY <3>1, <1>b DEF Expired, Store!Live, Entry, NotLive, Row
    <3>4. rows = db \/ (rows = NoRow /\ NotLive(db, now))
      <4> DEFINE r == Rows(at[c])
      <4>1. r = [token |-> r.token, expires |-> r.expires, body |-> r.body]
            /\ db = [token |-> db.token, expires |-> db.expires, body |-> db.body]
        BY <3>1, <1>b DEF Row
      <4>2. CASE Expired(c)
        <5>1. rows = [r EXCEPT !.token = 0, !.expires = 0]
          BY <4>2 DEF rows
        <5>2. r.body = 0 /\ NotLive(db, now)
          BY <3>1, <3>2, <3>3, <4>2, <1>b DEF NotLive, Row
        <5> QED
          BY <5>1, <5>2, <4>1 DEF NoRow
      <4>3. CASE ~Expired(c)
        <5>1. rows = r /\ r.body = db.body
          BY <3>1, <3>2, <3>3, <4>3 DEF rows
        <5> QED
          BY <5>1, <3>2, <4>1
      <4> QED
        BY <4>2, <4>3
    <3> QED
      BY <3>1, <3>4 DEF Draft, NotLive
  <2>2. (pc[c] \in {"entry", "body", "commit"} => Granted(c))'
    BY <1>a, <1>b, <1>d, <1>r DEF PurgeEntries, Change, Inv, TypeOK, Granted, WasLive, NotLive
  <2> QED
    BY <1>5, <2>0, <2>1, <2>2, OnlyDraft
<1> QED
  BY <1>1, <1>2, <1>3, <1>4, <1>5, <1>6, <1>7, <1>8, <1>9 DEF Inv

LEMMA CommitInv ==
    ASSUME Inv, NEW c \in Calls, Commit(c) PROVE Inv'
<1>u. /\ UNCHANGED <<now, call, since, at, writes, status, data, lock>>
      /\ pc' = [pc EXCEPT ![c] = "leave"] /\ pc[c] = "commit"
      /\ db' = Rows(at[c]) /\ used' = used \cup ({db'.token} \ {0})
      /\ tx' = [tx EXCEPT ![at[c]] = NoTx]
      /\ until' = [until EXCEPT ![c] = 0]
  BY DEF Commit
<1>q. /\ pc' \in [Calls -> Points] /\ pc'[c] = "leave" /\ \A d \in Calls \ {c} : pc'[d] = pc[d]
      /\ until' \in [Calls -> Nat]
  BY <1>u DEF Inv, TypeOK, Points
<1>k. call[c].kind \in {"put", "touch", "delete", "purge"} /\ outcome[c] = "none"
  BY <1>u DEF Inv, Paths, Found
<1>a. Drafting(c)
  BY <1>u, <1>k, Owns DEF Commit, Drafting, Inside
<1>d. /\ Draft(c, db') /\ Granted(c) /\ db' \in Row
      /\ db \in Row /\ now \in Nat /\ call[c].ttl \in Nat /\ used \subseteq Nat
  BY <1>u, <1>a, OwnDraft, RowsType DEF Inv, TypeOK
<1>r. /\ tx' \in [Stores -> Transactions]
      /\ \A s \in Stores : ~tx'[s].writing /\ tx'[s] = IF s = at[c] THEN NoTx ELSE tx[s]
  BY <1>u, <1>a, NoTxType DEF Inv, TypeOK, OneWriter, Drafting
<1>n. db'.body = db'.token /\ (db'.token = 0 => db'.expires = 0) /\ (db'.token \in used \cup {0} \/ db'.token <= writes)
  <2>1. CASE call[c].kind = "put"
    BY <2>1, <1>d, <1>u DEF Draft
  <2>2. CASE call[c].kind = "touch"
    BY <2>2, <1>d, <1>u DEF Draft, Granted, WasLive, Inv, Stored
  <2>3. CASE call[c].kind = "delete"
    BY <2>3, <1>d, <1>u DEF Draft
  <2>4. CASE call[c].kind = "purge"
    BY <2>4, <1>d, <1>u DEF Draft, NoRow, Inv, Stored
  <2> QED
    BY <2>1, <2>2, <2>3, <2>4, <1>k
<1>s. /\ seen' \in [Calls -> Entries] /\ \A d \in Calls \ {c} : seen'[d] = seen[d]
  BY <1>d DEF Commit, Inv, TypeOK, Entry, Entries, Row
<1>o. /\ outcome' \in [Calls -> Outcomes] /\ \A d \in Calls \ {c} : outcome'[d] = outcome[d]
      /\ outcome'[c] = "none" <=> call[c].kind = "purge"
  <2>1. outcome \in [Calls -> Outcomes]
    BY DEF Inv, TypeOK, Outcomes
  <2>2. CASE call[c].kind = "purge"
    BY <1>k, <2>1, <2>2 DEF Commit
  <2>3. CASE call[c].kind = "delete"
    BY <1>k, <2>1, <2>3 DEF Commit, Outcomes
  <2>4. CASE call[c].kind \in {"put", "touch"}
    BY <1>k, <2>1, <2>4 DEF Commit, Outcomes
  <2> QED
    BY <1>k, <2>2, <2>3, <2>4
<1>1. TypeOK'
  <2>1. TypeOK /\ used' \subseteq Nat
    BY <1>u, <1>d DEF Inv, Row
  <2> QED
    BY <1>u, <1>q, <1>d, <1>s, <1>o, <1>r, <2>1, SMTT(20) DEF TypeOK, Points, Outcomes
<1>2. Paths'
  BY <1>u, <1>q, <1>k, SMTT(30) DEF Inv, Paths
<1>3. Tied'
  <2>1. \A s \in Stores : tx'[s].owner # None => tx'[s] = tx[s] /\ tx[s].owner # c
    BY <1>r, NoTxType DEF Inv, Tied
  <2>2. \A s \in Stores : tx'[s].owner = None => tx'[s] = NoTx
    BY <1>r DEF Inv, Tied
  <2>3. \A s \in Stores : tx'[s].owner # None => pc'[tx'[s].owner] \in Inside
    BY <1>q, <2>1 DEF Inv, Tied, TypeOK, Transactions
  <2>4. \A s \in Stores : lock[s] # None => InThread(lock[s])'
    BY <1>q, <1>u DEF Inv, Tied, TypeOK, InThread, Over
  <2> QED
    BY <1>u, <1>r, <2>1, <2>2, <2>3, <2>4 DEF Inv, Tied
<1>4. Connected'
  BY <1>u, <1>q, <1>r, <1>a, SMTT(30) DEF Inv, TypeOK, Connected, Inside, Over, Drafting
<1>5. OneWriter'
  BY <1>r DEF OneWriter
<1>6. Stored'
  BY <1>u, <1>d, <1>n DEF Inv, Stored
<1>7. Found'
  BY <1>u, <1>o, <1>s, <1>q, <1>k, SMTT(30) DEF Inv, TypeOK, Found, Awaited, Outcomes
<1>8. Snapshots'
  BY <1>u, <1>q, <1>s, <1>r, NoTxType, SMTT(30) DEF Inv, TypeOK, Snapshots, NoTx
<1>9. Drafts'
  BY <1>r, <1>u DEF Inv, TypeOK, Drafts, Drafting
<1> QED
  BY <1>1, <1>2, <1>3, <1>4, <1>5, <1>6, <1>7, <1>8, <1>9 DEF Inv

LEMMA LeaveInv ==
    ASSUME Inv, NEW c \in Calls, Leave(c) PROVE Inv'
<1>e. /\ pc' = [pc EXCEPT ![c] = IF Awaited(c) THEN "done" ELSE "failed"]
      /\ lock' \in [Stores -> Calls \cup {None}]
      /\ \A s \in Stores : lock'[s] = IF lock[s] = c THEN None ELSE lock[s]
      /\ pc' \in [Calls -> Points]
  BY Ended DEF Points, Leave
<1>o. /\ outcome' \in [Calls -> Outcomes]
      /\ \A d \in Calls \ {c} : outcome'[d] = outcome[d]
      /\ call[c].kind # "read"
  BY Answered DEF Leave, Outcomes, Inv, TypeOK, Paths
<1>1. TypeOK'
  <2>1. UNCHANGED <<now, used, writes, db, call, since, seen, at, data, until, status, tx>>
    BY DEF Leave
  <2>2. TypeOK
    BY DEF Inv
  <2>3. /\ pc' \in [Calls -> Points] /\ lock' \in [Stores -> Calls \cup {None}] /\ outcome' \in [Calls -> Outcomes]
    BY <1>o, <1>e
  <2> QED
    BY <2>1, <2>2, <2>3, SMTT(20) DEF TypeOK, Points, Outcomes
<1>2. Paths'
  BY <1>e, <1>o, SMTT(30) DEF Inv, Leave, Paths, TypeOK
<1>3. Tied'
  BY <1>e, <1>o, SMTT(30) DEF InThread, Inside, Inv, Leave, Over, Paths, Tied, TypeOK
<1>4. Connected'
  BY <1>e, <1>o, SMTT(30) DEF Connected, Inside, Inv, Leave, Over, Paths, Tied, TypeOK
<1>5. OneWriter'
  BY <1>e, <1>o, SMTT(30) DEF Inv, Leave, OneWriter, Tied, TypeOK
<1>6. Stored'
  BY <1>e, <1>o, SMTT(30) DEF Inv, Leave, Stored, TypeOK
<1>7. Found'
  BY <1>e, <1>o, SMTT(30) DEF Awaited, Found, Inv, Leave, Paths, TypeOK
<1>8. Snapshots'
  BY <1>e, <1>o, SMTT(30) DEF Inside, Inv, Leave, Paths, Snapshots, Tied, TypeOK
<1>9. Drafts'
  <2>1. UNCHANGED at /\ \A d \in Calls : Drafting(d)' => d # c /\ Drafting(d) /\ tx'[at[d]].rows = tx[at[d]].rows
    BY InTransaction DEF Leave, Drafting, Conn, Inside
  <2> QED
    BY <1>e, <2>1, DraftsOfOthers DEF Leave, Inv, TypeOK
<1> QED
  BY <1>1, <1>2, <1>3, <1>4, <1>5, <1>6, <1>7, <1>8, <1>9 DEF Inv

LEMMA CancelInv ==
    ASSUME Inv, NEW c \in Calls, Cancel(c) PROVE Inv'
<1>u. UNCHANGED <<now, db, used, call, since, at, writes, status, until, data, seen, tx, outcome>>
  BY DEF Cancel
<1>p. \/ pc[c] \in {"wait", "start"} /\ pc' = [pc EXCEPT ![c] = "failed"]
      \/ InThread(c) /\ UNCHANGED pc
  BY DEF Cancel
<1>q. /\ pc' \in [Calls -> Points] /\ \A d \in Calls \ {c} : pc'[d] = pc[d]
      /\ pc'[c] = pc[c] \/ (pc[c] \in {"wait", "start"} /\ pc'[c] = "failed")
  <2>1. pc \in [Calls -> Points]
    BY DEF Inv, TypeOK, Points
  <2>2. CASE pc[c] \in {"wait", "start"} /\ pc' = [pc EXCEPT ![c] = "failed"]
    BY <2>1, <2>2 DEF Points
  <2>3. CASE UNCHANGED pc
    BY <2>1, <2>3
  <2> QED
    BY <1>p, <2>2, <2>3
<1>l. /\ lock' \in [Stores -> Calls \cup {None}]
      /\ \A s \in Stores : lock'[s] = IF lock[s] = c THEN None ELSE lock[s]
  BY DEF Cancel, Released, Inv, TypeOK, Tied
<1>1. TypeOK'
  <2>1. TypeOK
    BY DEF Inv
  <2> QED
    BY <1>u, <1>q, <1>l, <2>1, SMTT(20) DEF TypeOK, Points, Outcomes
<1>2. Paths'
  BY <1>u, <1>q, SMTT(30) DEF Inv, Paths
<1>3. Tied'
  <2>1. \A s \in Stores : tx[s].owner # None => pc'[tx[s].owner] \in Inside
    <3> SUFFICES ASSUME NEW s \in Stores, tx[s].owner # None
                 PROVE  pc'[tx[s].owner] \in Inside
      OBVIOUS
    <3>1. tx[s].owner \in Calls /\ pc[tx[s].owner] \in Inside
      BY DEF Inv, Tied, TypeOK, Transactions
    <3> QED
      BY <1>q, <3>1 DEF Inside
  <2>2. \A s \in Stores : lock'[s] # None => lock'[s] = lock[s] /\ InThread(lock[s])'
    BY <1>q, <1>u, <1>l DEF Inv, Tied, TypeOK, InThread, Over
  <2> QED
    BY <1>u, <2>1, <2>2 DEF Inv, Tied
<1>4. Connected'
  BY <1>u, <1>q, SMTT(30) DEF Inv, TypeOK, Connected, Inside, Over
<1>5. OneWriter'
  BY <1>u DEF Inv, OneWriter
<1>6. Stored'
  BY <1>u DEF Inv, Stored
<1>7. Found'
  BY <1>u, <1>q, <1>l, SMTT(30) DEF Inv, TypeOK, Found, Awaited
<1>8. Snapshots'
  BY <1>u, <1>q, SMTT(30) DEF Inv, Snapshots
<1>9. Drafts'
  <2>1. \A d \in Calls : Drafting(d)' => Drafting(d) /\ pc'[d] = pc[d]
    BY <1>u, <1>q, InTransaction DEF Drafting, Inside
  <2>2. \A d \in Calls : Drafting(d) => d # c \/ UNCHANGED pc
    BY <1>p, <1>u, InTransaction DEF Drafting, Inside
  <2>3. ASSUME NEW d \in Calls, Drafting(d)'
        PROVE  /\ Draft(d, Conn(d).rows)'
               /\ (pc[d] \in {"entry", "body", "commit"} => Granted(d))'
    <3>1. Draft(d, Conn(d).rows) /\ (pc[d] \in {"entry", "body", "commit"} => Granted(d))
      BY <2>1, <2>3 DEF Inv, Drafts
    <3>2. Draft(d, Conn(d).rows)'
      BY <1>u, <2>1, <2>3, <3>1 DEF Draft, InTime, NotLive
    <3> QED
      BY <1>u, <2>1, <2>3, <3>1, <3>2 DEF Granted, WasLive, NotLive
  <2> QED
    BY <2>3 DEF Drafts
<1> QED
  BY <1>1, <1>2, <1>3, <1>4, <1>5, <1>6, <1>7, <1>8, <1>9 DEF Inv

LEMMA BeginInv ==
    ASSUME Inv, NEW c \in Calls, NEW r \in Requests, Begin(c, r)
    PROVE  Inv'
<1>u. /\ UNCHANGED <<now, db, used, at, seen, outcome, data, tx, until, writes, lock, status>>
      /\ pc[c] = "idle" /\ status[at[c]] = "up" /\ r.kind \in Kinds
      /\ pc' = [pc EXCEPT ![c] = "wait"] /\ call' = [call EXCEPT ![c] = r]
      /\ since' = [since EXCEPT ![c] = now]
  BY DEF Begin
<1>r. r \in [kind : Kinds \cup {"none"}, match : Nat \cup {Anything}, ttl : 0..MaxTtl]
  <2>1. \A q \in Store!Requests : /\ q.match \in Nat \cup {Anything} /\ q.ttl \in 0..MaxTtl
                                /\ q = [kind |-> q.kind, match |-> q.match, ttl |-> q.ttl]
    <3> SUFFICES ASSUME NEW q \in Store!Requests
                 PROVE  /\ q.match \in Nat \cup {Anything} /\ q.ttl \in 0..MaxTtl
                        /\ q = [kind |-> q.kind, match |-> q.match, ttl |-> q.ttl]
      OBVIOUS
    <3> DEFINE K == {AsRead(k) : k \in Kinds}
    <3>1. q \in [kind : K, match : used \cup {0, Anything}, ttl : 0..MaxTtl]
      BY DEF Store!Requests, Store!Absent
    <3>2. \A u \in used : u \in Nat
      BY DEF Inv, TypeOK
    <3> HIDE DEF K
    <3> QED
      BY <3>1, <3>2
  <2>2. CASE r \in Store!Requests
    BY <1>u, <2>1, <2>2
  <2>3. CASE r \notin Store!Requests
    <3>1. PICK q \in Store!Requests : r = [q EXCEPT !.kind = "head"]
      BY <2>3 DEF Requests
    <3> QED
      BY <1>u, <2>1, <3>1
  <2> QED
    BY <2>2, <2>3
<1>q. /\ pc' \in [Calls -> Points] /\ pc'[c] = "wait" /\ \A d \in Calls \ {c} : pc'[d] = pc[d]
      /\ \A d \in Calls \ {c} : call'[d] = call[d] /\ since'[d] = since[d]
      /\ since'[c] = now
  BY <1>u DEF Inv, TypeOK, Points
<1>t. \A s \in Stores : tx[s].owner # None => tx[s].owner \in Calls \ {c} /\ pc[tx[s].owner] \in Inside
  BY <1>u DEF Inv, TypeOK, Tied, Transactions, Inside
<1>1. TypeOK'
  <2>1. /\ call' \in [Calls -> [kind : Kinds \cup {"none"}, match : Nat \cup {Anything}, ttl : 0..MaxTtl]]
        /\ since' \in [Calls -> 0..MaxTime]
    BY <1>u, <1>r DEF Inv, TypeOK
  <2> QED
    BY <1>u, <1>q, <2>1, SMTT(20) DEF Inv, TypeOK, Points
<1>2. Paths'
  BY <1>u, <1>q DEF Inv, Paths
<1>3. Tied'
  <2>1. \A s \in Stores : lock[s] # None => InThread(lock[s])' /\ lock[s] # c
    BY <1>q, <1>u DEF Inv, Tied, TypeOK, InThread, Over
  <2> QED
    BY <1>u, <1>q, <1>t, <2>1 DEF Inv, Tied
<1>4. Connected'
  BY <1>u, <1>q DEF Inv, TypeOK, Connected, Inside, Over
<1>5. OneWriter'
  BY <1>u DEF Inv, OneWriter
<1>6. Stored'
  BY <1>u, <1>q DEF Inv, TypeOK, Stored
<1>7. Found'
  BY <1>u, <1>q, SMTT(20) DEF Inv, Found, Awaited
<1>8. Snapshots'
  BY <1>u, <1>q, SMTT(20) DEF Inv, Snapshots
<1>9. Drafts'
  <2> SUFFICES ASSUME NEW d \in Calls, Drafting(d)'
               PROVE  /\ Draft(d, Conn(d).rows)'
                      /\ (pc[d] \in {"entry", "body", "commit"} => Granted(d))'
    BY DEF Drafts
  <2>1. Drafting(d) /\ d # c
    BY <1>u, <1>t DEF Drafting, Inv, TypeOK
  <2>2. Draft(d, Conn(d).rows) /\ (pc[d] \in {"entry", "body", "commit"} => Granted(d))
    BY <2>1 DEF Inv, Drafts
  <2>3. Draft(d, Conn(d).rows)'
    BY <1>u, <1>q, <2>1, <2>2 DEF Draft, InTime, NotLive
  <2> QED
    BY <1>u, <1>q, <2>1, <2>2, <2>3 DEF Granted, WasLive, NotLive
<1> QED
  BY <1>1, <1>2, <1>3, <1>4, <1>5, <1>6, <1>7, <1>8, <1>9 DEF Inv

LEMMA TickInv ==
    ASSUME Inv, Tick PROVE Inv'
<1>u. /\ UNCHANGED <<db, used, call, since, at, seen, outcome, data, tx, pc, until, writes, lock, status>>
      /\ now' = now + 1 /\ now < MaxTime
  BY DEF Tick
<1>1. TypeOK'
  BY <1>u DEF Inv, TypeOK
<1>2. Paths' /\ Tied' /\ Connected' /\ OneWriter'
  BY <1>u DEF Inv, Paths, Tied, Connected, OneWriter, InThread, Over
<1>3. Stored'
  BY <1>u DEF Inv, TypeOK, Stored
<1>4. Found' /\ Snapshots'
  BY <1>u DEF Inv, Found, Snapshots, Awaited
<1>5. Drafts'
  <2> SUFFICES ASSUME NEW c \in Calls, Drafting(c)'
               PROVE  /\ Draft(c, Conn(c).rows)'
                      /\ (pc[c] \in {"entry", "body", "commit"} => Granted(c))'
    BY DEF Drafts
  <2>1. Draft(c, Conn(c).rows) /\ (pc[c] \in {"entry", "body", "commit"} => Granted(c))
    BY <1>u DEF Inv, Drafts, Drafting
  <2>2. /\ now \in Nat /\ since[c] \in Nat /\ call[c].ttl \in Nat /\ until[c] \in Nat /\ db \in Row
        /\ Conn(c).rows \in Row
    BY DEF Inv, TypeOK, Transactions
  <2>3. Draft(c, Conn(c).rows)'
    BY <1>u, <2>1, <2>2 DEF Draft, InTime, NotLive, Row
  <2>4. (pc[c] \in {"entry", "body", "commit"} => Granted(c))'
    BY <1>u, <2>1, <2>2 DEF Granted, WasLive, NotLive, Row
  <2> QED
    BY <2>3, <2>4
<1> QED
  BY <1>1, <1>2, <1>3, <1>4, <1>5 DEF Inv

(* A store that is closed is in no transaction, nor one whose process died. *)
LEMMA CloseStoreInv ==
    ASSUME Inv, NEW s \in Stores, CloseStore(s) PROVE Inv'
<1>u. /\ UNCHANGED <<now, db, used, call, since, at, seen, outcome, data, pc, until, writes, lock>>
      /\ tx' = [tx EXCEPT ![s] = NoTx] /\ status' = [status EXCEPT ![s] = "closed"]
      /\ status[s] = "up" /\ lock[s] = None
  BY DEF CloseStore
<1>t. /\ tx' \in [Stores -> Transactions] /\ NoTx.owner = None /\ ~NoTx.writing
      /\ \A t \in Stores : tx'[t] = IF t = s THEN NoTx ELSE tx[t]
  BY <1>u, NoTxType DEF Inv, TypeOK
<1>s. /\ status' \in [Stores -> {"up", "closed", "crashed"}]
      /\ \A t \in Stores : status'[t] = IF t = s THEN "closed" ELSE status[t]
  BY <1>u DEF Inv, TypeOK
<1>1. TypeOK'
  BY <1>u, <1>t, <1>s DEF Inv, TypeOK
<1>2. Paths'
  BY <1>u DEF Inv, Paths
<1>3. Tied'
  BY <1>u, <1>t DEF Inv, Tied, InThread, Over
<1>4. Connected'
  BY <1>u, <1>t, <1>s DEF Inv, TypeOK, Connected, Over
<1>5. OneWriter'
  BY <1>t DEF Inv, OneWriter
<1>6. Stored' /\ Found'
  BY <1>u DEF Inv, Stored, Found, Awaited
<1>7. Snapshots'
  BY <1>u, <1>t DEF Inv, TypeOK, Snapshots
<1>8. Drafts'
  <2>1. \A c \in Calls : Drafting(c)' => Drafting(c) /\ tx'[at[c]] = tx[at[c]]
    BY <1>u, <1>t DEF Drafting, Inv, TypeOK
  <2> SUFFICES ASSUME NEW c \in Calls, Drafting(c)'
               PROVE  /\ Draft(c, Conn(c).rows)'
                      /\ (pc[c] \in {"entry", "body", "commit"} => Granted(c))'
    BY DEF Drafts
  <2>2. /\ Draft(c, Conn(c).rows) /\ tx'[at[c]] = tx[at[c]]
        /\ pc[c] \in {"entry", "body", "commit"} => Granted(c)
    BY <2>1 DEF Inv, Drafts
  <2>3. Draft(c, Conn(c).rows)'
    BY <1>u, <2>2 DEF Draft, InTime, NotLive
  <2> QED
    BY <1>u, <2>2, <2>3 DEF Granted, NotLive, WasLive
<1> QED
  BY <1>1, <1>2, <1>3, <1>4, <1>5, <1>6, <1>7, <1>8 DEF Inv

LEMMA CrashInv ==
    ASSUME Inv, NEW s \in Stores, Crash(s) PROVE Inv'
<1>u. /\ UNCHANGED <<now, db, used, call, since, at, seen, outcome, data, until, writes>>
      /\ tx' = [tx EXCEPT ![s] = NoTx] /\ status' = [status EXCEPT ![s] = "crashed"]
      /\ lock' = [lock EXCEPT ![s] = None]
      /\ pc' = [c \in Calls |-> IF at[c] = s /\ ~Over(c) THEN "failed" ELSE pc[c]]
  BY DEF Crash
<1>t. /\ tx' \in [Stores -> Transactions] /\ NoTx.owner = None /\ ~NoTx.writing
      /\ \A t \in Stores : tx'[t] = IF t = s THEN NoTx ELSE tx[t]
  BY <1>u, NoTxType DEF Inv, TypeOK
<1>s. /\ status' \in [Stores -> {"up", "closed", "crashed"}]
      /\ \A t \in Stores : status'[t] = IF t = s THEN "crashed" ELSE status[t]
      /\ lock' \in [Stores -> Calls \cup {None}]
      /\ \A t \in Stores : lock'[t] = IF t = s THEN None ELSE lock[t]
  BY <1>u DEF Inv, TypeOK
<1>p. /\ pc' \in [Calls -> Points]
      /\ \A c \in Calls : at[c] = s => pc'[c] = (IF Over(c) THEN pc[c] ELSE "failed")
      /\ \A c \in Calls : at[c] # s => pc'[c] = pc[c]
  BY <1>u DEF Inv, TypeOK, Points
<1>1. TypeOK'
  BY <1>u, <1>t, <1>s, <1>p, SMTT(20) DEF Inv, TypeOK, Points
<1>2. Paths'
  BY <1>u, <1>p DEF Inv, Paths, Over
<1>3. Tied'
  <2>1. \A t \in Stores \ {s} : lock'[t] # None => at[lock[t]] = t /\ InThread(lock[t])'
    BY <1>s, <1>p DEF Inv, TypeOK, Tied, InThread, Over
  <2>2. \A t \in Stores \ {s} : tx[t].owner # None => pc'[tx[t].owner] = pc[tx[t].owner]
    BY <1>p DEF Inv, TypeOK, Tied, Transactions
  <2> QED
    BY <1>u, <1>t, <1>s, <2>1, <2>2 DEF Inv, Tied
<1>4. Connected'
  BY <1>u, <1>t, <1>s, <1>p DEF Inv, TypeOK, Connected, Over, Inside
<1>5. OneWriter'
  BY <1>t DEF Inv, OneWriter
<1>6. Stored'
  BY <1>u DEF Inv, Stored
<1>7. Found'
  BY <1>u, <1>s, <1>p, SMTT(20) DEF Inv, TypeOK, Found, Awaited, Over
<1>8. Snapshots'
  BY <1>u, <1>t, <1>p DEF Inv, TypeOK, Snapshots
<1>9. Drafts'
  <2>1. \A c \in Calls : Drafting(c)' => Drafting(c) /\ tx'[at[c]] = tx[at[c]] /\ pc'[c] = pc[c]
    BY <1>u, <1>t, <1>p DEF Drafting, Inv, TypeOK
  <2> QED
    BY <1>u, <2>1 DEF Inv, Drafts, Draft, Granted, InTime, NotLive, WasLive
<1> QED
  BY <1>1, <1>2, <1>3, <1>4, <1>5, <1>6, <1>7, <1>8, <1>9 DEF Inv

LEMMA InitInv == Init => Inv
<1> SUFFICES ASSUME Init PROVE Inv
  OBVIOUS
<1> USE DEF Init
<1>1. TypeOK
  <2>1. db \in Row /\ db.token \in {0, 1}
    BY DEF Row, NoRow
  <2>2. /\ Store!NoCall \in [kind : Kinds \cup {"none"}, match : Nat \cup {Anything}, ttl : 0..MaxTtl]
        /\ Store!NoDoc \in Entries
    BY DEF Store!NoCall, Store!NoDoc, Entries
  <2> QED
    BY <2>1, <2>2, NoTxType DEF TypeOK
<1>2. Paths /\ Tied /\ Connected /\ OneWriter
  BY NoTxType DEF Paths, Tied, Connected, OneWriter, Inside, Over
<1>3. Stored
  BY DEF Stored, NoRow
<1>4. Found /\ Snapshots /\ Drafts
  BY NoTxType, <1>1 DEF Found, Snapshots, Drafts, Drafting, TypeOK
<1> QED
  BY <1>1, <1>2, <1>3, <1>4 DEF Inv

LEMMA StepInv ==
    ASSUME Inv, NEW c \in Calls, Step(c) PROVE Inv'
BY AcquireInv, BeginFailsInv, BeginReadInv, BeginWriteInv, StatementFailsInv,
   SelectEntryInv, ClockInv, SelectBodyInv, EndReadInv, RefuseInv,
   AllowInv, PutEntryInv, PutBodyInv, TouchInv, DeleteBodyInv,
   DeleteEntryInv, PurgeBodiesInv, PurgeEntriesInv, CommitInv, LeaveInv DEF Step

(* The invariant holds, whoever is cancelled, fails, dies or is closed. *)
THEOREM Invariant == Spec => []Inv
<1>1. Init => Inv
  BY InitInv
<1>2. Inv /\ [Next]_vars => Inv'
  <2> SUFFICES ASSUME Inv, [Next]_vars PROVE Inv'
    OBVIOUS
  <2>1. CASE Tick
    BY <2>1, TickInv
  <2>2. CASE \E s \in Stores : CloseStore(s) \/ Crash(s)
    BY <2>2, CloseStoreInv, CrashInv
  <2>3. CASE \E c \in Calls : Step(c) \/ Cancel(c) \/ \E r \in Requests : Begin(c, r)
    BY <2>3, StepInv, CancelInv, BeginInv
  <2>4. CASE UNCHANGED vars
    <3>1. TypeOK' /\ Paths' /\ OneWriter' /\ Stored' /\ Snapshots'
      BY <2>4 DEF vars, Inv, TypeOK, Paths, OneWriter, Stored, Snapshots
    <3>2. Tied' /\ Connected' /\ Found'
      BY <2>4 DEF vars, Inv, Tied, Connected, Found, InThread, Over, Awaited
    <3>3. Drafts'
      BY <2>4 DEF vars, Inv, Drafts, Drafting, Draft, Granted, InTime, NotLive, WasLive
    <3> QED
      BY <3>1, <3>2, <3>3 DEF Inv
  <2> QED
    BY <2>1, <2>2, <2>3, <2>4 DEF Next
<1> QED
  BY <1>1, <1>2, PTL DEF Spec

(* No connection is left in a transaction, and no lock held, by a call     *)
(* whose thread is over.                                                   *)
THEOREM Ownership == Spec => []Owned
<1>1. Inv => Owned
  <2> SUFFICES ASSUME Inv, NEW s \in Stores
               PROVE  /\ tx[s] # NoTx => tx[s].owner \in Calls /\ InThread(tx[s].owner)
                      /\ lock[s] # None => InThread(lock[s])
    BY DEF Owned
  <2>1. tx[s].owner \in Calls \cup {None}
    BY DEF Inv, TypeOK, Transactions
  <2> QED
    BY <2>1 DEF Inv, Tied, InThread, Over, Inside
<1> QED
  BY <1>1, Invariant, PTL

(* Entry and body are of one write, in the tables and in what a call reads. *)
THEOREM Pairing == Spec => []Paired
<1>1. Inv => Paired
  BY DEF Inv, Paired, Stored, Found
<1> QED
  BY <1>1, Invariant, PTL

-----------------------------------------------------------------------------
(* Refinement.  A call takes effect when its transaction commits, a read  *)
(* when it selects the entry, and a thread that nobody awaits any more     *)
(* ends a call that raised.                                                *)

Frame == UNCHANGED <<now, db, used, call, since, seen>>

(* What the abstract store is told of where a call is. *)
LEMMA StateIs ==
    ASSUME TypeOK, NEW c \in Calls
    PROVE  /\ pc[c] = "idle" => State(c) = "idle"
           /\ pc[c] = "done" => State(c) = "returned"
           /\ pc[c] = "failed" => State(c) = "failed"
           /\ ~Over(c) => State(c) = "called"
BY DEF TypeOK, State, Over

LEMMA AskedIs ==
    ASSUME TypeOK, NEW c \in Calls
    PROVE  LET q == [call[c] EXCEPT !.kind = AsRead(@)] IN
           q.kind = AsRead(call[c].kind) /\ q.match = call[c].match /\ q.ttl = call[c].ttl
BY DEF TypeOK

(* A step inside a thread that nobody sees. *)
LEMMA Stutters ==
    ASSUME Frame, UNCHANGED outcome, \A d \in Calls : State(d)' = State(d)
    PROVE  UNCHANGED Store!vars
BY DEF Frame, Store!vars, Store!callvars

(* Calls raise. *)
LEMMA Fails ==
    ASSUME Frame, UNCHANGED outcome, NEW cs \in SUBSET Calls,
           \A d \in Calls : State(d)' = IF d \in cs THEN "failed" ELSE State(d),
           \A d \in cs : State(d) = "called"
    PROVE  Store!Fail(cs)
BY DEF Frame, Store!Fail

(* A call returns what is decided. *)
LEMMA Returns ==
    ASSUME Frame, UNCHANGED outcome, NEW c \in Calls, outcome[c] # "none",
           State(c) = "called", State(c)' = "returned",
           \A d \in Calls \ {c} : State(d)' = State(d)
    PROVE  Store!Return(c)
BY DEF Frame, Store!Return

(* What a call returns is decided, and it returns then or later. *)
LEMMA Decides ==
    ASSUME UNCHANGED <<now, call, since>>, TypeOK, NEW c \in Calls, NEW o,
           outcome' = [outcome EXCEPT ![c] = o], State(c)' \in {State(c), "returned"},
           \A d \in Calls \ {c} : State(d)' = State(d)
    PROVE  Store!Decide(c, o)
<1> DEFINE s == [d \in Calls |-> State(d)]
<1>1. s' \in {s, [s EXCEPT ![c] = "returned"]}
  <2>1. CASE State(c)' = State(c)
    BY <2>1
  <2>2. CASE State(c)' = "returned"
    BY <2>2
  <2> QED
    BY <2>1, <2>2
<1> QED
  BY <1>1 DEF Store!Decide

(* The state of one call is all that changes. *)
LEMMA Moves ==
    ASSUME TypeOK, NEW c \in Calls, NEW l \in Points, pc' = [pc EXCEPT ![c] = l]
    PROVE  /\ \A d \in Calls \ {c} : State(d)' = State(d)
           /\ State(c)' = CASE l = "idle" -> "idle"
                            [] l = "done" -> "returned"
                            [] l = "failed" -> "failed"
                            [] OTHER -> "called"
<1>1. \A d \in Calls : pc'[d] = IF d = c THEN l ELSE pc[d]
  BY DEF TypeOK
<1> QED
  BY <1>1 DEF State

(* A thread goes on. *)
LEMMA GoesOn ==
    ASSUME TypeOK, NEW c \in Calls, ~Over(c), NEW l \in Points \ {"idle", "done", "failed"},
           pc' = [pc EXCEPT ![c] = l]
    PROVE  \A d \in Calls : State(d)' = State(d)
<1>1. State(c)' = "called" /\ \A d \in Calls \ {c} : State(d)' = State(d)
  BY Moves
<1>2. State(c) = "called"
  BY StateIs
<1> QED
  BY <1>1, <1>2

(* The thread of a call that nobody awaits, or that failed, ends. *)
LEMMA EndFails ==
    ASSUME Inv, NEW c \in Calls, ~Over(c), Frame, UNCHANGED outcome, NEW l \in Points, End(c, l),
           ~Awaited(c) \/ l = "failed"
    PROVE  Store!Fail({c})
<1>1. pc' = [pc EXCEPT ![c] = "failed"] /\ TypeOK
  BY DEF End, Inv
<1>2. State(c) = "called" /\ State(c)' = "failed" /\ \A d \in Calls \ {c} : State(d)' = State(d)
  BY <1>1, Moves, StateIs DEF Points
<1> QED
  BY <1>2, Fails

(* It ends, and its call returns what is decided. *)
LEMMA EndReturns ==
    ASSUME Inv, NEW c \in Calls, ~Over(c), Frame, UNCHANGED outcome, End(c, "done"),
           Awaited(c) => outcome[c] # "none"
    PROVE  Store!Return(c) \/ Store!Fail({c})
<1>1. CASE ~Awaited(c)
  BY <1>1, EndFails DEF Points
<1>2. CASE Awaited(c)
  <2>1. pc' = [pc EXCEPT ![c] = "done"] /\ TypeOK
    BY <1>2 DEF End, Inv
  <2>2. State(c) = "called" /\ State(c)' = "returned" /\ \A d \in Calls \ {c} : State(d)' = State(d)
    BY <2>1, Moves, StateIs DEF Points
  <2> QED
    BY <1>2, <2>2, Returns
<1> QED
  BY <1>1, <1>2

(* It ends, and decides what its call returns if that is awaited. *)
LEMMA EndDecides ==
    ASSUME Inv, NEW c \in Calls, ~Over(c), Frame, NEW o, Answer(c, o), End(c, "done")
    PROVE  \/ Awaited(c) /\ Store!Decide(c, o)
           \/ Store!Fail({c})
<1>1. CASE ~Awaited(c)
  BY <1>1, EndFails DEF Points, Answer
<1>2. CASE Awaited(c)
  <2>1. pc' = [pc EXCEPT ![c] = "done"] /\ TypeOK /\ outcome' = [outcome EXCEPT ![c] = o]
    BY <1>2 DEF End, Inv, Answer
  <2>2. State(c)' = "returned" /\ \A d \in Calls \ {c} : State(d)' = State(d)
    BY <2>1, Moves DEF Points
  <2> QED
    BY <1>2, <2>1, <2>2, Decides DEF Frame
<1> QED
  BY <1>1, <1>2

(* A call that has not been decided. *)
LEMMA UndecidedIs ==
    ASSUME Inv, NEW c \in Calls, ~Over(c), outcome[c] = "none"
    PROVE  Store!Undecided(c)
BY StateIs DEF Inv, Store!Undecided

(* A step within a thread changes nothing that the others see. *)
LEMMA Inner ==
    ASSUME Inv, NEW c \in Calls, ~Over(c), Frame, UNCHANGED outcome,
           NEW l \in Points \ {"idle", "done", "failed"}, pc' = [pc EXCEPT ![c] = l]
    PROVE  UNCHANGED Store!vars
<1>1. TypeOK /\ State(c) = "called"
  BY StateIs DEF Inv
<1>2. State(c)' = "called" /\ \A d \in Calls \ {c} : State(d)' = State(d)
  BY <1>1, Moves
<1> QED
  BY <1>1, <1>2, Stutters

InnerStep(c) ==
    \/ Acquire(c) \/ BeginRead(c) \/ BeginWrite(c) \/ SelectBody(c) \/ Allow(c)
    \/ PutEntry(c) \/ PutBody(c) \/ Touch(c) \/ DeleteBody(c) \/ DeleteEntry(c)
    \/ PurgeBodies(c) \/ PurgeEntries(c)

LEMMA InnerSteps ==
    ASSUME Inv, NEW c \in Calls, InnerStep(c)
    PROVE  UNCHANGED Store!vars
<1>1. PICK l \in Points \ {"idle", "done", "failed"} : pc' = [pc EXCEPT ![c] = l]
  BY DEF InnerStep, Acquire, BeginRead, BeginWrite, SelectBody, Allow, PutEntry, PutBody, Touch,
         DeleteBody, DeleteEntry, PurgeBodies, PurgeEntries, Change, Points
<1>2. Frame /\ UNCHANGED outcome
  BY DEF Frame, InnerStep, Acquire, BeginRead, BeginWrite, SelectBody, Allow, PutEntry, PutBody, Touch,
         DeleteBody, DeleteEntry, PurgeBodies, PurgeEntries, Change
<1>3. ~Over(c)
  BY DEF Over, InnerStep, Acquire, BeginRead, BeginWrite, SelectBody, Allow, PutEntry, PutBody, Touch,
         DeleteBody, DeleteEntry, PurgeBodies, PurgeEntries
<1> QED
  BY <1>1, <1>2, <1>3, Inner

(* A statement or a BEGIN fails, and the call raises. *)
LEMMA RaiseSteps ==
    ASSUME Inv, NEW c \in Calls, BeginFails(c) \/ StatementFails(c)
    PROVE  Store!Next
<1>1. Frame /\ UNCHANGED outcome /\ End(c, "failed") /\ ~Over(c)
  BY DEF Frame, BeginFails, StatementFails, Over
<1>2. Store!Fail({c})
  BY <1>1, EndFails DEF Points
<1> QED
  BY <1>2 DEF Store!Next

(* The transaction of a read ends, or a thread has nothing more to do. *)
LEMMA EndReadStep ==
    ASSUME Inv, NEW c \in Calls, EndRead(c)
    PROVE  Store!Next
<1>1. Frame /\ UNCHANGED outcome /\ End(c, "done") /\ ~Over(c) /\ pc[c] = "end"
  BY DEF Frame, EndRead, Over
<1>2. Awaited(c) => outcome[c] # "none"
  BY <1>1 DEF Inv, Found, Paths
<1>3. Store!Return(c) \/ Store!Fail({c})
  BY <1>1, <1>2, EndReturns
<1> QED
  BY <1>3 DEF Store!Next

LEMMA LeaveStep ==
    ASSUME Inv, NEW c \in Calls, Leave(c)
    PROVE  Store!Next
<1>1. Frame /\ End(c, "done") /\ ~Over(c) /\ pc[c] = "leave"
  BY DEF Frame, Leave, Over
<1>2. CASE call[c].kind = "purge"
  <2>1. Answer(c, "ok") /\ Store!Undecided(c)
    BY <1>1, <1>2, UndecidedIs DEF Leave, Inv, Found
  <2>2. Store!Decide(c, "ok") => Store!Purged(c)
    BY <1>1, <1>2, <2>1, AskedIs DEF Store!Purged, Frame, AsRead, Inv
  <2> QED
    BY <1>1, <2>1, <2>2, EndDecides DEF Store!Next
<1>3. CASE call[c].kind # "purge"
  <2>1. UNCHANGED outcome /\ outcome[c] # "none"
    BY <1>1, <1>3 DEF Leave, Inv, Found
  <2> QED
    BY <1>1, <2>1, EndReturns DEF Store!Next
<1> QED
  BY <1>2, <1>3

(* What a writer finds is what is committed. *)
LEMMA Checks ==
    ASSUME Inv, NEW c \in Calls, pc[c] \in {"check", "entry"}, status[at[c]] # "closed"
    PROVE  Rows(at[c]) = db
<1>1. Drafting(c)
  BY Owns DEF Drafting, Inside, Inv, Paths
<1> QED
  BY <1>1, OwnDraft DEF Draft

LEMMA RefuseStep ==
    ASSUME Inv, NEW c \in Calls, Refuse(c)
    PROVE  Store!Next
<1>1. Frame /\ End(c, "done") /\ ~Over(c) /\ UNCHANGED db /\ Rows(at[c]) = db
  BY Checks DEF Frame, Refuse, Over
<1>2. Store!Undecided(c) /\ TypeOK
  BY <1>1, UndecidedIs DEF Refuse, Inv, Found
<1>3. CASE Refused(c) /\ Answer(c, "stale")
  <2>1. /\ call[c].match \notin {Anything, Store!Held(Entry(db), now)}
        /\ call[c].kind = "touch" => Store!Live(Entry(db), now)
    BY <1>1, <1>3 DEF Refused, Held, Live
  <2>2. AsRead(call[c].kind) = "touch" => call[c].kind = "touch"
    BY DEF AsRead
  <2>3. Store!Decide(c, "stale") => Store!Refuse(c)
    BY <1>1, <1>2, <2>1, <2>2, AskedIs DEF Store!Refuse, Store!Kept, Frame
  <2> QED
    BY <1>1, <1>3, <2>3, EndDecides DEF Store!Next
<1>4. CASE call[c].kind = "touch" /\ ~Live(Rows(at[c])) /\ Answer(c, "missing")
  <2>1. Store!Decide(c, "missing") => Store!Missing(c)
    BY <1>1, <1>2, <1>4, AskedIs DEF Store!Missing, Store!Kept, Live, Frame, AsRead
  <2> QED
    BY <1>1, <1>4, <2>1, EndDecides DEF Store!Next
<1> QED
  BY <1>3, <1>4 DEF Refuse

(* A read looks at the entry that is committed: its snapshot is taken then. *)
LEMMA Looks ==
    ASSUME Inv, "joined" \notin Features, NEW c \in Calls, SelectEntry(c)
    PROVE  /\ Rows(at[c]) = db /\ call[c].kind \in {"read", "head"} /\ ~Over(c)
           /\ outcome[c] = "none"
<1>1. CASE pc[c] = "select"
  <2>1. call[c].kind = "read" /\ Conn(c).owner = c /\ ~Conn(c).writing
    BY <1>1, Owns DEF SelectEntry, Inv, Paths, Inside
  <2>2. ~Conn(c).fixed
    BY <1>1, <2>1 DEF Inv, Snapshots
  <2> QED
    BY <1>1, <2>1, <2>2 DEF Rows, Over, Inv, Found
<1>2. CASE pc[c] # "select"
  <2>1. pc[c] = "start" /\ call[c].kind = "head" /\ Conn(c) = NoTx
    BY <1>2 DEF SelectEntry
  <2> QED
    BY <2>1 DEF Rows, NoTx, Over, Inv, Found
<1> QED
  BY <1>1, <1>2

LEMMA SelectEntryStep ==
    ASSUME Inv, "joined" \notin Features, NEW c \in Calls, SelectEntry(c)
    PROVE  Store!Next \/ UNCHANGED Store!vars
<1>1. /\ Rows(at[c]) = db /\ AsRead(call[c].kind) = "read" /\ ~Over(c) /\ TypeOK
      /\ Store!Undecided(c) /\ UNCHANGED <<now, db, used, call, since>>
  BY Looks, UndecidedIs DEF AsRead, Inv, SelectEntry
<1>2. CASE db.token # 0
  <2>1. seen' = [seen EXCEPT ![c] = Entry(db)] /\ pc' = [pc EXCEPT ![c] = "clock"] /\ UNCHANGED outcome
    BY <1>1, <1>2 DEF SelectEntry
  <2>2. \A d \in Calls : State(d)' = State(d)
    BY <1>1, <2>1, GoesOn DEF Points
  <2>3. Store!Look(c)
    BY <1>1, <1>2, <2>1, <2>2, AskedIs DEF Store!Look, Entry
  <2> QED
    BY <2>3 DEF Store!Next
<1>3. CASE db.token = 0
  <2>1. Answer(c, "missing") /\ Frame
    BY <1>1, <1>3 DEF SelectEntry, Frame
  <2>2. Store!Decide(c, "missing") => Store!Missing(c)
    BY <1>1, <1>3, <2>1, AskedIs DEF Store!Missing, Store!Kept, Store!Live, Frame, Entry
  <2>3. CASE call[c].kind = "head"
    <3>1. End(c, "done")
      BY <1>1, <1>3, <2>3 DEF SelectEntry
    <3> QED
      BY <1>1, <2>1, <2>2, <3>1, EndDecides DEF Store!Next
  <2>4. CASE call[c].kind # "head"
    <3>1. pc' = [pc EXCEPT ![c] = "end"]
      BY <1>1, <1>3, <2>4 DEF SelectEntry
    <3>2. CASE Awaited(c)
      <4>1. outcome' = [outcome EXCEPT ![c] = "missing"]
        BY <2>1, <3>2 DEF Answer
      <4>2. \A d \in Calls : State(d)' = State(d)
        BY <1>1, <3>1, GoesOn DEF Points
      <4> QED
        BY <1>1, <2>2, <4>1, <4>2, Decides DEF Store!Next
    <3>3. CASE ~Awaited(c)
      BY <1>1, <2>1, <3>1, <3>3, Inner DEF Answer, Points
    <3> QED
      BY <3>2, <3>3
  <2> QED
    BY <2>3, <2>4
<1> QED
  BY <1>2, <1>3

LEMMA ClockStep ==
    ASSUME Inv, NEW c \in Calls, Clock(c)
    PROVE  Store!Next \/ UNCHANGED Store!vars
<1> DEFINE o == IF Store!Live(seen[c], now) THEN "ok" ELSE "missing"
<1>1. /\ pc[c] = "clock" /\ AsRead(call[c].kind) = "read" /\ ~Over(c) /\ TypeOK
      /\ Store!Undecided(c) /\ Frame /\ Answer(c, o) /\ seen[c].token # 0
  BY UndecidedIs DEF AsRead, Inv, Paths, Found, Over, Clock, Frame
<1>2. Store!Decide(c, o) => Store!Conclude(c)
  BY <1>1, AskedIs DEF Store!Conclude, Frame
<1>3. CASE call[c].kind = "head"
  <2>1. End(c, "done")
    BY <1>3 DEF Clock
  <2> QED
    BY <1>1, <1>2, <2>1, EndDecides DEF Store!Next
<1>4. CASE call[c].kind # "head"
  <2>1. PICK l \in {"body", "end"} : pc' = [pc EXCEPT ![c] = l]
    BY <1>4 DEF Clock
  <2>2. CASE Awaited(c)
    <3>1. outcome' = [outcome EXCEPT ![c] = o]
      BY <1>1, <2>2 DEF Answer
    <3>2. \A d \in Calls : State(d)' = State(d)
      BY <1>1, <2>1, GoesOn DEF Points
    <3> QED
      BY <1>1, <1>2, <3>1, <3>2, Decides DEF Store!Next, Frame
  <2>3. CASE ~Awaited(c)
    BY <1>1, <2>1, <2>3, Inner DEF Answer, Points
  <2> QED
    BY <2>2, <2>3
<1> QED
  BY <1>3, <1>4

(* The moment a write takes effect. *)
LEMMA CommitStep ==
    ASSUME Inv, NEW c \in Calls, Commit(c)
    PROVE  Store!Next \/ UNCHANGED Store!vars
<1>1. /\ pc[c] = "commit" /\ ~Over(c) /\ TypeOK /\ Store!Undecided(c)
      /\ call[c].kind \in {"put", "touch", "delete", "purge"}
      /\ UNCHANGED <<now, call, since>>
  BY UndecidedIs DEF Inv, Paths, Found, Over, Commit
<1>2. Drafting(c)
  BY <1>1, Owns DEF Drafting, Inside, Commit
<1>3. Draft(c, db') /\ Granted(c) /\ db' \in Row
  BY <1>1, <1>2, OwnDraft, RowsType DEF Commit, Inv, TypeOK
<1>4. \A d \in Calls : State(d)' = State(d)
  <2>1. pc' = [pc EXCEPT ![c] = "leave"]
    BY DEF Commit
  <2> QED
    BY <1>1, <2>1, GoesOn DEF Points
<1>5. /\ now \in Nat /\ since[c] \in Nat /\ call[c].ttl \in Nat /\ db \in Row /\ used \subseteq Nat
      /\ since[c] <= now /\ (db.token = 0 => db.expires = 0)
  BY <1>1 DEF Inv, TypeOK, Stored
<1>6. /\ Store!WasLive(c) <=> WasLive(c)
      /\ Store!Live(Entry(db), now) <=> ~NotLive(db, now)
      /\ Store!Held(Entry(db), now) = IF NotLive(db, now) THEN 0 ELSE db.token
  BY <1>5 DEF Store!WasLive, WasLive, Store!Live, Store!Held, Store!Absent, NotLive, Entry, Row
<1>7. \A e \in Nat : InTime(c, e) => e \in Store!Expiries(c)
  <2> SUFFICES ASSUME NEW e \in Nat, InTime(c, e)
               PROVE  e \in Store!Expiries(c)
    OBVIOUS
  <2>1. CASE call[c].ttl = 0
    BY <1>1, <2>1, AskedIs DEF InTime, Store!Expiries
  <2>2. CASE call[c].ttl # 0
    <3>1. e - call[c].ttl \in since[c]..now /\ e = (e - call[c].ttl) + call[c].ttl
      BY <1>5, <2>2 DEF InTime
    <3> QED
      BY <1>1, <2>2, <3>1, AskedIs DEF Store!Expiries
  <2> QED
    BY <2>1, <2>2
<1>8. CASE call[c].kind = "put"
  <2>1. /\ db'.token \notin used \cup {0} /\ db'.token \in Nat
        /\ db'.expires \in Store!Expiries(c)
    BY <1>1, <1>3, <1>7, <1>8 DEF Draft, Row
  <2>2. Entry(db)' \in [token : Nat \ (used \cup {0}), expires : Store!Expiries(c)]
    BY <2>1 DEF Entry
  <2>3. used' = used \cup {Entry(db)'.token} /\ seen' = [seen EXCEPT ![c] = Entry(db)']
    BY <1>8, <2>1 DEF Commit, Entry
  <2>4. Store!Matches(c)
    BY <1>1, <1>3, <1>6, <1>8, AskedIs DEF Granted, Store!Matches, Entry
  <2>5. Store!Decide(c, "ok")
    BY <1>1, <1>4, <1>8, Decides DEF Commit
  <2>6. Store!Put(c)
    BY <1>1, <1>8, <2>2, <2>3, <2>4, <2>5, AskedIs DEF Store!Put, AsRead
  <2> QED
    BY <2>6 DEF Store!Next
<1>9. CASE call[c].kind = "touch"
  <2>1. db'.token = db.token /\ db'.expires \in Store!Expiries(c)
    BY <1>1, <1>3, <1>7, <1>9 DEF Draft, Row
  <2>2. Entry(db)' = [Entry(db) EXCEPT !.expires = db'.expires]
    BY <2>1 DEF Entry
  <2>3. seen' = [seen EXCEPT ![c] = Entry(db)'] /\ UNCHANGED used
    BY <1>3, <1>9, <2>1 DEF Commit, Inv, Stored
  <2>4. Store!WasLive(c) /\ call[c].match \in {Anything, Entry(db).token}
    BY <1>3, <1>6, <1>9 DEF Granted, Entry
  <2>5. Store!Decide(c, "ok")
    BY <1>1, <1>4, <1>9, Decides DEF Commit
  <2>6. Store!Touch(c)
    BY <1>1, <1>9, <2>1, <2>2, <2>3, <2>4, <2>5, AskedIs DEF Store!Touch, AsRead
  <2> QED
    BY <2>6 DEF Store!Next
<1>10. CASE call[c].kind = "delete"
  <2> DEFINE o == IF until[c] = 0 THEN "missing" ELSE "ok"
  <2>1. Entry(db)' = Store!NoDoc /\ UNCHANGED used
    BY <1>1, <1>3, <1>10 DEF Draft, Entry, Store!NoDoc, Commit
  <2>2. UNCHANGED seen /\ outcome' = [outcome EXCEPT ![c] = o]
    BY <1>10 DEF Commit
  <2>3. Store!Matches(c)
    BY <1>1, <1>3, <1>6, <1>10, AskedIs DEF Granted, Store!Matches, Entry
  <2>4. Store!Decide(c, o)
    BY <1>1, <1>4, <2>2, Decides
  <2>5. IF until[c] = 0 THEN ~Store!Live(Entry(db), now) ELSE Store!WasLive(c)
    BY <1>3, <1>6, <1>10 DEF Granted
  <2>6. Store!Delete(c)
    BY <1>1, <1>10, <2>1, <2>2, <2>3, <2>4, <2>5, AskedIs DEF Store!Delete, AsRead
  <2> QED
    BY <2>6 DEF Store!Next
<1>11. CASE call[c].kind = "purge"
  <2>1. UNCHANGED <<seen, outcome>> /\ used' = used \cup ({db'.token} \ {0})
    BY <1>11 DEF Commit
  <2>2. db' = db \/ (db' = NoRow /\ NotLive(db, now))
    BY <1>1, <1>3, <1>11 DEF Draft
  <2>3. CASE db' = db
    BY <1>1, <1>4, <2>1, <2>3, Stutters DEF Frame, Inv, Stored
  <2>4. CASE db' = NoRow /\ NotLive(db, now) /\ db' # db
    <3>1. Entry(db)' = Store!NoDoc /\ UNCHANGED used
      BY <2>1, <2>4 DEF Entry, NoRow, Store!NoDoc
    <3>2. db.token # 0
      <4> SUFFICES ASSUME db.token = 0 PROVE db = NoRow
        BY <2>4
      <4> QED
        BY <1>5 DEF Inv, Stored, NoRow, Row
    <3>3. ~Store!Live(Entry(db), now) /\ Entry(db).token # 0
      BY <1>6, <2>4, <3>2 DEF Entry
    <3>4. Store!Expire
      BY <1>1, <1>4, <2>1, <3>1, <3>3 DEF Store!Expire, Store!callvars
    <3> QED
      BY <3>4 DEF Store!Next
  <2> QED
    BY <2>2, <2>3, <2>4
<1> QED
  BY <1>1, <1>8, <1>9, <1>10, <1>11

LEMMA BeginStep ==
    ASSUME Inv, NEW c \in Calls, NEW r \in Requests, Begin(c, r)
    PROVE  Store!Next
<1> DEFINE q == [r EXCEPT !.kind = AsRead(@)]
<1>1. /\ UNCHANGED <<now, db, used, seen, outcome>> /\ pc[c] = "idle" /\ r.kind \in Kinds
      /\ pc' = [pc EXCEPT ![c] = "wait"] /\ call' = [call EXCEPT ![c] = r]
      /\ since' = [since EXCEPT ![c] = now] /\ TypeOK
  BY DEF Begin, Inv
<1>2. State(c) = "idle" /\ State(c)' = "called" /\ \A d \in Calls \ {c} : State(d)' = State(d)
  BY <1>1, Moves, StateIs DEF Points
<1>3. q \in Store!Requests
  <2>1. CASE r \in Store!Requests /\ r.kind # "head"
    <3>1. q = r
      BY <2>1 DEF AsRead, Store!Requests
    <3> QED
      BY <2>1, <3>1
  <2>2. CASE r \notin Store!Requests
    <3>1. PICK p \in Store!Requests : p.kind = "read" /\ r = [p EXCEPT !.kind = "head"]
      BY <2>2 DEF Requests
    <3>2. q = p
      BY <3>1 DEF AsRead, Store!Requests
    <3> QED
      BY <3>2
  <2>3. \A k : AsRead(k) # "head"
    BY DEF AsRead
  <2>4. r \in Store!Requests => r.kind # "head"
    BY <2>3 DEF Store!Requests
  <2> QED
    BY <2>1, <2>2, <2>4
<1>4. [d \in Calls |-> [call'[d] EXCEPT !.kind = AsRead(@)]]
        = [[d \in Calls |-> [call[d] EXCEPT !.kind = AsRead(@)]] EXCEPT ![c] = q]
  <2>1. \A d \in Calls : call'[d] = IF d = c THEN r ELSE call[d]
    BY <1>1 DEF TypeOK
  <2> QED
    BY <2>1
<1>5. [d \in Calls |-> State(d)'] = [[d \in Calls |-> State(d)] EXCEPT ![c] = "called"]
  BY <1>2
<1>6. Store!Begin(c, q)
  BY <1>1, <1>2, <1>4, <1>5 DEF Store!Begin
<1> QED
  BY <1>3, <1>6 DEF Store!Next

LEMMA CancelStep ==
    ASSUME Inv, NEW c \in Calls, Cancel(c)
    PROVE  Store!Next \/ UNCHANGED Store!vars
<1>1. Frame /\ UNCHANGED outcome /\ TypeOK
  BY DEF Cancel, Frame, Inv
<1>2. CASE UNCHANGED pc
  BY <1>1, <1>2, Stutters DEF State
<1>3. CASE pc[c] \in {"wait", "start"} /\ pc' = [pc EXCEPT ![c] = "failed"]
  <2>1. State(c) = "called" /\ State(c)' = "failed" /\ \A d \in Calls \ {c} : State(d)' = State(d)
    BY <1>1, <1>3, Moves, StateIs DEF Points, Over
  <2>2. Store!Fail({c})
    BY <1>1, <2>1, Fails
  <2> QED
    BY <2>2 DEF Store!Next
<1> QED
  BY <1>2, <1>3 DEF Cancel

LEMMA CrashStep ==
    ASSUME Inv, NEW s \in Stores, Crash(s)
    PROVE  Store!Next
<1> DEFINE cs == {c \in Calls : at[c] = s /\ ~Over(c)}
<1>1. Frame /\ UNCHANGED outcome /\ TypeOK
  BY DEF Crash, Frame, Inv
<1>2. \A d \in Calls : pc'[d] = IF d \in cs THEN "failed" ELSE pc[d]
  BY DEF Crash
<1>3. \A d \in Calls : State(d)' = IF d \in cs THEN "failed" ELSE State(d)
  BY <1>2 DEF State
<1>4. \A d \in cs : State(d) = "called"
  BY <1>1, StateIs
<1>5. Store!Fail(cs)
  BY <1>1, <1>3, <1>4, Fails
<1> QED
  BY <1>5 DEF Store!Next

(* Every step of SqliteStore is a step of DocumentStore or a stutter. *)
LEMMA NextStep ==
    ASSUME Inv, "joined" \notin Features, [Next]_vars
    PROVE  [Store!Next]_(Store!vars)
<1>1. CASE Tick
  <2>1. Store!Tick
    BY <1>1 DEF Tick, Store!Tick, Store!callvars, State
  <2> QED
    BY <2>1 DEF Store!Next
<1>2. CASE \E s \in Stores : CloseStore(s)
  BY <1>2, Stutters DEF CloseStore, Frame, State
<1>3. CASE \E s \in Stores : Crash(s)
  BY <1>3, CrashStep
<1>4. CASE \E c \in Calls : Step(c)
  BY <1>4, InnerSteps, RaiseSteps, SelectEntryStep, ClockStep, EndReadStep, RefuseStep, CommitStep,
     LeaveStep DEF Step, InnerStep
<1>5. CASE \E c \in Calls : Cancel(c) \/ \E r \in Requests : Begin(c, r)
  BY <1>5, CancelStep, BeginStep
<1>6. CASE UNCHANGED vars
  BY <1>6, Stutters DEF vars, Frame, State
<1> QED
  BY <1>1, <1>2, <1>3, <1>4, <1>5, <1>6 DEF Next

LEMMA InitStep == Init => Store!Init
<1> SUFFICES ASSUME Init PROVE Store!Init
  OBVIOUS
<1> USE DEF Init
<1>1. Entry(db) \in {Store!NoDoc} \cup {[token |-> 1, expires |-> e] : e \in {0} \cup 2..MaxTime}
      /\ Entry(db).token = db.token
  BY DEF Entry, NoRow, Store!NoDoc
<1>2. [c \in Calls |-> [call[c] EXCEPT !.kind = AsRead(@)]] = [c \in Calls |-> Store!NoCall]
  BY DEF Store!NoCall, AsRead
<1>3. [c \in Calls |-> State(c)] = [c \in Calls |-> "idle"]
  BY DEF State
<1> QED
  BY <1>1, <1>2, <1>3 DEF Store!Init

(* The SQLite store keeps the promises of DocumentStore, unless head()     *)
(* reads in the transaction of a cancelled call: a call takes effect whole *)
(* and once, when it commits, under the condition it was given, whichever  *)
(* calls are cancelled under their threads, whichever statements fail and  *)
(* whichever processes die.                                                *)
THEOREM Refinement == "joined" \notin Features => (Spec => Implements)
<1> SUFFICES ASSUME "joined" \notin Features
             PROVE  Spec => Implements
  OBVIOUS
<1>1. Init => Store!Init
  BY InitStep
<1>2. Inv /\ [Next]_vars => [Store!Next]_(Store!vars)
  BY NextStep
<1> QED
  BY <1>1, <1>2, Invariant, PTL DEF Spec, Implements, Store!Spec
=============================================================================
