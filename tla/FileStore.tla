----------------------------- MODULE FileStore -----------------------------
(***************************************************************************)
(* The file store of python/src/atomdoc/_store_file.py, for one key:       *)
(* several store objects (of one process or of many) over one directory,   *)
(* each call running in a thread of its own.  A writer takes the thread    *)
(* lock of its store object and then an flock on the lock file, makes sure *)
(* that the file it locked is still the one at that path, and replaces the *)
(* document by renaming a temporary file.  Readers take no lock.           *)
(*                                                                         *)
(* The variables now, used, call, since, seen and outcome are those of     *)
(* DocumentStore; file is its doc.  The clock moves between any two steps. *)
(* A step is what a thread does up to its next system call that another    *)
(* process or thread can see.                                              *)
(***************************************************************************)
EXTENDS Naturals, FiniteSets

CONSTANTS
    Calls, Kinds, Anything, MaxTime, MaxTtl,
    Stores,     \* store objects, each opened once (a restart is a new one)
    None,       \* nobody
    Grace,      \* _TMP_GRACE
    MaxInodes,  \* bound: lock files ever created
    Features    \* what may happen besides calls:
                \*  "unlink"  the lock file is removed while nobody writes
                \*  "ioerror" a write, or the sync after it, fails
                \*  "crash"   a process dies
                \*  "close"   stores are closed, once their calls are over
                \*  "cancel"  or while the thread of a cancelled call runs on

ASSUME FileStoreAssumption ==
    /\ MaxTime \in Nat \ {0} /\ MaxTtl \in Nat /\ Grace \in Nat /\ MaxInodes \in Nat
    /\ None \notin Stores \cup Calls
    /\ Anything \notin Nat

VARIABLES
    now, file, used, call, since, seen, outcome,
    at,         \* the store object each call is made of
    pc,         \* where its thread is
    writes,     \* tokens made so far (each is unlike any other)
    minted,     \* the token a put is about to write
    until,      \* the expiry a put or touch is about to write
    got,        \* the lock file a call has opened (its inode; 0 none)
    tmp,        \* the temporary file of a call: when it was written, or 0
    status,     \* of a store: "new", "up", "closed" or "crashed"
    tlock,      \* _thread_lock: the call that holds it
    fd,         \* _lock_fd: the inode it is open on, 0 for None
    flock,      \* for each inode, the store object whose flock it is
    lockfile,   \* the inode at _lock_path, 0 if there is none
    inodes      \* inodes created so far

data    == <<now, file, used>>
request == <<call, since>>
writing == <<writes, minted, until, tmp>>
locks   == <<tlock, fd, flock, lockfile, inodes>>
vars    == <<data, request, seen, outcome, at, pc, writing, got, status, locks>>

State(c) ==
    CASE pc[c] = "idle" -> "idle"
      [] pc[c] = "done" -> "returned"
      [] pc[c] \in {"failed", "crashed"} -> "failed"
      [] OTHER -> "called"

(* What this store is to implement. *)
Store == INSTANCE DocumentStore WITH doc <- file, state <- [c \in Calls |-> State(c)]

Live(e) == Store!Live(e, now)

Over(c) == pc[c] \in {"idle", "done", "failed", "crashed"}

(* A thread inside _locked(). *)
Inside == {"check", "write", "unlink", "sync", "leave", "fail"}

(* A thread that has the thread lock. *)
Queued == Inside \cup {"open", "flock", "current"}

Inodes == 1..MaxInodes

Goto(c, l) == pc' = [pc EXCEPT ![c] = l]

-----------------------------------------------------------------------------
Init ==
    /\ pc = [c \in Calls |-> "idle"]
    /\ Store!Init
    /\ at \in [Calls -> Stores]
    /\ writes = 1
    /\ minted = [c \in Calls |-> 0] /\ until = [c \in Calls |-> 0]
    /\ got = [c \in Calls |-> 0] /\ tmp = [c \in Calls |-> 0]
    /\ status = [s \in Stores |-> "new"]
    /\ tlock = [s \in Stores |-> None] /\ fd = [s \in Stores |-> 0]
    /\ flock = [i \in Inodes |-> None] /\ lockfile = 0 /\ inodes = 0

Tick ==
    /\ now < MaxTime
    /\ now' = now + 1
    /\ UNCHANGED <<file, used, request, seen, outcome, at, pc, writing, got,
                   status, locks>>

(* The document is replaced (or written for the first time). *)
Rename(e) ==
    /\ file' = e
    /\ used' = used \cup {e.token}
    /\ UNCHANGED now

(* The document is removed. *)
Remove ==
    /\ file' = Store!NoDoc
    /\ UNCHANGED <<now, used>>

(* _sweep_temps: a temporary file that is old is a crash's litter. *)
SweepTemps ==
    tmp' = [d \in Calls |-> IF now > tmp[d] + Grace THEN 0 ELSE tmp[d]]

-----------------------------------------------------------------------------
(* The store objects.                                                      *)

(* open(_lock_path, O_RDWR | O_CREAT) *)
OpenLock(s) ==
    LET i == IF lockfile = 0 THEN inodes + 1 ELSE lockfile IN
    /\ i <= MaxInodes
    /\ lockfile' = i
    /\ inodes' = IF lockfile = 0 THEN i ELSE inodes
    /\ fd' = [fd EXCEPT ![s] = i]

(* __init__ *)
OpenStore(s) ==
    /\ status[s] = "new"
    /\ status' = [status EXCEPT ![s] = "up"]
    /\ OpenLock(s)
    /\ SweepTemps
    /\ UNCHANGED <<data, request, seen, outcome, at, pc, writes, minted, until,
                   got, tlock, flock>>

(* The flocks that outlive the closing of a descriptor of s. *)
Unlocked(s) == [i \in Inodes |-> IF flock[i] = s THEN None ELSE flock[i]]

(* aclose: the lock file is closed, and with it goes the flock. *)
CloseStore(s) ==
    /\ "close" \in Features /\ status[s] = "up"
    /\ "cancel" \in Features \/ \A c \in Calls : at[c] = s => Over(c)
    /\ status' = [status EXCEPT ![s] = "closed"]
    /\ fd' = [fd EXCEPT ![s] = 0]
    /\ flock' = Unlocked(s)
    /\ UNCHANGED <<data, request, seen, outcome, at, pc, writing, got, tlock,
                   lockfile, inodes>>

(* The process of a store dies: the kernel releases its flock, its threads *)
(* end where they are and a temporary file stays.                          *)
Crash(s) ==
    /\ "crash" \in Features /\ status[s] = "up"
    /\ status' = [status EXCEPT ![s] = "crashed"]
    /\ fd' = [fd EXCEPT ![s] = 0]
    /\ flock' = Unlocked(s)
    /\ pc' = [c \in Calls |-> IF at[c] = s /\ ~Over(c) THEN "crashed" ELSE pc[c]]
    /\ UNCHANGED <<data, request, seen, outcome, at, writing, got, tlock,
                   lockfile, inodes>>

(* Somebody removes the lock file, while nobody is inside. *)
RemoveLockFile ==
    /\ "unlink" \in Features /\ lockfile # 0 /\ inodes < MaxInodes
    /\ \A c \in Calls : pc[c] \notin Inside
    /\ lockfile' = 0
    /\ UNCHANGED <<data, request, seen, outcome, at, pc, writing, got, status,
                   tlock, fd, flock, inodes>>

-----------------------------------------------------------------------------
(* A call, up to the lock.                                                 *)

Begin(c, r) ==
    /\ pc[c] = "idle" /\ status[at[c]] = "up"
    /\ call' = [call EXCEPT ![c] = r]
    /\ since' = [since EXCEPT ![c] = now]
    /\ Goto(c, CASE r.kind = "read" -> "look"
                 [] r.kind = "purge" -> "walk"
                 [] OTHER -> "lock")
    /\ UNCHANGED <<data, seen, outcome, at, writing, got, status, locks>>

(* Mutant: threads of one store share the descriptor, and so the flock. *)
AcquireThreadLockNever(c) ==
    /\ pc[c] = "lock"
    /\ Goto(c, "open")
    /\ UNCHANGED <<data, request, seen, outcome, at, writing, got, status, locks>>

AcquireThreadLock(c) ==
    /\ pc[c] = "lock" /\ tlock[at[c]] = None
    /\ tlock' = [tlock EXCEPT ![at[c]] = c]
    /\ Goto(c, "open")
    /\ UNCHANGED <<data, request, seen, outcome, at, writing, got, status, fd,
                   flock, lockfile, inodes>>

(* An exception before the lock is had: the thread lock is released. *)
GiveUp(c) ==
    /\ Goto(c, "failed")
    /\ tlock' = [tlock EXCEPT ![at[c]] = None]

(* _open, and the call of flock; StoreClosed if the store is closed. *)
OpenForLock(c) ==
    /\ pc[c] = "open"
    /\ IF fd[at[c]] = 0
         THEN GiveUp(c) /\ UNCHANGED got
         ELSE /\ got' = [got EXCEPT ![c] = fd[at[c]]]
              /\ Goto(c, "flock")
              /\ UNCHANGED tlock
    /\ UNCHANGED <<data, request, seen, outcome, at, writing, status, fd, flock,
                   lockfile, inodes>>

(* flock is granted; on a descriptor closed meanwhile it is lost at once   *)
(* and the next use of the descriptor raises.                              *)
TakeFlock(c) ==
    /\ pc[c] = "flock" /\ flock[got[c]] \in {None, at[c]}
    /\ IF fd[at[c]] = got[c]
         THEN /\ flock' = [flock EXCEPT ![got[c]] = at[c]]
              /\ Goto(c, "current")
              /\ UNCHANGED tlock
         ELSE GiveUp(c) /\ UNCHANGED flock
    /\ UNCHANGED <<data, request, seen, outcome, at, writing, got, status, fd,
                   lockfile, inodes>>

(* Mutant: the lock is not compared with the file at its path. *)
CheckCurrentNever(c) ==
    /\ pc[c] = "current"
    /\ IF fd[at[c]] # got[c]
         THEN GiveUp(c) /\ UNCHANGED <<fd, flock, lockfile, inodes>>
         ELSE Goto(c, "check") /\ UNCHANGED <<tlock, fd, flock, lockfile, inodes>>
    /\ UNCHANGED <<data, request, seen, outcome, at, writing, got, status>>

(* _lock_is_current: inside, or unlock, open the new lock file and retry. *)
CheckCurrent(c) ==
    /\ pc[c] = "current"
    /\ IF fd[at[c]] # got[c]
         THEN GiveUp(c) /\ UNCHANGED <<fd, flock, lockfile, inodes>>
         ELSE /\ UNCHANGED tlock
              /\ IF got[c] = lockfile
                   THEN Goto(c, "check") /\ UNCHANGED <<fd, flock, lockfile, inodes>>
                   ELSE /\ flock' = Unlocked(at[c])
                        /\ OpenLock(at[c])
                        /\ Goto(c, "open")
    /\ UNCHANGED <<data, request, seen, outcome, at, writing, got, status>>

-----------------------------------------------------------------------------
(* Inside the lock.                                                        *)

(* Mutant: only the condition that there is nothing is checked. *)
RefusedIfAbsentOnly(c) == call[c].match = Store!Absent /\ Live(file)

Refused(c) ==
    /\ call[c].match \notin {Anything, Store!Held(file, now)}
    /\ call[c].kind = "touch" => Live(file)

(* StaleWrite, or DocumentNotFound for a touch. *)
CheckRefuses(c) ==
    /\ pc[c] = "check" /\ call[c].kind # "purge"
    /\ \/ Refused(c) /\ outcome' = [outcome EXCEPT ![c] = "stale"]
       \/ /\ call[c].kind = "touch" /\ ~Live(file)
          /\ outcome' = [outcome EXCEPT ![c] = "missing"]
    /\ Goto(c, "leave")
    /\ UNCHANGED <<data, request, seen, at, writing, got, status, locks>>

Expiry(c) == IF call[c].ttl = 0 THEN 0 ELSE now + call[c].ttl

(* The token is new, and the temporary file is written. *)
CheckPut(c) ==
    /\ pc[c] = "check" /\ call[c].kind = "put" /\ ~Refused(c)
    /\ writes' = writes + 1
    /\ minted' = [minted EXCEPT ![c] = writes + 1]
    /\ until' = [until EXCEPT ![c] = Expiry(c)]
    /\ tmp' = [tmp EXCEPT ![c] = now]
    /\ Goto(c, "write")
    /\ UNCHANGED <<data, request, seen, outcome, at, got, status, locks>>

(* Mutant: renewing a lease names a new write. *)
CheckTouchNewToken(c) ==
    /\ pc[c] = "check" /\ call[c].kind = "touch" /\ ~Refused(c) /\ Live(file)
    /\ writes' = writes + 1
    /\ minted' = [minted EXCEPT ![c] = writes + 1]
    /\ until' = [until EXCEPT ![c] = Expiry(c)]
    /\ tmp' = [tmp EXCEPT ![c] = now]
    /\ Goto(c, "write")
    /\ UNCHANGED <<data, request, seen, outcome, at, got, status, locks>>

(* The token is the stored one. *)
CheckTouch(c) ==
    /\ pc[c] = "check" /\ call[c].kind = "touch" /\ ~Refused(c) /\ Live(file)
    /\ minted' = [minted EXCEPT ![c] = file.token]
    /\ until' = [until EXCEPT ![c] = Expiry(c)]
    /\ tmp' = [tmp EXCEPT ![c] = now]
    /\ Goto(c, "write")
    /\ UNCHANGED <<data, request, seen, outcome, at, writes, got, status, locks>>

(* minted remembers whether the document was there. *)
CheckDelete(c) ==
    /\ pc[c] = "check" /\ call[c].kind = "delete" /\ ~Refused(c)
    /\ minted' = [minted EXCEPT ![c] = Store!Held(file, now)]
    /\ Goto(c, "unlink")
    /\ UNCHANGED <<data, request, seen, outcome, at, writes, until, tmp, got,
                   status, locks>>

(* os.replace *)
Replace(c) ==
    LET e == [token |-> minted[c], expires |-> until[c]] IN
    /\ pc[c] = "write" /\ tmp[c] # 0
    /\ Rename(e)
    /\ seen' = [seen EXCEPT ![c] = e]
    /\ outcome' = [outcome EXCEPT ![c] = "ok"]
    /\ tmp' = [tmp EXCEPT ![c] = 0]
    /\ Goto(c, "sync")
    /\ UNCHANGED <<request, at, writes, minted, until, got, status, locks>>

(* Mutant: the temporary file is left behind. *)
WriteFailsLittering(c) ==
    /\ pc[c] = "write" /\ ("ioerror" \in Features \/ tmp[c] = 0)
    /\ Goto(c, "fail")
    /\ UNCHANGED <<data, request, seen, outcome, at, writing, got, status, locks>>

(* The temporary file could not be written, or was swept meanwhile. *)
WriteFails(c) ==
    /\ pc[c] = "write" /\ ("ioerror" \in Features \/ tmp[c] = 0)
    /\ tmp' = [tmp EXCEPT ![c] = 0]
    /\ Goto(c, "fail")
    /\ UNCHANGED <<data, request, seen, outcome, at, writes, minted, until, got,
                   status, locks>>

(* The directory is synced; that may fail, when the document is replaced. *)
Sync(c) ==
    /\ pc[c] = "sync"
    /\ \/ Goto(c, "leave")
       \/ "ioerror" \in Features /\ Goto(c, "fail")
    /\ UNCHANGED <<data, request, seen, outcome, at, writing, got, status, locks>>

Unlink(c) ==
    /\ pc[c] = "unlink"
    /\ IF file = Store!NoDoc THEN UNCHANGED data ELSE Remove
    /\ outcome' = [outcome EXCEPT ![c] =
                     IF file = Store!NoDoc \/ minted[c] = 0 THEN "missing" ELSE "ok"]
    /\ Goto(c, "leave")
    /\ UNCHANGED <<request, seen, at, writing, got, status, locks>>

(* Mutant: an unlock that raises leaves the thread lock behind. *)
LeaveHolding(c) ==
    /\ pc[c] \in {"leave", "fail"}
    /\ IF fd[at[c]] = got[c]
         THEN /\ flock' = [flock EXCEPT ![got[c]] = None]
              /\ tlock' = [tlock EXCEPT ![at[c]] = None]
         ELSE UNCHANGED <<flock, tlock>>
    /\ Goto(c, IF pc[c] = "fail" \/ fd[at[c]] # got[c] THEN "failed"
               ELSE IF call[c].kind = "purge" THEN "sweep" ELSE "done")
    /\ UNCHANGED <<data, request, seen, outcome, at, writing, got, status, fd,
                   lockfile, inodes>>

(* __exit__: on a descriptor closed meanwhile the unlock raises, and the   *)
(* thread lock is released all the same.                                   *)
Leave(c) ==
    /\ pc[c] \in {"leave", "fail"}
    /\ flock' = IF fd[at[c]] = got[c] THEN [flock EXCEPT ![got[c]] = None] ELSE flock
    /\ tlock' = [tlock EXCEPT ![at[c]] = None]
    /\ Goto(c, IF pc[c] = "fail" \/ fd[at[c]] # got[c] THEN "failed"
               ELSE IF call[c].kind = "purge" THEN "sweep" ELSE "done")
    /\ UNCHANGED <<data, request, seen, outcome, at, writing, got, status, fd,
                   lockfile, inodes>>

-----------------------------------------------------------------------------
(* Purging.                                                                *)

PurgeWalk(c) ==
    /\ pc[c] = "walk"
    /\ Goto(c, IF file = Store!NoDoc THEN "sweep" ELSE "lock")
    /\ UNCHANGED <<data, request, seen, outcome, at, writing, got, status, locks>>

(* Mutant: what was expired when it was listed is removed. *)
CheckPurgeListed(c) ==
    /\ pc[c] = "check" /\ call[c].kind = "purge"
    /\ IF file = Store!NoDoc THEN UNCHANGED data ELSE Remove
    /\ Goto(c, "leave")
    /\ UNCHANGED <<request, seen, outcome, at, writing, got, status, locks>>

(* Read again under the lock; removed if it is still expired. *)
CheckPurge(c) ==
    /\ pc[c] = "check" /\ call[c].kind = "purge"
    /\ IF file = Store!NoDoc \/ Live(file) THEN UNCHANGED data ELSE Remove
    /\ Goto(c, "leave")
    /\ UNCHANGED <<request, seen, outcome, at, writing, got, status, locks>>

Sweep(c) ==
    /\ pc[c] = "sweep"
    /\ SweepTemps
    /\ outcome' = [outcome EXCEPT ![c] = "ok"]
    /\ Goto(c, "done")
    /\ UNCHANGED <<data, request, seen, at, writes, minted, until, got, status,
                   locks>>

-----------------------------------------------------------------------------
(* Reading, without a lock: the file is opened, and its content is that    *)
(* of the file opened whatever replaces it; the clock is read last.        *)

Look(c) ==
    /\ pc[c] = "look"
    /\ IF file = Store!NoDoc
         THEN /\ outcome' = [outcome EXCEPT ![c] = "missing"]
              /\ Goto(c, "done")
              /\ UNCHANGED seen
         ELSE /\ seen' = [seen EXCEPT ![c] = file]
              /\ Goto(c, "clock")
              /\ UNCHANGED outcome
    /\ UNCHANGED <<data, request, at, writing, got, status, locks>>

Conclude(c) ==
    /\ pc[c] = "clock"
    /\ outcome' = [outcome EXCEPT ![c] = IF Live(seen[c]) THEN "ok" ELSE "missing"]
    /\ Goto(c, "done")
    /\ UNCHANGED <<data, request, seen, at, writing, got, status, locks>>

-----------------------------------------------------------------------------
Step(c) ==
    \/ AcquireThreadLock(c) \/ OpenForLock(c) \/ TakeFlock(c) \/ CheckCurrent(c)
    \/ CheckRefuses(c) \/ CheckPut(c) \/ CheckTouch(c) \/ CheckDelete(c)
    \/ Replace(c) \/ WriteFails(c) \/ Sync(c) \/ Unlink(c) \/ Leave(c)
    \/ PurgeWalk(c) \/ CheckPurge(c) \/ Sweep(c)
    \/ Look(c) \/ Conclude(c)

Environment ==
    \/ Tick \/ RemoveLockFile
    \/ \E s \in Stores : OpenStore(s) \/ CloseStore(s) \/ Crash(s)
    \/ \E c \in Calls, r \in Store!Requests : Begin(c, r)

Next == Environment \/ \E c \in Calls : Step(c)

Spec == Init /\ [][Next]_vars

(* The operating system runs every thread that can go on. *)
FairSpec == Spec /\ \A c \in Calls : WF_vars(Step(c))

-----------------------------------------------------------------------------
(* Properties.                                                             *)

Pcs == Queued \cup {"idle", "lock", "walk", "sweep", "look", "clock", "done",
                    "failed", "crashed"}
Tokens  == 0..(1 + Cardinality(Calls))
Moments == 0..(MaxTime + MaxTtl)
Entries == [token : Tokens, expires : Moments]

(* Every variable has its type. *)
TypeOK ==
    /\ now \in 1..MaxTime /\ file \in Entries /\ used \subseteq Tokens
    /\ call \in [Calls -> [kind : Kinds \cup {"none"},
                           match : Tokens \cup {Anything}, ttl : 0..MaxTtl]]
    /\ since \in [Calls -> 0..MaxTime] /\ seen \in [Calls -> Entries]
    /\ outcome \in [Calls -> {"none", "ok", "stale", "missing"}]
    /\ at \in [Calls -> Stores] /\ pc \in [Calls -> Pcs]
    /\ writes \in Tokens /\ minted \in [Calls -> Tokens]
    /\ until \in [Calls -> Moments] /\ tmp \in [Calls -> 0..MaxTime]
    /\ got \in [Calls -> 0..MaxInodes]
    /\ status \in [Stores -> {"new", "up", "closed", "crashed"}]
    /\ tlock \in [Stores -> Calls \cup {None}] /\ fd \in [Stores -> 0..MaxInodes]
    /\ flock \in [Inodes -> Stores \cup {None}]
    /\ lockfile \in 0..MaxInodes /\ inodes \in 0..MaxInodes

(* The store keeps the promises of DocumentStore. *)
Implements == Store!Spec

(* "One writer at a time, in this process and across processes": whatever  *)
(* lock files are removed and recreated, and whichever processes die.      *)
OneWriter ==
    \A c, d \in Calls : pc[c] \in Inside /\ pc[d] \in Inside => c = d

(* Of the puts conditioned on one token at most one takes effect, whatever *)
(* store objects they are made of: compare-and-set loses no update.        *)
CasOnce ==
    \A c, d \in Calls :
        /\ c # d /\ call[c].kind = "put" /\ call[d].kind = "put"
        /\ outcome[c] = "ok" /\ outcome[d] = "ok"
        /\ call[c].match = call[d].match
        => call[c].match \in {Anything, Store!Absent}

(* A live document is only ever removed by a delete that found it: never   *)
(* by a purge that listed what was stored there before.                    *)
LiveIsKept ==
    [][Live(file) /\ file' = Store!NoDoc =>
         \E c \in Calls : /\ pc[c] = "unlink" /\ call[c].kind = "delete"
                          /\ minted[c] = file.token]_vars

(* A temporary file belongs to a write in progress, or to a process that   *)
(* died in the middle of one.                                              *)
NoLitter == TypeOK /\ \A c \in Calls : tmp[c] # 0 => pc[c] \in {"write", "crashed"}

(* Every call ends: no lock is left behind by one that failed, or whose    *)
(* store was closed under it.                                              *)
EveryCallEnds == \A c \in Calls : pc[c] # "idle" ~> Over(c)
=============================================================================
