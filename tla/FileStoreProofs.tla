-------------------------- MODULE FileStoreProofs --------------------------
(***************************************************************************)
(* A file store has one writer at a time and keeps the promises of         *)
(* DocumentStore, for any number of store objects, calls and lock files    *)
(* ever created, provided no store is closed under a running call.         *)
(*                                                                         *)
(* Mutual exclusion is not inductive by itself.  A thread inside has three *)
(* things at once, and LockInv names them: the thread lock of its store    *)
(* object, the flock of the file that object has open, and the fact that   *)
(* this file is the one at the lock path.  Two threads inside share the    *)
(* third, so the second, so their store object, so the first.              *)
(*                                                                         *)
(* What the lock protects is Granted: what a writer found when it looked   *)
(* is still so when it renames or unlinks, but for the time that passed.   *)
(* From it follow compare-and-set (a token that was replaced is never the  *)
(* document's again, Spent), that no live document disappears, and the     *)
(* refinement, in which a write takes effect when the file is renamed.     *)
(***************************************************************************)
EXTENDS FileStore, FiniteSetTheorems, TLAPS

AllPcs == Inside \cup {"open", "flock", "current", "idle", "lock", "walk", "sweep",
                       "look", "clock", "done", "failed", "crashed"}

LockTypes ==
    /\ at \in [Calls -> Stores] /\ pc \in [Calls -> AllPcs]
    /\ got \in [Calls -> 0..MaxInodes] /\ status \in [Stores -> {"new", "up", "closed", "crashed"}]
    /\ tlock \in [Stores -> Calls \cup {None}] /\ fd \in [Stores -> 0..MaxInodes]
    /\ flock \in [Inodes -> Stores \cup {None}]
    /\ lockfile \in 0..MaxInodes /\ inodes \in 0..MaxInodes

(* Only store objects that are open run calls. *)
Running == \A c \in Calls : ~Over(c) => status[at[c]] = "up"

(* A thread past the thread lock holds it. *)
ThreadLocked == \A c \in Calls : pc[c] \in Queued => tlock[at[c]] = c

(* An open store has a lock file open, and an flock is of such a file. *)
FilesOpen ==
    /\ \A s \in Stores : status[s] = "up" => fd[s] # 0
    /\ \A i \in Inodes : flock[i] # None => fd[flock[i]] = i /\ status[flock[i]] = "up"

(* A thread past flock() has it, for the file its store has open. *)
FileLocked ==
    \A c \in Calls :
        /\ pc[c] \in Queued \ {"open"} => got[c] = fd[at[c]] /\ got[c] # 0
        /\ pc[c] \in Queued \ {"open", "flock"} => flock[got[c]] = at[c]

(* A thread inside locked the file that is at the lock path. *)
LockIsCurrent == \A c \in Calls : pc[c] \in Inside => got[c] = lockfile

LockInv ==
    /\ LockTypes /\ Running /\ ThreadLocked /\ FilesOpen /\ FileLocked
    /\ LockIsCurrent

Quiet == "cancel" \notin Features

USE FileStoreAssumption

LEMMA InitLocks == Init => LockInv
<1> SUFFICES ASSUME Init PROVE LockInv
  OBVIOUS
<1>1. LockTypes
  BY DEF Init, LockTypes, AllPcs, Inodes
<1>2. \A c \in Calls : pc[c] = "idle"
  BY DEF Init
<1>3. FilesOpen
  BY DEF Init, FilesOpen
<1> QED
  BY <1>1, <1>2, <1>3 DEF LockInv, Running, ThreadLocked, FileLocked,
     LockIsCurrent, Over, Queued, Inside

(* The invariant gives mutual exclusion. *)
LEMMA Exclusion == LockInv => OneWriter
<1> SUFFICES ASSUME LockInv, NEW c \in Calls, NEW d \in Calls,
                    pc[c] \in Inside, pc[d] \in Inside
             PROVE  c = d
  BY DEF OneWriter
<1>1. got[c] = got[d]
  BY DEF LockInv, LockIsCurrent
<1>2. at[c] = at[d]
  BY <1>1 DEF LockInv, FileLocked, Queued, Inside
<1> QED
  BY <1>2 DEF LockInv, ThreadLocked, Queued

(* A step of one thread that stays on its side of the lock. *)
LEMMA LocalStep ==
    ASSUME LockInv, NEW c \in Calls, NEW l \in AllPcs, Goto(c, l),
           UNCHANGED <<at, got, status, locks>>,
           \/ pc[c] \in Inside /\ l \in Inside
           \/ pc[c] \notin Queued /\ l \notin Queued,
           ~Over(c) \/ status[at[c]] = "up"
    PROVE  LockInv'
<1>1. /\ at' = at /\ got' = got /\ status' = status /\ tlock' = tlock /\ fd' = fd
      /\ flock' = flock /\ lockfile' = lockfile /\ inodes' = inodes
      /\ pc' = [pc EXCEPT ![c] = l] /\ pc \in [Calls -> AllPcs]
  BY DEF locks, Goto, LockInv, LockTypes
<1>2. \A d \in Calls : d # c => pc'[d] = pc[d]
  BY <1>1
<1>3. pc'[c] = l
  BY <1>1
<1>4. LockTypes' /\ FilesOpen'
  BY <1>1 DEF LockInv, LockTypes, FilesOpen
<1>5. Running'
  BY <1>1, <1>2, <1>3 DEF LockInv, Running, Over
<1>6. ThreadLocked' /\ LockIsCurrent'
  BY <1>1, <1>2, <1>3 DEF LockInv, ThreadLocked, LockIsCurrent, Queued
<1>7. FileLocked'
  <2> SUFFICES ASSUME NEW d \in Calls
               PROVE  /\ pc'[d] \in Queued \ {"open"} => got[d] = fd[at[d]] /\ got[d] # 0
                      /\ pc'[d] \in Queued \ {"open", "flock"} => flock[got[d]] = at[d]
    BY <1>1 DEF FileLocked
  <2>1. CASE d # c
    BY <1>2, <2>1 DEF LockInv, FileLocked
  <2>2. CASE d = c
    BY <1>3, <2>2 DEF LockInv, FileLocked, Queued, Inside
  <2> QED
    BY <2>1, <2>2
<1> QED
  BY <1>4, <1>5, <1>6, <1>7 DEF LockInv

LEMMA LocalSteps ==
    ASSUME LockInv, NEW c \in Calls,
           \/ CheckRefuses(c) \/ CheckPut(c) \/ CheckTouch(c) \/ CheckDelete(c)
           \/ Replace(c) \/ WriteFails(c) \/ Sync(c) \/ Unlink(c)
           \/ PurgeWalk(c) \/ CheckPurge(c) \/ Sweep(c) \/ Look(c) \/ Conclude(c)
    PROVE  LockInv'
<1> USE DEF AllPcs, Inside, Queued, Over
<1>1. UNCHANGED <<at, got, status, locks>>
  BY DEF CheckRefuses, CheckPut, CheckTouch, CheckDelete, Replace, WriteFails,
     Sync, Unlink, PurgeWalk, CheckPurge, Sweep, Look, Conclude
<1>2. CASE CheckRefuses(c) \/ CheckPurge(c)
  BY <1>1, <1>2, LocalStep DEF CheckRefuses, CheckPurge
<1>3. CASE CheckPut(c) \/ CheckTouch(c)
  BY <1>1, <1>3, LocalStep DEF CheckPut, CheckTouch
<1>4. CASE CheckDelete(c) \/ Unlink(c)
  BY <1>1, <1>4, LocalStep DEF CheckDelete, Unlink
<1>5. CASE Replace(c) \/ WriteFails(c)
  BY <1>1, <1>5, LocalStep DEF Replace, WriteFails
<1>6. CASE Sync(c)
  BY <1>1, <1>6, LocalStep DEF Sync
<1>7. CASE PurgeWalk(c)
  BY <1>1, <1>7, LocalStep DEF PurgeWalk
<1>8. CASE Sweep(c)
  BY <1>1, <1>8, LocalStep DEF Sweep
<1>9. CASE Look(c)
  BY <1>1, <1>9, LocalStep DEF Look
<1>10. CASE Conclude(c)
  BY <1>1, <1>10, LocalStep DEF Conclude
<1> QED
  BY <1>2, <1>3, <1>4, <1>5, <1>6, <1>7, <1>8, <1>9, <1>10

LEMMA BeginLocks ==
    ASSUME LockInv, NEW c \in Calls, NEW r \in Store!Requests, Begin(c, r)
    PROVE  LockInv'
<1>1. /\ pc[c] = "idle" /\ status[at[c]] = "up"
      /\ UNCHANGED <<at, got, status, locks>>
      /\ \E l \in {"look", "walk", "lock"} : Goto(c, l)
  BY DEF Begin
<1> QED
  BY <1>1, LocalStep DEF AllPcs, Inside, Queued, Over

(* What the steps of the lock protocol do to the other threads: nothing,   *)
(* as long as the store objects and their files stay as they are.          *)
LEMMA AcquireLocks ==
    ASSUME LockInv, NEW c \in Calls, AcquireThreadLock(c)
    PROVE  LockInv'
<1>1. /\ pc[c] = "lock" /\ tlock[at[c]] = None
      /\ tlock' = [tlock EXCEPT ![at[c]] = c] /\ pc' = [pc EXCEPT ![c] = "open"]
      /\ at' = at /\ got' = got /\ status' = status /\ fd' = fd /\ flock' = flock
      /\ lockfile' = lockfile /\ inodes' = inodes
  BY DEF AcquireThreadLock, Goto
<1>2. /\ at \in [Calls -> Stores] /\ pc \in [Calls -> AllPcs]
      /\ tlock \in [Stores -> Calls \cup {None}]
  BY DEF LockInv, LockTypes
<1>3. LockTypes'
  BY <1>1, <1>2 DEF LockInv, LockTypes, AllPcs
<1>4. Running' /\ FilesOpen'
  BY <1>1, <1>2 DEF LockInv, Running, FilesOpen, Over
<1>5. ThreadLocked'
  <2> SUFFICES ASSUME NEW d \in Calls, pc'[d] \in Queued
               PROVE  tlock'[at[d]] = d
    BY <1>1 DEF ThreadLocked
  <2>1. CASE d = c
    BY <1>1, <1>2, <2>1
  <2>2. CASE d # c
    <3>1. tlock[at[d]] = d
      BY <1>1, <1>2, <2>2 DEF LockInv, ThreadLocked
    <3>2. at[d] # at[c]
      BY <1>1, <3>1
    <3> QED
      BY <1>1, <1>2, <3>1, <3>2
  <2> QED
    BY <2>1, <2>2
<1>6. FileLocked' /\ LockIsCurrent'
  BY <1>1, <1>2 DEF LockInv, FileLocked, LockIsCurrent, Queued, Inside
<1> QED
  BY <1>3, <1>4, <1>5, <1>6 DEF LockInv

(* Leaving the protocol: the thread lock is released, its holder is past   *)
(* it, and nothing else changes but an flock it may have given back.       *)
LEMMA ReleaseLocks ==
    ASSUME LockInv, NEW c \in Calls, NEW l \in AllPcs \ Queued, pc[c] \in Queued,
           pc' = [pc EXCEPT ![c] = l], tlock' = [tlock EXCEPT ![at[c]] = None],
           UNCHANGED <<at, got, status, fd, lockfile, inodes>>,
           \/ flock' = flock
           \/ flock' = [flock EXCEPT ![got[c]] = None] /\ flock[got[c]] = at[c]
    PROVE  LockInv'
<1>1. /\ at \in [Calls -> Stores] /\ pc \in [Calls -> AllPcs]
      /\ tlock \in [Stores -> Calls \cup {None}]
      /\ flock \in [Inodes -> Stores \cup {None}] /\ fd \in [Stores -> 0..MaxInodes]
      /\ at' = at /\ got' = got /\ status' = status /\ fd' = fd
      /\ lockfile' = lockfile /\ inodes' = inodes
  BY DEF LockInv, LockTypes
<1>2. tlock[at[c]] = c /\ status[at[c]] = "up"
  BY DEF LockInv, ThreadLocked, Running, Queued, Inside, Over
<1>3. \A i \in Inodes : flock'[i] # None => flock'[i] = flock[i]
  BY <1>1
<1>4. LockTypes'
  BY <1>1, <1>3 DEF LockInv, LockTypes
<1>5. Running' /\ LockIsCurrent'
  <2> SUFFICES ASSUME NEW d \in Calls
               PROVE  /\ ~Over(d)' => status'[at[d]] = "up"
                      /\ pc'[d] \in Inside => got[d] = lockfile
    BY <1>1 DEF Running, LockIsCurrent
  <2>1. CASE d = c
    BY <1>1, <1>2, <2>1 DEF Queued
  <2>2. CASE d # c
    BY <1>1, <2>2 DEF LockInv, Running, LockIsCurrent, Over
  <2> QED
    BY <2>1, <2>2
<1>6. FilesOpen'
  BY <1>1, <1>3 DEF LockInv, FilesOpen
<1>7. \A d \in Calls : pc'[d] \in Queued => d # c /\ pc'[d] = pc[d] /\ at[d] # at[c]
  BY <1>1, <1>2 DEF LockInv, ThreadLocked
<1>8. ThreadLocked'
  BY <1>1, <1>7 DEF LockInv, ThreadLocked
<1>9. FileLocked'
  <2> SUFFICES ASSUME NEW d \in Calls, pc'[d] \in Queued
               PROVE  /\ pc'[d] # "open" => got[d] = fd[at[d]] /\ got[d] # 0
                      /\ pc'[d] \notin {"open", "flock"} => flock'[got[d]] = at[d]
    BY <1>1 DEF FileLocked
  <2>1. pc'[d] = pc[d] /\ at[d] # at[c]
    BY <1>7
  <2>2. pc[d] # "open" => got[d] = fd[at[d]] /\ got[d] # 0 /\ got[d] \in Inodes
    BY <1>1, <2>1 DEF LockInv, FileLocked, Inodes
  <2>3. pc[d] \notin {"open", "flock"} => flock[got[d]] = at[d] /\ got[d] \in Inodes
    BY <2>1, <2>2 DEF LockInv, FileLocked
  <2> QED
    BY <1>1, <2>1, <2>2, <2>3
<1> QED
  BY <1>4, <1>5, <1>6, <1>8, <1>9 DEF LockInv

LEMMA OpenForLocks ==
    ASSUME LockInv, NEW c \in Calls, OpenForLock(c)
    PROVE  LockInv'
<1>1. /\ pc[c] = "open" /\ UNCHANGED <<at, status, fd, flock, lockfile, inodes>>
      /\ at \in [Calls -> Stores] /\ pc \in [Calls -> AllPcs]
      /\ got \in [Calls -> 0..MaxInodes] /\ fd \in [Stores -> 0..MaxInodes]
  BY DEF OpenForLock, LockInv, LockTypes
<1>2. status[at[c]] = "up" /\ fd[at[c]] # 0
  BY <1>1 DEF LockInv, Running, FilesOpen, Over
<1>3. /\ got' = [got EXCEPT ![c] = fd[at[c]]] /\ pc' = [pc EXCEPT ![c] = "flock"]
      /\ tlock' = tlock
  BY <1>2 DEF OpenForLock, Goto
<1>4. LockTypes'
  BY <1>1, <1>3 DEF LockInv, LockTypes, AllPcs
<1>5. Running' /\ FilesOpen'
  BY <1>1, <1>3 DEF LockInv, Running, FilesOpen, Over
<1>6. ThreadLocked' /\ LockIsCurrent'
  BY <1>1, <1>3 DEF LockInv, ThreadLocked, LockIsCurrent, Queued, Inside
<1>7. FileLocked'
  <2> SUFFICES ASSUME NEW d \in Calls
               PROVE  /\ pc'[d] \in Queued \ {"open"} => got'[d] = fd[at[d]] /\ got'[d] # 0
                      /\ pc'[d] \in Queued \ {"open", "flock"} => flock[got'[d]] = at[d]
    BY <1>1 DEF FileLocked
  <2>1. CASE d = c
    BY <1>1, <1>2, <1>3, <2>1
  <2>2. CASE d # c
    BY <1>1, <1>3, <2>2 DEF LockInv, FileLocked
  <2> QED
    BY <2>1, <2>2
<1> QED
  BY <1>4, <1>5, <1>6, <1>7 DEF LockInv

(* flock() gives the lock of a file to one store object only. *)
LEMMA TakeLocks ==
    ASSUME LockInv, NEW c \in Calls, TakeFlock(c)
    PROVE  LockInv'
<1>1. /\ pc[c] = "flock" /\ UNCHANGED <<at, got, status, fd, lockfile, inodes>>
      /\ at \in [Calls -> Stores] /\ pc \in [Calls -> AllPcs]
      /\ got \in [Calls -> 0..MaxInodes] /\ flock \in [Inodes -> Stores \cup {None}]
      /\ flock[got[c]] \in {None, at[c]}
  BY DEF TakeFlock, LockInv, LockTypes
<1>2. /\ fd[at[c]] = got[c] /\ got[c] \in Inodes /\ status[at[c]] = "up"
      /\ tlock[at[c]] = c
  <2>1. pc[c] \in Queued /\ pc[c] \in Queued \ {"open"}
    BY <1>1 DEF Queued
  <2>2. fd[at[c]] = got[c] /\ got[c] # 0
    BY <2>1 DEF LockInv, FileLocked
  <2>3. got[c] \in Inodes
    BY <1>1, <2>2 DEF Inodes
  <2>4. tlock[at[c]] = c
    BY <2>1 DEF LockInv, ThreadLocked
  <2>5. ~Over(c)
    BY <1>1 DEF Over
  <2>6. status[at[c]] = "up"
    BY <2>5 DEF LockInv, Running
  <2> QED
    BY <2>2, <2>3, <2>4, <2>6
<1>3. /\ flock' = [flock EXCEPT ![got[c]] = at[c]]
      /\ pc' = [pc EXCEPT ![c] = "current"] /\ tlock' = tlock
  BY <1>2 DEF TakeFlock, Goto
<1>4. LockTypes'
  BY <1>1, <1>2, <1>3 DEF LockInv, LockTypes, AllPcs
<1>5. Running'
  BY <1>1, <1>3 DEF LockInv, Running, Over
<1>6. FilesOpen'
  BY <1>1, <1>2, <1>3 DEF LockInv, FilesOpen
<1>7. ThreadLocked' /\ LockIsCurrent'
  BY <1>1, <1>3 DEF LockInv, ThreadLocked, LockIsCurrent, Queued, Inside
<1>8. FileLocked'
  <2> SUFFICES ASSUME NEW d \in Calls
               PROVE  /\ pc'[d] \in Queued \ {"open"} => got[d] = fd[at[d]] /\ got[d] # 0
                      /\ pc'[d] \in Queued \ {"open", "flock"} => flock'[got[d]] = at[d]
    BY <1>1 DEF FileLocked
  <2>1. CASE d = c
    BY <1>1, <1>2, <1>3, <2>1 DEF Inodes
  <2>2. CASE d # c
    <3>1. pc'[d] = pc[d]
      BY <1>1, <1>3, <2>2
    <3>2. CASE pc[d] \notin Queued \ {"open", "flock"}
      BY <3>1, <3>2 DEF LockInv, FileLocked
    <3>3. CASE pc[d] \in Queued \ {"open", "flock"}
      <4>1. got[d] = fd[at[d]] /\ got[d] # 0 /\ flock[got[d]] = at[d]
        BY <3>3 DEF LockInv, FileLocked
      <4>2. at[d] # at[c]
        BY <1>2, <2>2, <3>3 DEF LockInv, ThreadLocked
      <4>3. got[d] # got[c]
        BY <1>1, <4>1, <4>2
      <4> QED
        BY <1>1, <1>3, <3>1, <4>1, <4>3 DEF Inodes
    <3> QED
      BY <3>2, <3>3
  <2> QED
    BY <2>1, <2>2
<1> QED
  BY <1>4, <1>5, <1>6, <1>7, <1>8 DEF LockInv

(* The lock is kept if its file is the one at the path, and otherwise      *)
(* given back before the new file is opened.                               *)
LEMMA CurrentLocks ==
    ASSUME LockInv, NEW c \in Calls, CheckCurrent(c)
    PROVE  LockInv'
<1>1. /\ pc[c] = "current" /\ UNCHANGED <<at, got, status>>
      /\ at \in [Calls -> Stores] /\ pc \in [Calls -> AllPcs]
      /\ got \in [Calls -> 0..MaxInodes] /\ fd \in [Stores -> 0..MaxInodes]
      /\ flock \in [Inodes -> Stores \cup {None}]
      /\ lockfile \in 0..MaxInodes /\ inodes \in 0..MaxInodes
      /\ tlock \in [Stores -> Calls \cup {None}]
  BY DEF CheckCurrent, LockInv, LockTypes
<1>2. fd[at[c]] = got[c] /\ status[at[c]] = "up" /\ tlock[at[c]] = c
  BY <1>1 DEF LockInv, FileLocked, ThreadLocked, Running, Queued, Over
<1>3. CASE got[c] = lockfile
  <2>1. /\ pc' = [pc EXCEPT ![c] = "check"] /\ tlock' = tlock /\ fd' = fd
        /\ flock' = flock /\ lockfile' = lockfile /\ inodes' = inodes
    BY <1>2, <1>3 DEF CheckCurrent, Goto
  <2>2. LockTypes'
    BY <1>1, <2>1 DEF LockTypes, LockInv, AllPcs, Inside
  <2>3. Running' /\ FilesOpen'
    BY <1>1, <1>2, <2>1 DEF LockInv, Running, FilesOpen, Over
  <2>4. ThreadLocked' /\ FileLocked'
    BY <1>1, <2>1 DEF LockInv, ThreadLocked, FileLocked, Queued, Inside
  <2>5. LockIsCurrent'
    BY <1>1, <1>3, <2>1 DEF LockInv, LockIsCurrent
  <2> QED
    BY <2>2, <2>3, <2>4, <2>5 DEF LockInv
<1>4. CASE got[c] # lockfile
  <2> DEFINE i == IF lockfile = 0 THEN inodes + 1 ELSE lockfile
  <2>1. /\ pc' = [pc EXCEPT ![c] = "open"] /\ tlock' = tlock
        /\ flock' = Unlocked(at[c]) /\ i \in Inodes /\ lockfile' = i
        /\ inodes' \in {inodes, i} /\ fd' = [fd EXCEPT ![at[c]] = i]
    BY <1>1, <1>2, <1>4 DEF CheckCurrent, Goto, OpenLock, Inodes
  <2>2. lockfile # 0 => lockfile' = lockfile
    BY <2>1
  <2> HIDE DEF i
  <2>3. \A j \in Inodes : flock'[j] # None => flock'[j] = flock[j] /\ flock[j] # at[c]
    BY <2>1 DEF Unlocked
  <2>4. \A j \in Inodes : flock[j] # at[c] => flock'[j] = flock[j]
    BY <2>1 DEF Unlocked
  <2>5. flock' \in [Inodes -> Stores \cup {None}]
    BY <1>1, <2>1 DEF Unlocked
  <2>6. LockTypes'
    BY <1>1, <2>1, <2>5 DEF LockInv, LockTypes, AllPcs, Inodes
  <2>7. \A d \in Calls : d # c =>
           pc'[d] = pc[d] /\ (pc[d] \in Queued => at[d] # at[c])
    BY <1>1, <1>2, <2>1 DEF LockInv, ThreadLocked
  <2>8. Running'
    BY <1>1, <1>2, <2>1, <2>7 DEF LockInv, Running, Over
  <2>9. ThreadLocked'
    BY <1>1, <1>2, <2>1, <2>7 DEF LockInv, ThreadLocked
  <2>10. FilesOpen'
    <3>1. \A s \in Stores : status[s] = "up" => fd'[s] # 0
      BY <1>1, <2>1 DEF LockInv, FilesOpen, Inodes
    <3>2. \A j \in Inodes : flock'[j] # None =>
             fd'[flock'[j]] = j /\ status[flock'[j]] = "up"
      BY <1>1, <2>1, <2>3 DEF LockInv, FilesOpen
    <3> QED
      BY <1>1, <3>1, <3>2 DEF FilesOpen
  <2>11. FileLocked' /\ LockIsCurrent'
    <3> SUFFICES ASSUME NEW d \in Calls
                 PROVE  /\ pc'[d] \in Queued \ {"open"} => got[d] = fd'[at[d]] /\ got[d] # 0
                        /\ pc'[d] \in Queued \ {"open", "flock"} => flock'[got[d]] = at[d]
                        /\ pc'[d] \in Inside => got[d] = lockfile'
      BY <1>1 DEF FileLocked, LockIsCurrent
    <3>1. CASE d = c
      BY <1>1, <2>1, <3>1 DEF Inside
    <3>2. CASE d # c /\ pc[d] \in Queued
      <4>1. pc'[d] = pc[d] /\ at[d] # at[c] /\ fd'[at[d]] = fd[at[d]]
        BY <1>1, <2>1, <2>7, <3>2
      <4>2. pc[d] # "open" => got[d] = fd[at[d]] /\ got[d] # 0 /\ got[d] \in Inodes
        BY <1>1, <3>2 DEF LockInv, FileLocked, Inodes
      <4>3. pc[d] \notin {"open", "flock"} => flock[got[d]] = at[d]
        BY <3>2 DEF LockInv, FileLocked
      <4>4. pc[d] \in Inside => got[d] = lockfile
        BY DEF LockInv, LockIsCurrent
      <4> QED
        BY <2>2, <2>4, <4>1, <4>2, <4>3, <4>4 DEF Inside
    <3>3. CASE d # c /\ pc[d] \notin Queued
      BY <2>7, <3>3 DEF Queued
    <3> QED
      BY <3>1, <3>2, <3>3
  <2> QED
    BY <2>6, <2>8, <2>9, <2>10, <2>11 DEF LockInv
<1> QED
  BY <1>3, <1>4

LEMMA LeaveLocks ==
    ASSUME LockInv, NEW c \in Calls, Leave(c)
    PROVE  LockInv'
<1>1. /\ pc[c] \in {"leave", "fail"} /\ fd[at[c]] = got[c] /\ flock[got[c]] = at[c]
  BY DEF Leave, LockInv, FileLocked, Queued, Inside
<1>2. /\ UNCHANGED <<at, got, status, fd, lockfile, inodes>>
      /\ flock' = [flock EXCEPT ![got[c]] = None]
      /\ tlock' = [tlock EXCEPT ![at[c]] = None]
  BY <1>1 DEF Leave
<1>3. PICK l \in {"failed", "sweep", "done"} : pc' = [pc EXCEPT ![c] = l]
  <2>1. CASE pc[c] = "fail"
    BY <2>1 DEF Leave, Goto
  <2>2. CASE pc[c] = "leave" /\ call[c].kind = "purge"
    BY <1>1, <2>2 DEF Leave, Goto
  <2>3. CASE pc[c] = "leave" /\ call[c].kind # "purge"
    BY <1>1, <2>3 DEF Leave, Goto
  <2> QED
    BY <1>1, <2>1, <2>2, <2>3
<1> QED
  BY <1>1, <1>2, <1>3, ReleaseLocks DEF AllPcs, Queued, Inside

-----------------------------------------------------------------------------
(* The store objects.                                                      *)

LEMMA OpenStoreLocks ==
    ASSUME LockInv, NEW s \in Stores, OpenStore(s)
    PROVE  LockInv'
<1> DEFINE i == IF lockfile = 0 THEN inodes + 1 ELSE lockfile
<1>1. /\ status[s] = "new" /\ status' = [status EXCEPT ![s] = "up"]
      /\ UNCHANGED <<at, pc, got, tlock, flock>>
      /\ at \in [Calls -> Stores] /\ got \in [Calls -> 0..MaxInodes]
      /\ status \in [Stores -> {"new", "up", "closed", "crashed"}]
      /\ fd \in [Stores -> 0..MaxInodes]
      /\ lockfile \in 0..MaxInodes /\ inodes \in 0..MaxInodes
      /\ flock \in [Inodes -> Stores \cup {None}]
  BY DEF OpenStore, LockInv, LockTypes
<1>2. /\ i \in Inodes /\ lockfile' = i /\ inodes' \in {inodes, i}
      /\ fd' = [fd EXCEPT ![s] = i]
  BY <1>1 DEF OpenStore, OpenLock, Inodes
<1>3. lockfile # 0 => lockfile' = lockfile
  BY <1>2
<1> HIDE DEF i
<1>4. LockTypes'
  BY <1>1, <1>2 DEF LockInv, LockTypes, Inodes
<1>5. \A c \in Calls : pc[c] \in Queued => at[c] # s
  BY <1>1 DEF LockInv, Running, Over, Queued, Inside
<1>6. Running' /\ ThreadLocked'
  BY <1>1 DEF LockInv, Running, ThreadLocked, Over
<1>7. FilesOpen'
  <2>1. \A r \in Stores : status'[r] = "up" => fd'[r] # 0
    BY <1>1, <1>2 DEF LockInv, FilesOpen, Inodes
  <2>2. \A j \in Inodes : flock[j] # None =>
           fd'[flock[j]] = j /\ status'[flock[j]] = "up"
    BY <1>1, <1>2 DEF LockInv, FilesOpen
  <2> QED
    BY <1>1, <2>1, <2>2 DEF FilesOpen
<1>8. FileLocked'
  BY <1>1, <1>2, <1>5 DEF LockInv, FileLocked
<1>9. LockIsCurrent'
  BY <1>1, <1>3 DEF LockInv, LockIsCurrent, FileLocked, Queued, Inside
<1> QED
  BY <1>4, <1>6, <1>7, <1>8, <1>9 DEF LockInv

(* A store that closes or dies with no call of its own left running: its   *)
(* flock is nobody's.                                                      *)
LEMMA ShutLocks ==
    ASSUME LockInv, NEW s \in Stores, NEW l \in {"closed", "crashed"},
           status' = [status EXCEPT ![s] = l], fd' = [fd EXCEPT ![s] = 0],
           flock' = Unlocked(s),
           UNCHANGED <<at, got, tlock, lockfile, inodes>>,
           pc' \in [Calls -> AllPcs],
           \A c \in Calls : pc'[c] # pc[c] => pc'[c] = "crashed",
           \A c \in Calls : at[c] = s => Over(c)'
    PROVE  LockInv'
<1>1. /\ at \in [Calls -> Stores] /\ got \in [Calls -> 0..MaxInodes]
      /\ status \in [Stores -> {"new", "up", "closed", "crashed"}]
      /\ fd \in [Stores -> 0..MaxInodes] /\ flock \in [Inodes -> Stores \cup {None}]
  BY DEF LockInv, LockTypes
<1>2. \A j \in Inodes : /\ flock'[j] # None => flock'[j] = flock[j] /\ flock[j] # s
                        /\ flock[j] # s => flock'[j] = flock[j]
  BY DEF Unlocked
<1>3. LockTypes'
  <2>1. flock' \in [Inodes -> Stores \cup {None}]
    BY <1>1 DEF Unlocked
  <2> QED
    BY <1>1, <2>1 DEF LockInv, LockTypes
<1>4. \A c \in Calls : ~Over(c)' => pc'[c] = pc[c] /\ ~Over(c) /\ at[c] # s
  BY DEF Over
<1>5. \A c \in Calls : pc'[c] \in Queued => pc'[c] = pc[c] /\ at[c] # s
  BY <1>4 DEF Queued, Inside, Over
<1>6. Running'
  BY <1>1, <1>4 DEF LockInv, Running
<1>7. ThreadLocked'
  BY <1>5 DEF LockInv, ThreadLocked
<1>8. FilesOpen'
  <2>1. \A r \in Stores : status'[r] = "up" => fd'[r] # 0
    BY <1>1 DEF LockInv, FilesOpen
  <2>2. \A j \in Inodes : flock'[j] # None =>
           fd'[flock'[j]] = j /\ status'[flock'[j]] = "up"
    BY <1>1, <1>2 DEF LockInv, FilesOpen
  <2> QED
    BY <2>1, <2>2 DEF FilesOpen
<1>9. FileLocked'
  <2> SUFFICES ASSUME NEW c \in Calls, pc'[c] \in Queued
               PROVE  /\ pc'[c] # "open" => got[c] = fd'[at[c]] /\ got[c] # 0
                      /\ pc'[c] \notin {"open", "flock"} => flock'[got[c]] = at[c]
    BY DEF FileLocked
  <2>1. pc'[c] = pc[c] /\ at[c] # s /\ fd'[at[c]] = fd[at[c]]
    BY <1>1, <1>5
  <2>2. pc[c] # "open" => got[c] = fd[at[c]] /\ got[c] # 0 /\ got[c] \in Inodes
    BY <1>1, <2>1 DEF LockInv, FileLocked, Inodes
  <2>3. pc[c] \notin {"open", "flock"} => flock[got[c]] = at[c]
    BY <2>1 DEF LockInv, FileLocked
  <2> QED
    BY <1>2, <2>1, <2>2, <2>3
<1>10. LockIsCurrent'
  BY <1>5 DEF LockInv, LockIsCurrent, Queued
<1> QED
  BY <1>3, <1>6, <1>7, <1>8, <1>9, <1>10 DEF LockInv

LEMMA CloseLocks ==
    ASSUME Quiet, LockInv, NEW s \in Stores, CloseStore(s)
    PROVE  LockInv'
<1>1. pc' = pc /\ pc \in [Calls -> AllPcs]
  BY DEF CloseStore, LockInv, LockTypes
<1>2. \A c \in Calls : at[c] = s => Over(c)'
  BY <1>1 DEF CloseStore, Quiet, Over
<1> QED
  BY <1>1, <1>2, ShutLocks DEF CloseStore, locks

LEMMA CrashLocks ==
    ASSUME LockInv, NEW s \in Stores, Crash(s)
    PROVE  LockInv'
<1>1. pc \in [Calls -> AllPcs]
  BY DEF LockInv, LockTypes
<1>2. \A c \in Calls : /\ pc'[c] # pc[c] => pc'[c] = "crashed"
                       /\ at[c] = s => Over(c)'
                       /\ pc'[c] \in {pc[c], "crashed"}
  BY DEF Crash, Over
<1>3. pc' \in [Calls -> AllPcs]
  BY <1>1 DEF Crash, AllPcs
<1> QED
  BY <1>2, <1>3, ShutLocks DEF Crash, locks

LEMMA UnlinkLocks ==
    ASSUME LockInv, RemoveLockFile
    PROVE  LockInv'
<1>1. /\ UNCHANGED <<at, pc, got, status, tlock, fd, flock, inodes>> /\ lockfile' = 0
      /\ \A c \in Calls : pc[c] \notin Inside
  BY DEF RemoveLockFile
<1> QED
  BY <1>1 DEF LockInv, LockTypes, Running, ThreadLocked, FilesOpen, FileLocked,
     LockIsCurrent, Over

LEMMA StillLocks ==
    ASSUME LockInv, UNCHANGED <<at, pc, got, status, locks>>
    PROVE  LockInv'
BY DEF LockInv, LockTypes, Running, ThreadLocked, FilesOpen, FileLocked,
   LockIsCurrent, Over, locks

LEMMA NextLocks == Quiet /\ LockInv /\ [Next]_vars => LockInv'
<1> SUFFICES ASSUME Quiet, LockInv, [Next]_vars PROVE LockInv'
  OBVIOUS
<1>1. CASE UNCHANGED vars
  BY <1>1, StillLocks DEF vars
<1>2. CASE Tick
  BY <1>2, StillLocks DEF Tick
<1>3. CASE RemoveLockFile
  BY <1>3, UnlinkLocks
<1>4. ASSUME NEW s \in Stores, OpenStore(s) \/ CloseStore(s) \/ Crash(s)
      PROVE  LockInv'
  BY <1>4, OpenStoreLocks, CloseLocks, CrashLocks
<1>5. ASSUME NEW c \in Calls, NEW r \in Store!Requests, Begin(c, r)
      PROVE  LockInv'
  BY <1>5, BeginLocks
<1>6. ASSUME NEW c \in Calls, Step(c)
      PROVE  LockInv'
  BY <1>6, LocalSteps, AcquireLocks, OpenForLocks, TakeLocks, CurrentLocks,
     LeaveLocks DEF Step
<1> QED
  BY <1>1, <1>2, <1>3, <1>4, <1>5, <1>6 DEF Next, Environment

(* One writer at a time, in one process and across processes: whichever    *)
(* lock files are removed and made again, whichever writes fail, whichever *)
(* processes die, as long as no store is closed under a call that goes on. *)
THEOREM MutualExclusion == Quiet => (Spec => []OneWriter)
<1>1. Quiet /\ LockInv /\ [Next]_vars => LockInv'
  BY NextLocks
<1>2. Quiet => (Spec => []LockInv)
  <2> SUFFICES ASSUME Quiet PROVE Spec => []LockInv
    OBVIOUS
  <2>1. LockInv /\ [Next]_vars => LockInv'
    BY <1>1
  <2> QED
    BY InitLocks, <2>1, PTL DEF Spec
<1> QED
  BY <1>2, Exclusion, PTL

-----------------------------------------------------------------------------
(* The data, and the types of every variable: what holds of any store.     *)

USE DEF Goto

Early == {"idle", "look", "clock", "walk", "lock", "open", "flock", "current", "check"}

(* Tokens are numbers made one after the other, moments are on the clock. *)
Written == [token : 0..writes, expires : Moments]

Values ==
    /\ now \in 1..MaxTime /\ writes \in Nat
    /\ file \in Written /\ used \subseteq 1..writes
    /\ call \in [Calls -> [kind : Kinds \cup {"none"},
                           match : (0..writes) \cup {Anything}, ttl : 0..MaxTtl]]
    /\ since \in [Calls -> 0..MaxTime] /\ seen \in [Calls -> Written]
    /\ outcome \in [Calls -> {"none", "ok", "stale", "missing"}]
    /\ minted \in [Calls -> 0..writes] /\ until \in [Calls -> Moments]
    /\ tmp \in [Calls -> 0..MaxTime]

(* Where a thread is, what its call asks for and what is decided. *)
Path(c) ==
    /\ pc[c] \in Early => outcome[c] = "none" /\ minted[c] = 0
    /\ pc[c] \in {"look", "clock"} => call[c].kind = "read"
    /\ pc[c] = "clock" => seen[c].token # 0
    /\ pc[c] \in {"walk", "sweep"} => call[c].kind = "purge"
    /\ pc[c] = "write" => call[c].kind \in {"put", "touch"} /\ minted[c] # 0
    /\ pc[c] = "unlink" => call[c].kind = "delete"
    /\ pc[c] \in {"write", "unlink", "sweep"} => outcome[c] = "none"
    /\ pc[c] = "sync" => outcome[c] = "ok" /\ call[c].kind \in {"put", "touch"}
    /\ pc[c] = "leave" => (outcome[c] = "none" <=> call[c].kind = "purge")

(* A condition is a token that named a write; a call began in the past. *)
Asked(c) == call[c].match \in used \cup {0, Anything} /\ since[c] <= now

(* What a thread inside the lock found stays true until it has acted. *)
Granted(c) ==
    /\ pc[c] = "write" =>
         /\ until[c] \in Store!Expiries(c)
         /\ call[c].kind = "put" => Store!Matches(c) /\ minted[c] \notin used \cup {0}
         /\ call[c].kind = "touch" =>
              /\ Store!WasLive(c) /\ call[c].match \in {Anything, file.token}
              /\ minted[c] = file.token
    /\ pc[c] = "unlink" =>
         /\ Store!Matches(c)
         /\ IF minted[c] = 0 THEN ~Live(file)
            ELSE Store!WasLive(c) /\ minted[c] = file.token

Stored == IF file.token = 0 THEN file = Store!NoDoc ELSE file.token \in used

(* The token a conditional put replaced never comes back. *)
Spent(c) ==
    call[c].kind = "put" /\ outcome[c] = "ok" /\ call[c].match \notin {0, Anything} =>
        call[c].match \in used \ {file.token}

(* What Leave comes to: one point, whichever way it ends. *)
LEMMA LeaveTo ==
    ASSUME NEW c \in Calls, Leave(c)
    PROVE  \E l \in {"failed", "sweep", "done"} :
             /\ pc' = [pc EXCEPT ![c] = l]
             /\ l = "sweep" => pc[c] = "leave" /\ call[c].kind = "purge"
             /\ l = "done" => pc[c] = "leave" /\ call[c].kind # "purge"
<1>1. CASE pc[c] = "fail" \/ fd[at[c]] # got[c]
  <2>1. pc' = [pc EXCEPT ![c] = "failed"]
    BY <1>1 DEF Leave
  <2> QED
    BY <2>1
<1>2. CASE ~(pc[c] = "fail" \/ fd[at[c]] # got[c]) /\ call[c].kind = "purge"
  BY <1>2 DEF Leave
<1>3. CASE ~(pc[c] = "fail" \/ fd[at[c]] # got[c]) /\ call[c].kind # "purge"
  BY <1>3 DEF Leave
<1> QED
  BY <1>1, <1>2, <1>3

(* The variables of the lock protocol keep their types.                    *)
LEMMA LockTypesStep ==
    ASSUME LockTypes, [Next]_vars
    PROVE  LockTypes'
<1> USE DEF LockTypes, locks
<1>1. ASSUME NEW c \in Calls, AcquireThreadLock(c)
      PROVE  LockTypes'
  BY <1>1 DEF AcquireThreadLock, AllPcs
<1>2. ASSUME NEW c \in Calls, OpenForLock(c)
      PROVE  LockTypes'
  BY <1>2 DEF OpenForLock, GiveUp, AllPcs
<1>3. ASSUME NEW c \in Calls, TakeFlock(c)
      PROVE  LockTypes'
  BY <1>3 DEF TakeFlock, GiveUp, AllPcs
<1>4. ASSUME NEW c \in Calls, CheckCurrent(c)
      PROVE  LockTypes'
  <2>1. CASE got[c] = lockfile \/ fd[at[c]] # got[c]
    BY <1>4, <2>1 DEF CheckCurrent, GiveUp, AllPcs, Inside
  <2>2. CASE ~(got[c] = lockfile \/ fd[at[c]] # got[c])
    <3>1. /\ flock' = Unlocked(at[c]) /\ OpenLock(at[c])
          /\ UNCHANGED <<at, got, status, tlock>> /\ pc' = [pc EXCEPT ![c] = "open"]
      BY <1>4, <2>2 DEF CheckCurrent
    <3>2. flock' \in [Inodes -> Stores \cup {None}]
      BY <3>1 DEF Unlocked
    <3>3. /\ fd' \in [Stores -> 0..MaxInodes] /\ lockfile' \in 0..MaxInodes
          /\ inodes' \in 0..MaxInodes
      BY <3>1 DEF OpenLock
    <3> QED
      BY <3>1, <3>2, <3>3 DEF AllPcs
  <2> QED
    BY <2>1, <2>2
<1>5. ASSUME NEW c \in Calls, Leave(c)
      PROVE  LockTypes'
  <2>1. pc' \in [Calls -> AllPcs]
    BY <1>5, LeaveTo DEF AllPcs
  <2>2. flock' \in [Inodes -> Stores \cup {None}] /\ tlock' \in [Stores -> Calls \cup {None}]
    BY <1>5 DEF Leave
  <2> QED
    BY <1>5, <2>1, <2>2 DEF Leave
<1>6. ASSUME NEW c \in Calls,
             \/ CheckRefuses(c) \/ CheckPut(c) \/ CheckTouch(c) \/ CheckDelete(c)
             \/ Replace(c) \/ WriteFails(c) \/ Sync(c) \/ Unlink(c)
             \/ PurgeWalk(c) \/ CheckPurge(c) \/ Sweep(c) \/ Look(c) \/ Conclude(c)
      PROVE  LockTypes'
  <2>1. UNCHANGED <<at, got, status, locks>>
    BY <1>6 DEF CheckRefuses, CheckPut, CheckTouch, CheckDelete, Replace, WriteFails,
       Sync, Unlink, PurgeWalk, CheckPurge, Sweep, Look, Conclude
  <2>2. \E l \in AllPcs : pc' = [pc EXCEPT ![c] = l]
    BY <1>6 DEF AllPcs, Inside, CheckRefuses, CheckPut, CheckTouch, CheckDelete, Replace,
       WriteFails, Sync, Unlink, PurgeWalk, CheckPurge, Sweep, Look, Conclude
  <2> QED
    BY <2>1, <2>2
<1>7. ASSUME NEW c \in Calls, NEW r \in Store!Requests, Begin(c, r)
      PROVE  LockTypes'
  <2>1. \E l \in AllPcs : pc' = [pc EXCEPT ![c] = l]
    BY <1>7 DEF Begin, AllPcs
  <2> QED
    BY <1>7, <2>1 DEF Begin
<1>8. ASSUME NEW s \in Stores, OpenStore(s)
      PROVE  LockTypes'
  BY <1>8 DEF OpenStore, OpenLock
<1>9. ASSUME NEW s \in Stores, CloseStore(s) \/ Crash(s)
      PROVE  LockTypes'
  <2>1. flock' \in [Inodes -> Stores \cup {None}]
    BY <1>9 DEF CloseStore, Crash, Unlocked
  <2>2. pc' \in [Calls -> AllPcs]
    BY <1>9 DEF CloseStore, Crash, AllPcs
  <2> QED
    BY <1>9, <2>1, <2>2 DEF CloseStore, Crash
<1>10. CASE Tick \/ RemoveLockFile \/ UNCHANGED vars
  BY <1>10 DEF Tick, RemoveLockFile, vars
<1> QED
  BY <1>1, <1>2, <1>3, <1>4, <1>5, <1>6, <1>7, <1>8, <1>9, <1>10
     DEF Next, Environment, Step

LEMMA ExpiryType ==
    ASSUME Values, NEW c \in Calls
    PROVE  Expiry(c) \in Moments
BY DEF Values, Expiry, Moments

LEMMA HeldIs == Store!Held(file, now) \in {0, file.token}
BY DEF Store!Held, Store!Absent

(* So do those of the data. *)
LEMMA ValuesStep ==
    ASSUME Values, \A c \in Calls : Path(c), [Next]_vars
    PROVE  Values'
<1> USE DEF data, request, writing
<1>1. ASSUME NEW c \in Calls, CheckPut(c)
      PROVE  Values'
  <2>1. writes' \in Nat /\ 0..writes \subseteq 0..writes' /\ 1..writes \subseteq 1..writes'
        /\ writes' \in 0..writes'
    BY <1>1 DEF CheckPut, Values
  <2>2. Written \subseteq Written'
    BY <2>1 DEF Written
  <2>3. /\ UNCHANGED <<now, file, used, call, since, seen, outcome>>
        /\ minted' = [minted EXCEPT ![c] = writes'] /\ tmp' = [tmp EXCEPT ![c] = now]
        /\ until' = [until EXCEPT ![c] = Expiry(c)]
    BY <1>1 DEF CheckPut
  <2>4. minted' \in [Calls -> 0..writes']
    BY <2>1, <2>3 DEF Values
  <2>5. until' \in [Calls -> Moments] /\ tmp' \in [Calls -> 0..MaxTime]
    BY <2>3, ExpiryType DEF Values
  <2>6. call' \in [Calls -> [kind : Kinds \cup {"none"},
                             match : (0..writes') \cup {Anything}, ttl : 0..MaxTtl]]
    BY <2>1, <2>3 DEF Values
  <2>7. seen' \in [Calls -> Written'] /\ file' \in Written'
    BY <2>2, <2>3 DEF Values
  <2>8. used' \subseteq 1..writes'
    BY <2>1, <2>3 DEF Values
  <2> QED
    BY <2>1, <2>3, <2>4, <2>5, <2>6, <2>7, <2>8 DEF Values
<1>2. ASSUME NEW c \in Calls, CheckTouch(c)
      PROVE  Values'
  BY <1>2, ExpiryType DEF CheckTouch, Values, Written
<1>3. ASSUME NEW c \in Calls, CheckDelete(c)
      PROVE  Values'
  BY <1>3, HeldIs DEF CheckDelete, Values, Written
<1>4. ASSUME NEW c \in Calls, Replace(c)
      PROVE  Values'
  <2> DEFINE e == [token |-> minted[c], expires |-> until[c]]
  <2>1. e \in Written /\ e.token \in 1..writes
    <3>1. minted[c] # 0
      BY <1>4 DEF Replace, Path
    <3> QED
      BY <1>4, <3>1 DEF Values, Written
  <2> HIDE DEF e
  <2>2. /\ UNCHANGED <<now, writes, call, since, minted, until>> /\ file' = e
        /\ used' = used \cup {e.token} /\ seen' = [seen EXCEPT ![c] = e]
        /\ outcome' = [outcome EXCEPT ![c] = "ok"] /\ tmp' = [tmp EXCEPT ![c] = 0]
    BY <1>4 DEF Replace, Rename, e
  <2>3. file' \in Written /\ used' \subseteq 1..writes /\ seen' \in [Calls -> Written]
    BY <2>1, <2>2 DEF Values
  <2>4. /\ outcome' \in [Calls -> {"none", "ok", "stale", "missing"}]
        /\ tmp' \in [Calls -> 0..MaxTime]
    BY <2>2 DEF Values
  <2> QED
    BY <2>2, <2>3, <2>4 DEF Values, Written
<1>5. ASSUME NEW c \in Calls, Unlink(c) \/ CheckPurge(c)
      PROVE  Values'
  <2>1. Store!NoDoc \in Written
    BY DEF Values, Written, Store!NoDoc, Moments
  <2>2. file' \in Written /\ UNCHANGED <<now, used>>
    BY <1>5, <2>1 DEF Unlink, CheckPurge, Remove, Values
  <2>3. outcome' \in [Calls -> {"none", "ok", "stale", "missing"}]
    BY <1>5 DEF Unlink, CheckPurge, Values
  <2> QED
    BY <1>5, <2>2, <2>3 DEF Unlink, CheckPurge, Values, Written
<1>6. ASSUME SweepTemps
      PROVE  tmp' \in [Calls -> 0..MaxTime]
  BY <1>6 DEF SweepTemps, Values
<1>7. ASSUME NEW c \in Calls, Sweep(c)
      PROVE  Values'
  BY <1>6, <1>7 DEF Sweep, Values, Written
<1>8. ASSUME NEW s \in Stores, OpenStore(s)
      PROVE  Values'
  BY <1>6, <1>8 DEF OpenStore, Values, Written
<1>9. ASSUME NEW s \in Stores, CloseStore(s) \/ Crash(s)
      PROVE  Values'
  BY <1>9 DEF CloseStore, Crash, Values, Written
<1>10. ASSUME NEW c \in Calls, NEW r \in Store!Requests, Begin(c, r)
      PROVE  Values'
  <2>1. r \in [kind : Kinds \cup {"none"}, match : (0..writes) \cup {Anything}, ttl : 0..MaxTtl]
    <3>1. r \in [kind : Kinds, match : used \cup {0, Anything}, ttl : 0..MaxTtl]
      BY DEF Store!Requests, Store!Absent
    <3>2. \A u \in used : u \in 0..writes
      BY DEF Values
    <3>3. 0 \in 0..writes
      BY DEF Values
    <3> QED
      BY <3>1, <3>2, <3>3
  <2> QED
    BY <1>10, <2>1 DEF Begin, Values, Written
<1>11. CASE Tick
  BY <1>11 DEF Tick, Values, Written
<1>12. CASE RemoveLockFile \/ UNCHANGED vars
  BY <1>12 DEF RemoveLockFile, vars, Values, Written
<1>13. ASSUME NEW c \in Calls,
              \/ AcquireThreadLock(c) \/ OpenForLock(c) \/ TakeFlock(c) \/ CheckCurrent(c)
              \/ Leave(c) \/ Sync(c) \/ PurgeWalk(c)
      PROVE  Values'
  <2>1. UNCHANGED <<data, request, seen, outcome, writing>>
    BY <1>13 DEF AcquireThreadLock, OpenForLock, TakeFlock, CheckCurrent, Leave, Sync, PurgeWalk
  <2> QED
    BY <2>1 DEF Values, Written
<1>14. ASSUME NEW c \in Calls, WriteFails(c) \/ CheckRefuses(c) \/ Conclude(c)
      PROVE  Values'
  <2>1. /\ UNCHANGED <<data, request, writes, minted, until, seen>>
        /\ outcome' \in [Calls -> {"none", "ok", "stale", "missing"}]
    BY <1>14 DEF WriteFails, CheckRefuses, Conclude, Values
  <2>2. tmp' \in [Calls -> 0..MaxTime]
    BY <1>14 DEF WriteFails, CheckRefuses, Conclude, Values
  <2> QED
    BY <2>1, <2>2 DEF Values, Written
<1>15. ASSUME NEW c \in Calls, Look(c)
      PROVE  Values'
  <2>1. UNCHANGED <<data, request, writing>>
    BY <1>15 DEF Look
  <2>2. outcome' \in [Calls -> {"none", "ok", "stale", "missing"}]
    BY <1>15 DEF Look, Values
  <2>3. seen' \in [Calls -> Written]
    BY <1>15 DEF Look, Values
  <2> QED
    BY <2>1, <2>2, <2>3 DEF Values, Written
<1> QED
  BY <1>1, <1>2, <1>3, <1>4, <1>5, <1>7, <1>8, <1>9, <1>10, <1>11, <1>12, <1>13, <1>14,
     <1>15      DEF Next, Environment, Step

Paths == \A c \in Calls : Path(c)

(* The other threads are where they were. *)
LEMMA PathsOf ==
    ASSUME LockTypes, Values, Paths, NEW c \in Calls, NEW l \in AllPcs,
           pc' = [pc EXCEPT ![c] = l],
           \A d \in Calls \ {c} : /\ outcome'[d] = outcome[d] /\ minted'[d] = minted[d]
                                  /\ call'[d] = call[d] /\ seen'[d] = seen[d],
           Path(c)'
    PROVE  Paths'
<1> SUFFICES ASSUME NEW d \in Calls \ {c}
             PROVE  Path(d)'
  BY DEF Paths
<1>1. pc'[d] = pc[d]
  BY DEF LockTypes
<1>2. Path(d)
  BY DEF Paths
<1> QED
  BY <1>1, <1>2 DEF Path

LEMMA PathsStep ==
    ASSUME LockTypes, Values, Paths, Stored, [Next]_vars
    PROVE  Paths'
<1> USE DEF data, request, writing
<1>0. /\ pc \in [Calls -> AllPcs] /\ writes \in Nat
      /\ outcome \in [Calls -> {"none", "ok", "stale", "missing"}]
      /\ minted \in [Calls -> 0..writes]
      /\ DOMAIN call = Calls /\ DOMAIN seen = Calls
  BY DEF LockTypes, Values
<1>1. ASSUME NEW c \in Calls, AcquireThreadLock(c)
      PROVE  Paths'
  <2>1. pc' = [pc EXCEPT ![c] = "open"] /\ UNCHANGED <<outcome, minted, call, seen>>
    BY <1>1 DEF AcquireThreadLock
  <2>2. Path(c)'
    BY <1>0, <1>1, <2>1 DEF Paths, Path, AcquireThreadLock, Early
  <2> QED
    BY <2>1, <2>2, PathsOf DEF AllPcs
<1>2. ASSUME NEW c \in Calls, OpenForLock(c) \/ TakeFlock(c) \/ CheckCurrent(c)
      PROVE  Paths'
  <2>1. UNCHANGED <<outcome, minted, call, seen>> /\ pc[c] \in {"open", "flock", "current"}
    BY <1>2 DEF OpenForLock, TakeFlock, CheckCurrent
  <2>2. PICK l \in {"failed", "flock", "current", "check", "open"} : pc' = [pc EXCEPT ![c] = l]
    BY <1>2 DEF OpenForLock, TakeFlock, CheckCurrent, GiveUp
  <2>3. Path(c)'
    BY <1>0, <2>1, <2>2 DEF Paths, Path, Early
  <2> QED
    BY <2>1, <2>2, <2>3, PathsOf DEF AllPcs, Inside
<1>3. ASSUME NEW c \in Calls, CheckRefuses(c)
      PROVE  Paths'
  <2>1. /\ pc' = [pc EXCEPT ![c] = "leave"] /\ UNCHANGED <<minted, call, seen>>
        /\ pc[c] = "check" /\ call[c].kind # "purge"
        /\ \E o \in {"stale", "missing"} : outcome' = [outcome EXCEPT ![c] = o]
    BY <1>3 DEF CheckRefuses
  <2>2. Path(c)'
    BY <1>0, <2>1 DEF Paths, Path, Early
  <2> QED
    BY <1>0, <2>1, <2>2, PathsOf DEF AllPcs, Inside
<1>4. ASSUME NEW c \in Calls, CheckPut(c)
      PROVE  Paths'
  <2>1. /\ pc' = [pc EXCEPT ![c] = "write"] /\ UNCHANGED <<outcome, call, seen>>
        /\ pc[c] = "check" /\ call[c].kind = "put"
        /\ minted' = [minted EXCEPT ![c] = writes + 1]
    BY <1>4 DEF CheckPut
  <2>2. Path(c)'
    BY <1>0, <2>1 DEF Paths, Path, Early
  <2> QED
    BY <1>0, <2>1, <2>2, PathsOf DEF AllPcs, Inside
<1>5. ASSUME NEW c \in Calls, CheckTouch(c)
      PROVE  Paths'
  <2>1. /\ pc' = [pc EXCEPT ![c] = "write"] /\ UNCHANGED <<outcome, call, seen>>
        /\ pc[c] = "check" /\ call[c].kind = "touch" /\ file.token # 0
        /\ minted' = [minted EXCEPT ![c] = file.token]
    BY <1>5 DEF CheckTouch, Live, Store!Live
  <2>2. Path(c)'
    BY <1>0, <2>1 DEF Paths, Path, Early
  <2> QED
    BY <1>0, <2>1, <2>2, PathsOf DEF AllPcs, Inside
<1>6. ASSUME NEW c \in Calls, CheckDelete(c)
      PROVE  Paths'
  <2>1. /\ pc' = [pc EXCEPT ![c] = "unlink"] /\ UNCHANGED <<outcome, call, seen>>
        /\ pc[c] = "check" /\ call[c].kind = "delete"
        /\ \E h : minted' = [minted EXCEPT ![c] = h]
    BY <1>6 DEF CheckDelete
  <2>2. Path(c)'
    BY <1>0, <2>1 DEF Paths, Path, Early
  <2> QED
    BY <1>0, <2>1, <2>2, PathsOf DEF AllPcs, Inside
<1>7. ASSUME NEW c \in Calls, Replace(c)
      PROVE  Paths'
  <2>1. /\ pc' = [pc EXCEPT ![c] = "sync"] /\ UNCHANGED <<call, minted>>
        /\ pc[c] = "write" /\ outcome' = [outcome EXCEPT ![c] = "ok"]
        /\ \E e : seen' = [seen EXCEPT ![c] = e]
    BY <1>7 DEF Replace
  <2>2. Path(c)'
    BY <1>0, <2>1 DEF Paths, Path, Early
  <2> QED
    BY <1>0, <2>1, <2>2, PathsOf DEF AllPcs, Inside
<1>8. ASSUME NEW c \in Calls, WriteFails(c) \/ Sync(c)
      PROVE  Paths'
  <2>1. /\ UNCHANGED <<outcome, call, seen, minted>> /\ pc[c] \in {"write", "sync"}
        /\ \/ pc' = [pc EXCEPT ![c] = "fail"]
           \/ pc[c] = "sync" /\ pc' = [pc EXCEPT ![c] = "leave"]
    BY <1>8 DEF WriteFails, Sync
  <2>2. Path(c)'
    BY <1>0, <2>1 DEF Paths, Path, Early
  <2> QED
    BY <1>0, <2>1, <2>2, PathsOf DEF AllPcs, Inside
<1>9. ASSUME NEW c \in Calls, Unlink(c)
      PROVE  Paths'
  <2>1. /\ pc' = [pc EXCEPT ![c] = "leave"] /\ UNCHANGED <<call, seen, minted>>
        /\ pc[c] = "unlink"
        /\ \E o \in {"ok", "missing"} : outcome' = [outcome EXCEPT ![c] = o]
    BY <1>9 DEF Unlink
  <2>2. Path(c)'
    BY <1>0, <2>1 DEF Paths, Path, Early
  <2> QED
    BY <1>0, <2>1, <2>2, PathsOf DEF AllPcs, Inside
<1>10. ASSUME NEW c \in Calls, Leave(c)
       PROVE  Paths'
  <2>1. UNCHANGED <<outcome, call, seen, minted>>
    BY <1>10 DEF Leave
  <2>2. PICK l \in {"failed", "sweep", "done"} :
          /\ pc' = [pc EXCEPT ![c] = l]
          /\ l = "sweep" => pc[c] = "leave" /\ call[c].kind = "purge"
    BY <1>10, LeaveTo
  <2>3. Path(c)'
    BY <1>0, <2>1, <2>2 DEF Paths, Path, Early
  <2> QED
    BY <1>0, <2>1, <2>2, <2>3, PathsOf DEF AllPcs, Inside
<1>11. ASSUME NEW c \in Calls, PurgeWalk(c) \/ CheckPurge(c)
       PROVE  Paths'
  <2>1. /\ UNCHANGED <<outcome, call, seen, minted>>
        /\ pc[c] \in {"walk", "check"} /\ call[c].kind = "purge"
        /\ \/ pc[c] = "walk" /\ \E l \in {"sweep", "lock"} : pc' = [pc EXCEPT ![c] = l]
           \/ pc' = [pc EXCEPT ![c] = "leave"]
    BY <1>11 DEF PurgeWalk, CheckPurge, Paths, Path
  <2>2. PICK l \in {"sweep", "lock", "leave"} : pc' = [pc EXCEPT ![c] = l]
    BY <2>1
  <2>3. Path(c)'
    BY <1>0, <2>1, <2>2 DEF Paths, Path, Early
  <2> QED
    BY <1>0, <2>1, <2>2, <2>3, PathsOf DEF AllPcs, Inside
<1>12. ASSUME NEW c \in Calls, Sweep(c) \/ Conclude(c)
       PROVE  Paths'
  <2>1. /\ UNCHANGED <<call, seen, minted>> /\ pc' = [pc EXCEPT ![c] = "done"]
        /\ \E o : outcome' = [outcome EXCEPT ![c] = o]
    BY <1>12 DEF Sweep, Conclude
  <2>2. Path(c)'
    BY <1>0, <2>1 DEF Paths, Path, Early
  <2> QED
    BY <1>0, <2>1, <2>2, PathsOf DEF AllPcs, Inside
<1>13. ASSUME NEW c \in Calls, Look(c)
       PROVE  Paths'
  <2>1. CASE file = Store!NoDoc
    <3>1. /\ UNCHANGED <<call, seen, minted>> /\ pc' = [pc EXCEPT ![c] = "done"]
          /\ outcome' = [outcome EXCEPT ![c] = "missing"]
      BY <1>13, <2>1 DEF Look
    <3>2. Path(c)'
      BY <1>0, <3>1 DEF Paths, Path, Early
    <3> QED
      BY <1>0, <3>1, <3>2, PathsOf DEF AllPcs, Inside
  <2>2. CASE file # Store!NoDoc
    <3>1. /\ UNCHANGED <<call, outcome, minted>> /\ pc' = [pc EXCEPT ![c] = "clock"]
          /\ seen' = [seen EXCEPT ![c] = file] /\ pc[c] = "look"
      BY <1>13, <2>2 DEF Look
    <3>2. file.token # 0
      BY <2>2 DEF Stored
    <3>3. Path(c)'
      BY <1>0, <3>1, <3>2 DEF Paths, Path, Early
    <3> QED
      BY <1>0, <3>1, <3>3, PathsOf DEF AllPcs, Inside
  <2> QED
    BY <2>1, <2>2
<1>14. ASSUME NEW c \in Calls, NEW r \in Store!Requests, Begin(c, r)
       PROVE  Paths'
  <2>1. /\ UNCHANGED <<outcome, minted, seen>> /\ pc[c] = "idle"
        /\ call' = [call EXCEPT ![c] = r]
    BY <1>14 DEF Begin
  <2>2. PICK l \in {"look", "walk", "lock"} :
          /\ pc' = [pc EXCEPT ![c] = l]
          /\ l = "look" => r.kind = "read"
          /\ l = "walk" => r.kind = "purge"
    BY <1>14 DEF Begin
  <2>3. Path(c)'
    BY <1>0, <2>1, <2>2 DEF Paths, Path, Early
  <2> QED
    BY <1>0, <2>1, <2>2, <2>3, PathsOf DEF AllPcs, Inside
<1>15. ASSUME NEW s \in Stores, Crash(s)
       PROVE  Paths'
  <2>1. UNCHANGED <<outcome, call, seen, minted>>
        /\ \A c \in Calls : pc'[c] \in {"crashed", pc[c]}
    BY <1>15 DEF Crash
  <2> QED
    BY <2>1 DEF Paths, Path, Early
<1>16. CASE \/ Tick \/ RemoveLockFile \/ UNCHANGED vars
            \/ \E s \in Stores : OpenStore(s) \/ CloseStore(s)
  <2>1. UNCHANGED <<pc, outcome, call, seen, minted>>
    BY <1>16 DEF Tick, RemoveLockFile, vars, OpenStore, CloseStore
  <2> QED
    BY <2>1 DEF Paths, Path
<1> QED
  BY <1>1, <1>2, <1>3, <1>4, <1>5, <1>6, <1>7, <1>8, <1>9, <1>10, <1>11, <1>12, <1>13, <1>14,
     <1>15, <1>16 DEF Next, Environment, Step

(* Every step but three leaves the document as it is. *)
Still == UNCHANGED <<file, used>>

LEMMA StillSteps ==
    ASSUME [Next]_vars, ~\E c \in Calls : Replace(c) \/ Unlink(c) \/ CheckPurge(c)
    PROVE  Still
<1> USE DEF Still, data
<1>1. ASSUME NEW c \in Calls, Step(c)
      PROVE  Still
  BY <1>1 DEF Step, AcquireThreadLock, OpenForLock, TakeFlock, CheckCurrent, CheckRefuses, CheckPut,
     CheckTouch, CheckDelete, WriteFails, Sync, Leave, PurgeWalk, Sweep, Look, Conclude
<1>2. CASE Environment
  BY <1>2 DEF Environment, Tick, RemoveLockFile, OpenStore, CloseStore, Crash, Begin
<1> QED
  BY <1>1, <1>2 DEF Next, vars

LEMMA StoredStep ==
    ASSUME Values, Paths, Stored, [Next]_vars
    PROVE  Stored'
<1>1. ASSUME NEW c \in Calls, Replace(c)
      PROVE  Stored'
  BY <1>1 DEF Replace, Rename, Stored, Paths, Path
<1>2. ASSUME NEW c \in Calls, Unlink(c) \/ CheckPurge(c)
      PROVE  Stored'
  BY <1>2 DEF Unlink, CheckPurge, Remove, Stored, Store!NoDoc, data
<1>3. CASE Still
  BY <1>3 DEF Still, Stored, Store!NoDoc
<1> QED
  BY <1>1, <1>2, <1>3, StillSteps

LEMMA InitData ==
    ASSUME Init
    PROVE  Values /\ Paths /\ Stored /\ \A c \in Calls : Asked(c) /\ Granted(c) /\ Spent(c)
<1>1. /\ Store!Init /\ pc = [c \in Calls |-> "idle"] /\ writes = 1
      /\ minted = [c \in Calls |-> 0] /\ until = [c \in Calls |-> 0]
      /\ tmp = [c \in Calls |-> 0]
  BY DEF Init
<1>2. /\ now = 1 /\ file.token \in {0, 1} /\ file \in Written /\ used \subseteq 1..writes
      /\ Stored
  <2>1. file \in {Store!NoDoc} \cup {[token |-> 1, expires |-> e] : e \in {0} \cup 2..MaxTime}
        /\ used = {file.token} \ {0} /\ now = 1
    BY <1>1 DEF Store!Init
  <2>2. CASE file = Store!NoDoc
    BY <1>1, <2>1, <2>2 DEF Store!NoDoc, Stored, Written, Moments
  <2>3. CASE file # Store!NoDoc
    <3>1. PICK e \in {0} \cup 2..MaxTime : file = [token |-> 1, expires |-> e]
      BY <2>1, <2>3
    <3> QED
      BY <1>1, <2>1, <3>1 DEF Stored, Written, Moments
  <2> QED
    BY <2>2, <2>3
<1>3. /\ call = [c \in Calls |-> Store!NoCall] /\ since = [c \in Calls |-> 0]
      /\ seen = [c \in Calls |-> Store!NoDoc] /\ outcome = [c \in Calls |-> "none"]
  BY <1>1 DEF Store!Init
<1>4. Values
  BY <1>1, <1>2, <1>3 DEF Values, Written, Moments, Store!NoDoc, Store!NoCall
<1> QED
  BY <1>1, <1>2, <1>3, <1>4 DEF Paths, Path, Early, Asked, Granted, Spent, Store!NoCall

-----------------------------------------------------------------------------
(* The data under the lock.                                                *)

(* What a step does to the request of a call: it is made once.             *)
LEMMA Requested ==
    ASSUME Values, [Next]_vars, NEW d \in Calls
    PROVE  /\ now <= now' /\ now' \in Nat /\ used \subseteq used'
           /\ \/ call'[d] = call[d] /\ since'[d] = since[d]
              \/ \E r \in Store!Requests : Begin(d, r)
<1> USE DEF data, request
<1>1. ASSUME NEW c \in Calls, Step(c)
      PROVE  UNCHANGED <<now, request>> /\ used \subseteq used'
  BY <1>1 DEF Step, AcquireThreadLock, OpenForLock, TakeFlock, CheckCurrent, CheckRefuses, CheckPut,
     CheckTouch, CheckDelete, WriteFails, Sync, Leave, PurgeWalk, Sweep, Look, Conclude, Replace,
     Unlink, CheckPurge, Rename, Remove
<1>2. CASE Tick
  BY <1>2 DEF Tick, Values
<1>3. CASE RemoveLockFile \/ UNCHANGED vars \/ \E s \in Stores : OpenStore(s) \/ CloseStore(s) \/ Crash(s)
  BY <1>3 DEF RemoveLockFile, vars, OpenStore, CloseStore, Crash, Values
<1>4. ASSUME NEW c \in Calls, NEW r \in Store!Requests, Begin(c, r)
      PROVE  /\ UNCHANGED <<now, used>>
             /\ c # d => call'[d] = call[d] /\ since'[d] = since[d]
  BY <1>4 DEF Begin, Values
<1> QED
  BY <1>1, <1>2, <1>3, <1>4 DEF Next, Environment, Values

(* What a step does to a thread: another one's leaves it alone.            *)
Checks(c) == CheckPut(c) \/ CheckTouch(c) \/ CheckDelete(c)
Settles(c) == CheckRefuses(c) \/ Replace(c) \/ Unlink(c) \/ Sweep(c) \/ Look(c) \/ Conclude(c)

LEMMA Touched ==
    ASSUME Values, LockTypes, [Next]_vars, NEW d \in Calls
    PROVE  /\ Checks(d) \/ (minted'[d] = minted[d] /\ until'[d] = until[d])
           /\ Settles(d) \/ outcome'[d] = outcome[d]
           /\ \/ Step(d) \/ \E r \in Store!Requests : Begin(d, r)
              \/ pc'[d] \in {pc[d], "crashed"}
<1> USE DEF data, request, writing
<1>1. ASSUME NEW c \in Calls, Step(c)
      PROVE  /\ Checks(c) \/ (minted'[d] = minted[d] /\ until'[d] = until[d])
             /\ Settles(c) \/ outcome'[d] = outcome[d]
  BY <1>1 DEF Step, AcquireThreadLock, OpenForLock, TakeFlock, CheckCurrent, CheckRefuses, CheckPut,
     CheckTouch, CheckDelete, WriteFails, Sync, Leave, PurgeWalk, Sweep, Look, Conclude, Replace,
     Unlink, CheckPurge, Rename, Remove, Checks, Settles
<1>2. ASSUME NEW c \in Calls, c # d, Step(c)
      PROVE  pc'[d] = pc[d] /\ (Checks(c) => minted'[d] = minted[d] /\ until'[d] = until[d])
             /\ (Settles(c) => outcome'[d] = outcome[d])
  <2>1. \E l : pc' = [pc EXCEPT ![c] = l]
    BY <1>2, LeaveTo DEF Step, AcquireThreadLock, OpenForLock, TakeFlock, CheckCurrent, CheckRefuses,
     CheckPut, CheckTouch, CheckDelete, WriteFails, Sync, PurgeWalk, Sweep, Look, Conclude,
     Replace, Unlink, CheckPurge, GiveUp
  <2>2. Checks(c) => minted'[d] = minted[d] /\ until'[d] = until[d]
    BY <1>2 DEF Checks, CheckPut, CheckTouch, CheckDelete, Values
  <2>3. Settles(c) => outcome'[d] = outcome[d]
    BY <1>2 DEF Settles, CheckRefuses, Sweep, Look, Conclude, Replace, Unlink, Values
  <2> QED
    BY <1>2, <2>1, <2>2, <2>3 DEF LockTypes
<1>3. CASE Tick \/ RemoveLockFile \/ UNCHANGED vars \/ \E s \in Stores : OpenStore(s) \/ CloseStore(s) \/ Crash(s)
  BY <1>3 DEF Tick, RemoveLockFile, vars, OpenStore, CloseStore, Crash
<1>4. ASSUME NEW c \in Calls, NEW r \in Store!Requests, Begin(c, r)
      PROVE  /\ UNCHANGED <<minted, until, outcome>>
             /\ c # d => pc'[d] = pc[d]
  BY <1>4 DEF Begin, LockTypes
<1> QED
  BY <1>1, <1>2, <1>3, <1>4 DEF Next, Environment

(* A thread about to write has just looked, or was about to write already. *)
LEMMA Arrives ==
    ASSUME Values, LockTypes, [Next]_vars, NEW d \in Calls, pc'[d] \in {"write", "unlink"}
    PROVE  \/ Checks(d)
           \/ /\ pc[d] = pc'[d] /\ minted'[d] = minted[d] /\ until'[d] = until[d]
              /\ call'[d] = call[d] /\ since'[d] = since[d]
<1>1. \A r \in Store!Requests : ~Begin(d, r)
  BY DEF Begin, LockTypes
<1>2. CASE Step(d)
  <2>1. \/ AcquireThreadLock(d) \/ OpenForLock(d) \/ TakeFlock(d) \/ CheckCurrent(d)
        \/ CheckRefuses(d) \/ WriteFails(d) \/ Sync(d) \/ PurgeWalk(d) \/ Sweep(d)
        \/ Look(d) \/ Conclude(d) \/ Replace(d) \/ Unlink(d) \/ CheckPurge(d)
        => \E l \in AllPcs \ {"write", "unlink"} : pc' = [pc EXCEPT ![d] = l]
    BY DEF AcquireThreadLock, OpenForLock, TakeFlock, CheckCurrent, CheckRefuses,
     WriteFails, Sync, PurgeWalk, Sweep, Look, Conclude, Replace, Unlink, CheckPurge, GiveUp,
     AllPcs, Inside
  <2>2. Leave(d) => \E l \in AllPcs \ {"write", "unlink"} : pc' = [pc EXCEPT ![d] = l]
    BY LeaveTo DEF AllPcs, Inside
  <2> QED
    BY <1>2, <2>1, <2>2 DEF Step, Checks, LockTypes
<1>3. CASE ~Step(d)
  <2>1. ~Checks(d)
    BY <1>3 DEF Checks, Step
  <2> QED
    BY <1>1, <1>3, <2>1, Touched, Requested
<1> QED
  BY <1>2, <1>3

(* What was found stays true while the document stays and time passes.     *)
LEMMA GrantedStays ==
    ASSUME Values, NEW d \in Calls, Granted(d), Asked(d), Still, now <= now', now' \in Nat, pc'[d] = pc[d],
           minted'[d] = minted[d], until'[d] = until[d], call'[d] = call[d], since'[d] = since[d]
    PROVE  Granted(d)'
<1>1. /\ since[d] \in Nat /\ now \in Nat /\ file.token \in Nat /\ file.expires \in Nat
      /\ call[d].ttl \in Nat
  BY DEF Values, Written, Moments
<1>2. Store!Expiries(d) \subseteq Store!Expiries(d)'
  BY <1>1 DEF Store!Expiries
<1>3. Store!WasLive(d) => Store!WasLive(d)'
  BY DEF Still, Store!WasLive
<1>4. ~Live(file) => ~Live(file)'
  BY <1>1 DEF Still, Live, Store!Live
<1>5. Asked(d) /\ Store!Matches(d) => Store!Matches(d)'
  BY <1>1 DEF Still, Store!Matches, Store!WasLive, Store!Held, Store!Live, Store!Absent, Asked
<1> QED
  BY <1>2, <1>3, <1>4, <1>5 DEF Granted, Still

(* Values, Paths and Stored hold of any store; what else is known of the   *)
(* data needs the lock.                                                    *)
Base == LockTypes /\ Values /\ Paths /\ Stored

LEMMA ChecksGrant ==
    ASSUME Base, NEW d \in Calls, Asked(d), Checks(d)
    PROVE  Granted(d)'
<1>1. /\ UNCHANGED <<file, used, now, call, since>> /\ pc \in [Calls -> AllPcs]
      /\ since[d] \in Nat /\ now \in Nat /\ file.token \in Nat /\ file.expires \in Nat
      /\ call[d].ttl \in Nat /\ since[d] <= now /\ writes \in Nat
      /\ used \subseteq 1..writes /\ DOMAIN minted = Calls /\ DOMAIN until = Calls
  BY DEF Checks, CheckPut, CheckTouch, CheckDelete, data, request, Base, Values, LockTypes,
     Written, Moments, Asked
<1>2. Expiry(d) \in Store!Expiries(d)
  BY <1>1 DEF Expiry, Store!Expiries
<1>3. ~Refused(d) /\ call[d].kind # "touch" => Store!Matches(d)
  BY DEF Refused, Store!Matches
<1>4. Live(file) => Store!WasLive(d) /\ file.token # 0 /\ Store!Held(file, now) = file.token
  BY <1>1 DEF Live, Store!Live, Store!WasLive, Store!Held
<1>5. ~Live(file) => Store!Held(file, now) = 0
  BY DEF Live, Store!Held, Store!Absent
<1>6. CASE CheckPut(d)
  <2>1. /\ pc'[d] = "write" /\ minted'[d] = writes + 1 /\ until'[d] = Expiry(d)
        /\ call[d].kind = "put" /\ ~Refused(d)
    BY <1>1, <1>6 DEF CheckPut
  <2>2. Store!Matches(d)' /\ until'[d] \in Store!Expiries(d)'
    BY <1>1, <1>2, <1>3, <2>1 DEF Store!Matches, Store!WasLive, Store!Expiries
  <2>3. minted'[d] \notin used \cup {0}
    BY <1>1, <2>1
  <2> QED
    BY <1>1, <2>1, <2>2, <2>3 DEF Granted
<1>7. CASE CheckTouch(d)
  <2>1. /\ pc'[d] = "write" /\ minted'[d] = file.token /\ until'[d] = Expiry(d)
        /\ call[d].kind = "touch" /\ ~Refused(d) /\ Live(file)
    BY <1>1, <1>7 DEF CheckTouch
  <2>2. call[d].match \in {Anything, file.token}
    BY <1>4, <2>1 DEF Refused
  <2>3. until'[d] \in Store!Expiries(d)' /\ Store!WasLive(d)'
    BY <1>1, <1>2, <1>4, <2>1 DEF Store!Expiries, Store!WasLive
  <2> QED
    BY <1>1, <2>1, <2>2, <2>3 DEF Granted
<1>8. CASE CheckDelete(d)
  <2>1. /\ pc'[d] = "unlink" /\ minted'[d] = Store!Held(file, now)
        /\ call[d].kind = "delete" /\ ~Refused(d)
    BY <1>1, <1>8 DEF CheckDelete
  <2>2. Store!Matches(d)'
    BY <1>1, <1>3, <2>1 DEF Store!Matches, Store!WasLive
  <2>3. IF minted'[d] = 0 THEN ~Live(file)'
        ELSE Store!WasLive(d)' /\ minted'[d] = file.token
    BY <1>1, <1>4, <1>5, <2>1 DEF Store!WasLive, Live
  <2> QED
    BY <1>1, <2>1, <2>2, <2>3 DEF Granted
<1> QED
  BY <1>6, <1>7, <1>8 DEF Checks

(* The document changes only under the lock. *)
LEMMA GrantedStep ==
    ASSUME Base, OneWriter, [Next]_vars, NEW d \in Calls, Granted(d), Asked(d)
    PROVE  Granted(d)'
<1> SUFFICES ASSUME pc'[d] \in {"write", "unlink"}
             PROVE  Granted(d)'
  BY DEF Granted
<1>1. CASE Checks(d)
  BY <1>1, ChecksGrant
<1>2. CASE ~Checks(d)
  <2>1. /\ pc[d] = pc'[d] /\ minted'[d] = minted[d] /\ until'[d] = until[d]
        /\ call'[d] = call[d] /\ since'[d] = since[d]
    BY <1>2, Arrives DEF Base
  <2>2. ASSUME NEW c \in Calls, Replace(c) \/ Unlink(c) \/ CheckPurge(c)
        PROVE  FALSE
    <3>1. pc[c] \in {"write", "unlink", "check"} /\ \E l \in {"sync", "leave"} : pc' = [pc EXCEPT ![c] = l]
      BY <2>2 DEF Replace, Unlink, CheckPurge
    <3>2. c = d
      BY <2>1, <3>1 DEF OneWriter, Inside
    <3> QED
      BY <2>1, <3>1, <3>2 DEF Base, LockTypes
  <2>3. Still
    BY <2>2, StillSteps
  <2> QED
    BY <2>1, <2>3, GrantedStays, Requested DEF Base
<1> QED
  BY <1>1, <1>2

LEMMA AskedStep ==
    ASSUME Base, [Next]_vars, NEW d \in Calls, Asked(d)
    PROVE  Asked(d)'
<1>1. now <= now' /\ now' \in Nat /\ used \subseteq used' /\ now \in Nat /\ since[d] \in Nat
  BY Requested DEF Base, Values
<1>2. CASE call'[d] = call[d] /\ since'[d] = since[d]
  BY <1>1, <1>2 DEF Asked
<1>3. ASSUME NEW r \in Store!Requests, Begin(d, r)
      PROVE  Asked(d)'
  <2>1. call'[d] = r /\ since'[d] = now /\ now' = now
    BY <1>3 DEF Begin, data, Base, Values
  <2>2. r.match \in used \cup {0, Anything}
    BY DEF Store!Requests, Store!Absent
  <2> QED
    BY <1>1, <2>1, <2>2 DEF Asked
<1> QED
  BY <1>2, <1>3, Requested DEF Base

(* What a write puts in the place of a token. *)
LEMMA TokenStep ==
    ASSUME Base, [Next]_vars, \A c \in Calls : Granted(c)
    PROVE  file'.token \in {file.token, 0} \/ file'.token \notin used
<1>1. ASSUME NEW c \in Calls, Replace(c)
      PROVE  file'.token = file.token \/ file'.token \notin used
  <2>1. /\ file'.token = minted[c] /\ pc[c] = "write"
    BY <1>1 DEF Replace, Rename
  <2>2. call[c].kind \in {"put", "touch"}
    BY <2>1 DEF Base, Paths, Path
  <2> QED
    BY <2>1, <2>2 DEF Granted
<1>2. ASSUME NEW c \in Calls, Unlink(c) \/ CheckPurge(c)
      PROVE  file'.token \in {file.token, 0}
  BY <1>2 DEF Unlink, CheckPurge, Remove, Store!NoDoc, data
<1>3. CASE Still
  BY <1>3 DEF Still
<1> QED
  BY <1>1, <1>2, <1>3, StillSteps

(* A conditional put that took effect replaced the token it named, which   *)
(* no later write has: it was the document's until that moment.            *)
LEMMA Replaces ==
    ASSUME Base, NEW d \in Calls, Granted(d), Asked(d), Replace(d), call[d].kind = "put"
    PROVE  /\ call[d].match \notin {0, Anything} => call[d].match = file.token
           /\ file'.token \notin used
           /\ call'[d] = call[d] /\ used \subseteq used'
<1>1. /\ file'.token = minted[d] /\ pc[d] = "write" /\ UNCHANGED call /\ used \subseteq used'
  BY DEF Replace, Rename, request
<1>2. Store!Matches(d) /\ minted[d] \notin used
  BY <1>1 DEF Granted
<1> QED
  BY <1>1, <1>2 DEF Store!Matches, Store!Held, Store!Absent

LEMMA PutsDone ==
    ASSUME Base, [Next]_vars, NEW d \in Calls, call'[d].kind = "put", outcome'[d] = "ok", Asked(d)
    PROVE  \/ Replace(d) /\ call[d].kind = "put"
           \/ outcome[d] = "ok" /\ call'[d] = call[d]
<1>1. ASSUME NEW r \in Store!Requests, Begin(d, r)
      PROVE  FALSE
  <2>1. outcome[d] = "none" /\ outcome' = outcome
    BY <1>1 DEF Begin, Base, Paths, Path, Early
  <2> QED
    BY <2>1
<1>2. call'[d] = call[d]
  BY <1>1, Requested DEF Base
<1>3. CASE Settles(d)
  <2>1. CASE Replace(d)
    BY <1>2, <2>1
  <2>2. CASE CheckRefuses(d)
    <3>1. outcome'[d] \in {"stale", "missing"}
      BY <2>2 DEF CheckRefuses, Base, Values
    <3> QED
      BY <3>1
  <2>3. CASE Unlink(d) \/ Sweep(d) \/ Look(d) \/ Conclude(d)
    BY <1>2, <2>3 DEF Unlink, Sweep, Look, Conclude, Base, Paths, Path
  <2> QED
    BY <1>3, <2>1, <2>2, <2>3 DEF Settles
<1> QED
  BY <1>2, <1>3, Touched DEF Base

LEMMA SpentStep ==
    ASSUME Base, [Next]_vars, \A c \in Calls : Granted(c) /\ Asked(c) /\ Spent(c), CasOnce
    PROVE  CasOnce' /\ \A c \in Calls : Spent(c)'
<1>1. used \subseteq used'
  <2>1. ASSUME NEW c \in Calls PROVE used \subseteq used'
    BY Requested DEF Base
  <2>2. CASE Calls = {}
    BY <2>2, StillSteps DEF Still
  <2> QED
    BY <2>1, <2>2
<1>2. \A c \in Calls : Spent(c)'
  <2> SUFFICES ASSUME NEW c \in Calls, call'[c].kind = "put", outcome'[c] = "ok",
                      call'[c].match \notin {0, Anything}
               PROVE  call'[c].match \in used' \ {file'.token}
    BY DEF Spent
  <2>1. CASE Replace(c) /\ call[c].kind = "put"
    <3>1. call[c].match \in used /\ file'.token \notin used /\ call'[c] = call[c]
      BY <2>1, Replaces DEF Asked
    <3> QED
      BY <1>1, <3>1
  <2>2. CASE outcome[c] = "ok" /\ call'[c] = call[c]
    <3>1. call[c].match \in used \ {file.token}
      BY <2>2 DEF Spent
    <3>2. file'.token \in {file.token, 0} \/ file'.token \notin used
      BY TokenStep
    <3> QED
      BY <1>1, <2>2, <3>1, <3>2
  <2> QED
    BY <2>1, <2>2, PutsDone
<1>3. CasOnce'
  <2> SUFFICES ASSUME NEW c \in Calls, NEW d \in Calls, c # d,
                      call'[c].kind = "put", call'[d].kind = "put",
                      outcome'[c] = "ok", outcome'[d] = "ok",
                      call'[c].match = call'[d].match, call'[c].match \notin {Anything, 0}
               PROVE  FALSE
    BY DEF CasOnce, Store!Absent
  <2>1. ASSUME NEW e \in Calls, NEW f \in Calls, e # f, Replace(e), call[e].kind = "put",
               call[e].match \notin {Anything, 0}, Replace(f)
        PROVE  FALSE
    BY <2>1 DEF Replace, Base, LockTypes
  <2>2. ASSUME NEW e \in Calls, NEW f \in Calls, Replace(e), call[e].kind = "put",
               call[e].match \notin {Anything, 0}, call[f].match = call[e].match,
               call[f].kind = "put", outcome[f] = "ok"
        PROVE  FALSE
    <3>1. call[e].match = file.token
      BY <2>2, Replaces
    <3> QED
      BY <2>2, <3>1 DEF Spent
  <2>3. \A e \in Calls : Replace(e) => call' = call
    BY DEF Replace, request
  <2>4. CASE ~Replace(c) /\ ~Replace(d)
    BY <2>4, PutsDone DEF CasOnce, Store!Absent
  <2>5. CASE Replace(c)
    <3>1. ~Replace(d)
      BY <2>1, <2>3, <2>5
    <3> QED
      BY <2>2, <2>3, <2>5, <3>1, PutsDone
  <2>6. CASE Replace(d)
    <3>1. ~Replace(c)
      BY <2>1, <2>3, <2>6
    <3> QED
      BY <2>2, <2>3, <2>6, <3>1, PutsDone
  <2> QED
    BY <2>4, <2>5, <2>6
<1> QED
  BY <1>2, <1>3

LEMMA BaseStep == Base /\ [Next]_vars => Base'
BY LockTypesStep, ValuesStep, PathsStep, StoredStep DEF Base, Paths

LEMMA BaseInvariant == Spec => []Base
<1>1. Init => Base
  BY InitLocks, InitData DEF Base, LockInv
<1> QED
  BY <1>1, BaseStep, PTL DEF Spec

-----------------------------------------------------------------------------
(* Counting the tokens.                                                    *)

(* Each put mints one token. *)
Minting == {c \in Calls : call[c].kind = "put" /\ minted[c] # 0}
Counted == writes = 1 + Cardinality(Minting)

LEMMA CountedStep ==
    ASSUME IsFiniteSet(Calls), Base, Counted, [Next]_vars
    PROVE  Counted'
<1>1. ASSUME NEW d \in Calls, ~CheckPut(d)
      PROVE  d \in Minting' <=> d \in Minting
  <2>1. CASE CheckTouch(d) \/ CheckDelete(d)
    BY <2>1 DEF CheckTouch, CheckDelete, request, Minting
  <2>2. ASSUME NEW r \in Store!Requests, Begin(d, r)
        PROVE  minted'[d] = 0 /\ minted[d] = 0
    BY <2>2 DEF Begin, writing, Base, Paths, Path, Early
  <2>3. CASE call'[d] = call[d] /\ minted'[d] = minted[d]
    BY <2>3 DEF Minting
  <2> QED
    BY <1>1, <2>1, <2>2, <2>3, Touched, Requested DEF Base, Checks, Minting
<1>2. IsFiniteSet(Minting) /\ Cardinality(Minting) \in Nat
  BY FS_Subset, FS_CardinalityType DEF Minting
<1>3. CASE \E c \in Calls : CheckPut(c)
  <2>1. PICK c \in Calls : CheckPut(c)
    BY <1>3
  <2>2. \A d \in Calls \ {c} : ~CheckPut(d)
    BY <2>1 DEF CheckPut, Base, LockTypes
  <2>3. c \notin Minting /\ c \in Minting' /\ writes' = writes + 1
    BY <2>1 DEF CheckPut, Minting, request, Base, Paths, Path, Early, Values
  <2>4. Minting' = Minting \cup {c}
    BY <1>1, <2>2, <2>3 DEF Minting
  <2>5. Cardinality(Minting') = Cardinality(Minting) + 1
    BY <1>2, <2>3, <2>4, FS_AddElement
  <2> QED
    BY <1>2, <2>3, <2>5 DEF Counted
<1>4. CASE ~\E c \in Calls : CheckPut(c)
  <2>1. Minting' = Minting
    BY <1>1, <1>4 DEF Minting
  <2>2. ASSUME NEW c \in Calls, Step(c)
        PROVE  writes' = writes
    BY <1>4, <2>2 DEF Step, AcquireThreadLock, OpenForLock, TakeFlock, CheckCurrent, CheckRefuses,
       CheckTouch, CheckDelete, WriteFails, Sync, Leave, PurgeWalk, Sweep, Look, Conclude, Replace,
       Unlink, CheckPurge, writing
  <2>3. ASSUME Environment \/ UNCHANGED vars
        PROVE  writes' = writes
    <3>1. CASE UNCHANGED vars
      BY <3>1 DEF vars, writing
    <3>2. CASE Tick \/ RemoveLockFile \/ \E s \in Stores : OpenStore(s) \/ CloseStore(s) \/ Crash(s)
      BY <3>2 DEF Tick, RemoveLockFile, OpenStore, CloseStore, Crash, writing
    <3>3. ASSUME NEW c \in Calls, NEW r \in Store!Requests, Begin(c, r)
          PROVE  writes' = writes
      BY <3>3 DEF Begin, writing
    <3> QED
      BY <2>3, <3>1, <3>2, <3>3 DEF Environment
  <2> QED
    BY <2>1, <2>2, <2>3 DEF Counted, Next
<1> QED
  BY <1>3, <1>4

LEMMA InitCounted ==
    ASSUME Init
    PROVE  Counted
<1>1. Minting = {} /\ writes = 1
  BY DEF Init, Minting
<1> QED
  BY <1>1, FS_EmptySet DEF Counted

LEMMA Types ==
    ASSUME IsFiniteSet(Calls), Base, Counted
    PROVE  TypeOK
<1>1. Cardinality(Minting) \in Nat /\ Cardinality(Calls) \in Nat
      /\ Cardinality(Minting) <= Cardinality(Calls)
  BY FS_Subset, FS_CardinalityType DEF Minting
<1>2. 0..writes \subseteq Tokens /\ writes \in Tokens
  BY <1>1 DEF Counted, Tokens
<1>3. Written \subseteq Entries
  BY <1>2 DEF Written, Entries
<1>4. Pcs = AllPcs
  BY DEF Pcs, AllPcs, Queued
<1>5. call \in [Calls -> [kind : Kinds \cup {"none"}, match : Tokens \cup {Anything}, ttl : 0..MaxTtl]]
  BY <1>2 DEF Base, Values
<1>6. file \in Entries /\ seen \in [Calls -> Entries]
  BY <1>3 DEF Base, Values
<1>7. used \subseteq Tokens /\ minted \in [Calls -> Tokens]
  <2>1. \A u \in used : u \in 0..writes
    BY DEF Base, Values
  <2> QED
    BY <1>2, <2>1 DEF Base, Values
<1> QED
  BY <1>2, <1>4, <1>5, <1>6, <1>7 DEF Base, Values, LockTypes, TypeOK

(* Every variable has its type; the tokens of any number of calls are made *)
(* by their puts, one each. *)
THEOREM TypeCorrect == IsFiniteSet(Calls) => (Spec => []TypeOK)
<1> SUFFICES ASSUME IsFiniteSet(Calls)
             PROVE  Spec => []TypeOK
  OBVIOUS
<1>1. Counted /\ Base /\ [Next]_vars => Counted'
  BY CountedStep
<1>2. Init => Counted
  BY InitCounted
<1>3. Base /\ Counted => TypeOK
  BY Types
<1> QED
  BY <1>1, <1>2, <1>3, BaseInvariant, PTL DEF Spec

-----------------------------------------------------------------------------
(* Temporary files.                                                        *)

Tidy == \A c \in Calls : tmp[c] # 0 => pc[c] \in {"write", "crashed"}

LEMMA TidyStep ==
    ASSUME Base, Tidy, [Next]_vars
    PROVE  Tidy'
<1> USE DEF data, request, writing
<1>1. ASSUME NEW c \in Calls,
             \/ AcquireThreadLock(c) \/ OpenForLock(c) \/ TakeFlock(c) \/ CheckCurrent(c)
             \/ CheckRefuses(c) \/ Sync(c) \/ Unlink(c) \/ PurgeWalk(c)
             \/ CheckPurge(c) \/ Look(c) \/ Conclude(c) \/ CheckDelete(c) \/ Leave(c)
      PROVE  Tidy'
  <2>1. pc[c] \notin {"write", "crashed"} /\ tmp' = tmp
    BY <1>1 DEF AcquireThreadLock, OpenForLock, TakeFlock, CheckCurrent, CheckRefuses, Sync, Unlink,
       PurgeWalk, CheckPurge, Look, Conclude, CheckDelete, Leave
  <2>2. \E l : pc' = [pc EXCEPT ![c] = l]
    BY <1>1, LeaveTo DEF AcquireThreadLock, OpenForLock, TakeFlock, CheckCurrent, CheckRefuses, Sync,
       Unlink, PurgeWalk, CheckPurge, Look, Conclude, CheckDelete, GiveUp
  <2> QED
    BY <2>1, <2>2 DEF Tidy, Base, LockTypes
<1>2. ASSUME NEW c \in Calls, CheckPut(c) \/ CheckTouch(c)
      PROVE  Tidy'
  <2>1. pc' = [pc EXCEPT ![c] = "write"] /\ tmp' = [tmp EXCEPT ![c] = now]
    BY <1>2 DEF CheckPut, CheckTouch
  <2> QED
    BY <2>1 DEF Tidy, Base, LockTypes, Values
<1>3. ASSUME NEW c \in Calls, Replace(c) \/ WriteFails(c)
      PROVE  Tidy'
  <2>1. tmp' = [tmp EXCEPT ![c] = 0] /\ \E l : pc' = [pc EXCEPT ![c] = l]
    BY <1>3 DEF Replace, WriteFails
  <2> QED
    BY <2>1 DEF Tidy, Base, LockTypes, Values
<1>4. SweepTemps => \A d \in Calls : tmp'[d] \in {tmp[d], 0}
  BY DEF SweepTemps
<1>5. ASSUME NEW c \in Calls, Sweep(c)
      PROVE  Tidy'
  BY <1>4, <1>5 DEF Sweep, Tidy, Base, LockTypes
<1>6. ASSUME NEW s \in Stores, OpenStore(s)
      PROVE  Tidy'
  BY <1>4, <1>6 DEF OpenStore, Tidy
<1>7. ASSUME NEW s \in Stores, Crash(s)
      PROVE  Tidy'
  BY <1>7 DEF Crash, Tidy
<1>8. ASSUME NEW c \in Calls, NEW r \in Store!Requests, Begin(c, r)
      PROVE  Tidy'
  BY <1>8 DEF Begin, Tidy, Base, LockTypes
<1>9. CASE Tick \/ RemoveLockFile \/ UNCHANGED vars \/ \E s \in Stores : CloseStore(s)
  BY <1>9 DEF Tick, RemoveLockFile, vars, CloseStore, Tidy
<1> QED
  BY <1>1, <1>2, <1>3, <1>5, <1>6, <1>7, <1>8, <1>9 DEF Next, Environment, Step

(* A temporary file belongs to a write in progress, or to a process that   *)
(* died in the middle of one: no call leaves one behind.                   *)
THEOREM NothingLeftBehind == IsFiniteSet(Calls) => (Spec => []NoLitter)
<1> SUFFICES ASSUME IsFiniteSet(Calls)
             PROVE  Spec => []NoLitter
  OBVIOUS
<1>1. Tidy /\ Base /\ [Next]_vars => Tidy'
  BY TidyStep
<1>2. Init => Tidy
  BY DEF Init, Tidy
<1>3. TypeOK /\ Tidy => NoLitter
  BY DEF NoLitter, Tidy
<1> QED
  BY <1>1, <1>2, <1>3, BaseInvariant, TypeCorrect, PTL DEF Spec

-----------------------------------------------------------------------------
(* What the lock is for.                                                   *)

DataInv == LockInv /\ Base /\ CasOnce /\ \A c \in Calls : Asked(c) /\ Granted(c) /\ Spent(c)

LEMMA DataInvariant == Quiet => (Spec => []DataInv)
<1> SUFFICES ASSUME Quiet
             PROVE  Spec => []DataInv
  OBVIOUS
<1>1. Init => DataInv
  <2>1. Init => CasOnce
    BY DEF Init, Store!Init, CasOnce
  <2> QED
    BY <2>1, InitLocks, InitData DEF DataInv, Base, LockInv
<1>2. DataInv /\ [Next]_vars => DataInv'
  BY NextLocks, BaseStep, Exclusion, AskedStep, GrantedStep, SpentStep DEF DataInv
<1> QED
  BY <1>1, <1>2, PTL DEF Spec

(* Of the puts conditioned on one token at most one takes effect, whatever *)
(* store objects they are made of and whichever processes die: the token   *)
(* one of them replaced never names the document again.                    *)
THEOREM CompareAndSet == Quiet => (Spec => []CasOnce)
<1>1. DataInv => CasOnce
  BY DEF DataInv
<1> QED
  BY <1>1, DataInvariant, PTL

LEMMA LiveStep ==
    ASSUME DataInv, [Next]_vars, Live(file), file' = Store!NoDoc
    PROVE  \E c \in Calls : /\ pc[c] = "unlink" /\ call[c].kind = "delete"
                            /\ minted[c] = file.token
<1>1. ASSUME NEW c \in Calls, Replace(c)
      PROVE  FALSE
  <2>1. minted[c] # 0 /\ file'.token = minted[c]
    BY <1>1 DEF Replace, Rename, DataInv, Base, Paths, Path
  <2> QED
    BY <2>1 DEF Store!NoDoc
<1>2. ASSUME NEW c \in Calls, Unlink(c)
      PROVE  pc[c] = "unlink" /\ call[c].kind = "delete" /\ minted[c] = file.token
  BY <1>2 DEF Unlink, DataInv, Base, Paths, Path, Granted
<1>3. ASSUME NEW c \in Calls, CheckPurge(c)
      PROVE  FALSE
  <2>1. file' = file
    BY <1>3 DEF CheckPurge, data
  <2> QED
    BY <2>1 DEF Live, Store!Live, Store!NoDoc
<1>4. CASE Still
  BY <1>4 DEF Still, Live, Store!Live, Store!NoDoc
<1> QED
  BY <1>1, <1>2, <1>3, <1>4, StillSteps

(* A live document is only ever removed by a delete that found it.         *)
THEOREM LiveStays == Quiet => (Spec => LiveIsKept)
<1> SUFFICES ASSUME Quiet
             PROVE  Spec => LiveIsKept
  OBVIOUS
<1>1. DataInv /\ [Next]_vars =>
        [Live(file) /\ file' = Store!NoDoc =>
           \E c \in Calls : /\ pc[c] = "unlink" /\ call[c].kind = "delete"
                            /\ minted[c] = file.token]_vars
  BY LiveStep
<1> QED
  BY <1>1, DataInvariant, PTL DEF Spec, LiveIsKept

-----------------------------------------------------------------------------
(* The refinement.                                                         *)

(* A step of one thread moves its call only. *)
LEMMA Moves ==
    ASSUME LockTypes, NEW c \in Calls, NEW l \in AllPcs, pc' = [pc EXCEPT ![c] = l]
    PROVE  /\ \A d \in Calls \ {c} : State(d)' = State(d)
           /\ l = "idle" => State(c)' = "idle"
           /\ l = "done" => State(c)' = "returned"
           /\ l \in {"failed", "crashed"} => State(c)' = "failed"
           /\ l \notin {"idle", "done", "failed", "crashed"} => State(c)' = "called"
<1>1. \A d \in Calls : pc'[d] = IF d = c THEN l ELSE pc[d]
  BY DEF LockTypes
<1> QED
  BY <1>1 DEF State

LEMMA CalledIs ==
    ASSUME NEW c \in Calls, ~Over(c)
    PROVE  State(c) = "called"
BY DEF State, Over

Frame == UNCHANGED <<data, request, seen>>

LEMMA Stutters ==
    ASSUME Frame, UNCHANGED outcome, \A d \in Calls : State(d)' = State(d)
    PROVE  UNCHANGED Store!vars
BY DEF Frame, data, request, Store!vars, Store!callvars

LEMMA Fails ==
    ASSUME Frame, UNCHANGED outcome, NEW cs \in SUBSET Calls,
           \A d \in Calls : State(d)' = IF d \in cs THEN "failed" ELSE State(d),
           \A d \in cs : State(d) = "called"
    PROVE  Store!Fail(cs)
BY DEF Frame, data, request, Store!Fail

(* What a call returns is decided, and it returns then or later. *)
LEMMA Decides ==
    ASSUME UNCHANGED <<now, request>>, LockTypes, NEW c \in Calls, ~Over(c), NEW o,
           outcome' = [outcome EXCEPT ![c] = o],
           NEW l \in (Inside \cup {"done"}), pc' = [pc EXCEPT ![c] = l]
    PROVE  Store!Decide(c, o)
<1> DEFINE s == [d \in Calls |-> State(d)]
<1>1. /\ State(c)' = (IF l = "done" THEN "returned" ELSE "called") /\ State(c) = "called"
      /\ \A d \in Calls \ {c} : State(d)' = State(d)
  BY Moves, CalledIs DEF AllPcs, Inside
<1>2. s' \in {s, [s EXCEPT ![c] = "returned"]}
  <2>1. CASE l = "done"
    BY <1>1, <2>1
  <2>2. CASE l # "done"
    BY <1>1, <2>2
  <2> QED
    BY <2>1, <2>2
<1> QED
  BY <1>2 DEF Store!Decide, request

(* It goes on. *)
LEMMA GoesOn ==
    ASSUME LockTypes, NEW c \in Calls, ~Over(c),
           NEW l \in AllPcs \ {"idle", "done", "failed", "crashed"}, pc' = [pc EXCEPT ![c] = l]
    PROVE  \A d \in Calls : State(d)' = State(d)
<1>1. \A d \in Calls : pc'[d] = IF d = c THEN l ELSE pc[d]
  BY DEF LockTypes
<1> QED
  BY <1>1 DEF State, Over

LEMMA UndecidedIs ==
    ASSUME NEW c \in Calls, ~Over(c), outcome[c] = "none"
    PROVE  Store!Undecided(c)
BY CalledIs DEF Store!Undecided

(* A step within a thread that nobody sees. *)
LEMMA Inner ==
    ASSUME LockTypes, NEW c \in Calls, ~Over(c), Frame, UNCHANGED outcome,
           NEW l \in AllPcs \ {"idle", "done", "failed", "crashed"}, pc' = [pc EXCEPT ![c] = l]
    PROVE  UNCHANGED Store!vars
BY GoesOn, Stutters

(* The call raises. *)
LEMMA Raises ==
    ASSUME LockTypes, NEW c \in Calls, ~Over(c), Frame, UNCHANGED outcome,
           pc' = [pc EXCEPT ![c] = "failed"]
    PROVE  Store!Next
<1>1. State(c) = "called" /\ State(c)' = "failed" /\ \A d \in Calls \ {c} : State(d)' = State(d)
  BY CalledIs, Moves DEF AllPcs
<1>2. Store!Fail({c})
  BY <1>1, Fails
<1> QED
  BY <1>2 DEF Store!Next

LEMMA InnerSteps ==
    ASSUME DataInv, NEW c \in Calls,
           \/ AcquireThreadLock(c) \/ CheckPut(c) \/ CheckTouch(c) \/ CheckDelete(c)
           \/ WriteFails(c) \/ Sync(c) \/ PurgeWalk(c)
    PROVE  UNCHANGED Store!vars
<1>1. \E l \in AllPcs \ {"idle", "done", "failed", "crashed"} : pc' = [pc EXCEPT ![c] = l]
  BY DEF AcquireThreadLock, CheckPut, CheckTouch, CheckDelete, WriteFails, Sync, PurgeWalk, AllPcs,
     Inside
<1>2. Frame /\ UNCHANGED outcome
  BY DEF Frame, AcquireThreadLock, CheckPut, CheckTouch, CheckDelete, WriteFails, Sync, PurgeWalk
<1>3. ~Over(c)
  BY DEF Over, AcquireThreadLock, CheckPut, CheckTouch, CheckDelete, WriteFails, Sync, PurgeWalk
<1> QED
  BY <1>1, <1>2, <1>3, Inner DEF DataInv, Base

(* The steps up to the lock: they end where they are wanted, or raise.     *)
LEMMA LockSteps ==
    ASSUME DataInv, NEW c \in Calls, OpenForLock(c) \/ TakeFlock(c) \/ CheckCurrent(c)
    PROVE  Store!Next \/ UNCHANGED Store!vars
<1>1. Frame /\ UNCHANGED outcome /\ ~Over(c) /\ LockTypes
  BY DEF Frame, OpenForLock, TakeFlock, CheckCurrent, Over, DataInv, Base
<1>2. PICK l \in {"failed", "flock", "current", "check", "open"} : pc' = [pc EXCEPT ![c] = l]
  BY DEF OpenForLock, TakeFlock, CheckCurrent, GiveUp
<1>3. CASE l = "failed"
  BY <1>1, <1>2, <1>3, Raises
<1>4. CASE l # "failed"
  BY <1>1, <1>2, <1>4, Inner DEF AllPcs, Inside
<1> QED
  BY <1>3, <1>4

LEMMA LeaveStep ==
    ASSUME DataInv, NEW c \in Calls, Leave(c)
    PROVE  Store!Next \/ UNCHANGED Store!vars
<1>1. Frame /\ UNCHANGED outcome /\ ~Over(c) /\ LockTypes
  BY DEF Frame, Leave, Over, DataInv, Base
<1>2. PICK l \in {"failed", "sweep", "done"} :
        /\ pc' = [pc EXCEPT ![c] = l]
        /\ l = "done" => pc[c] = "leave" /\ call[c].kind # "purge"
  BY LeaveTo
<1>3. CASE l = "failed"
  BY <1>1, <1>2, <1>3, Raises
<1>4. CASE l = "sweep"
  BY <1>1, <1>2, <1>4, Inner DEF AllPcs
<1>5. CASE l = "done"
  <2>1. outcome[c] # "none"
    BY <1>2, <1>5 DEF DataInv, Base, Paths, Path
  <2>2. State(c) = "called" /\ State(c)' = "returned" /\ \A d \in Calls \ {c} : State(d)' = State(d)
    BY <1>1, <1>2, <1>5, CalledIs, Moves DEF AllPcs
  <2>3. Store!Return(c)
    BY <1>1, <2>1, <2>2 DEF Store!Return, Frame, data, request
  <2> QED
    BY <2>3 DEF Store!Next
<1> QED
  BY <1>3, <1>4, <1>5

LEMMA RefuseStep ==
    ASSUME DataInv, NEW c \in Calls, CheckRefuses(c)
    PROVE  Store!Next
<1>1. Frame /\ ~Over(c) /\ LockTypes /\ pc' = [pc EXCEPT ![c] = "leave"] /\ outcome[c] = "none"
  BY DEF Frame, CheckRefuses, Over, DataInv, Base, Paths, Path, Early
<1>2. Store!Undecided(c)
  BY <1>1, UndecidedIs
<1>3. CASE Refused(c) /\ outcome' = [outcome EXCEPT ![c] = "stale"]
  <2>1. Store!Decide(c, "stale")
    BY <1>1, <1>3, Decides DEF Frame, data, request, Inside
  <2>2. Store!Refuse(c)
    BY <1>1, <1>2, <1>3, <2>1 DEF Store!Refuse, Refused, Live, Store!Kept, Frame, data
  <2> QED
    BY <2>2 DEF Store!Next
<1>4. CASE call[c].kind = "touch" /\ ~Live(file) /\ outcome' = [outcome EXCEPT ![c] = "missing"]
  <2>1. Store!Decide(c, "missing")
    BY <1>1, <1>4, Decides DEF Frame, data, request, Inside
  <2>2. Store!Missing(c)
    BY <1>1, <1>2, <1>4, <2>1 DEF Store!Missing, Live, Store!Kept, Frame, data
  <2> QED
    BY <2>2 DEF Store!Next
<1> QED
  BY <1>3, <1>4 DEF CheckRefuses

(* The moment a put or a renewed lease takes effect. *)
LEMMA ReplaceStep ==
    ASSUME DataInv, NEW c \in Calls, Replace(c)
    PROVE  Store!Next
<1> DEFINE e == [token |-> minted[c], expires |-> until[c]]
<1>1. /\ pc[c] = "write" /\ pc' = [pc EXCEPT ![c] = "sync"] /\ file' = e /\ UNCHANGED <<now, request>>
      /\ used' = used \cup {minted[c]} /\ seen' = [seen EXCEPT ![c] = e]
      /\ outcome' = [outcome EXCEPT ![c] = "ok"] /\ ~Over(c) /\ LockTypes
  BY DEF Replace, Rename, Over, DataInv, Base
<1>2. /\ call[c].kind \in {"put", "touch"} /\ Store!Undecided(c) /\ until[c] \in Store!Expiries(c)
  BY <1>1, UndecidedIs DEF DataInv, Base, Paths, Path, Granted
<1>3. Store!Decide(c, "ok")
  BY <1>1, Decides DEF Inside
<1>4. CASE call[c].kind = "put"
  <2>1. /\ Store!Matches(c) /\ minted[c] \notin used \cup {0} /\ minted[c] \in Nat
    BY <1>1, <1>4 DEF DataInv, Granted, Base, Values
  <2>2. e \in [token : Nat \ (used \cup {0}), expires : Store!Expiries(c)]
    BY <1>2, <2>1
  <2>3. Store!Put(c)
    BY <1>1, <1>2, <1>3, <1>4, <2>1, <2>2 DEF Store!Put
  <2> QED
    BY <2>3 DEF Store!Next
<1>5. CASE call[c].kind = "touch"
  <2>1. /\ Store!WasLive(c) /\ call[c].match \in {Anything, file.token} /\ minted[c] = file.token
    BY <1>1, <1>5 DEF DataInv, Granted
  <2>2. e = [file EXCEPT !.expires = until[c]]
    BY <2>1 DEF DataInv, Base, Values, Written
  <2>3. used' = used
    BY <1>1, <2>1 DEF DataInv, Base, Stored, Store!WasLive
  <2>4. Store!Touch(c)
    BY <1>1, <1>2, <1>3, <1>5, <2>1, <2>2, <2>3 DEF Store!Touch
  <2> QED
    BY <2>4 DEF Store!Next
<1> QED
  BY <1>2, <1>4, <1>5

LEMMA UnlinkStep ==
    ASSUME DataInv, NEW c \in Calls, Unlink(c)
    PROVE  Store!Next
<1> DEFINE o == IF file = Store!NoDoc \/ minted[c] = 0 THEN "missing" ELSE "ok"
<1>1. /\ pc[c] = "unlink" /\ pc' = [pc EXCEPT ![c] = "leave"] /\ file' = Store!NoDoc
      /\ UNCHANGED <<now, request, used, seen>>
      /\ outcome' = [outcome EXCEPT ![c] = o] /\ ~Over(c) /\ LockTypes
  BY DEF Unlink, Remove, Over, DataInv, Base, data
<1>2. /\ call[c].kind = "delete" /\ Store!Undecided(c) /\ Store!Matches(c)
      /\ IF minted[c] = 0 THEN ~Live(file) ELSE Store!WasLive(c) /\ minted[c] = file.token
  BY <1>1, UndecidedIs DEF DataInv, Base, Paths, Path, Granted
<1>3. Store!Decide(c, o)
  BY <1>1, Decides DEF Inside
<1>4. \/ o = "ok" /\ Store!WasLive(c)
      \/ o = "missing" /\ ~Store!Live(file, now)
  BY <1>2 DEF Live, Store!Live, Store!NoDoc
<1>5. Store!Delete(c)
  BY <1>1, <1>2, <1>3, <1>4 DEF Store!Delete
<1> QED
  BY <1>5 DEF Store!Next

LEMMA PurgeStep ==
    ASSUME DataInv, NEW c \in Calls, CheckPurge(c)
    PROVE  Store!Next \/ UNCHANGED Store!vars
<1>1. /\ pc' = [pc EXCEPT ![c] = "leave"] /\ UNCHANGED <<now, request, used, seen, outcome>>
      /\ ~Over(c) /\ LockTypes
  BY DEF CheckPurge, Remove, Over, DataInv, Base, data
<1>2. CASE file' = file
  BY <1>1, <1>2, Inner DEF Frame, data, AllPcs, Inside
<1>3. CASE file # Store!NoDoc /\ ~Live(file) /\ file' = Store!NoDoc
  <2>1. file.token # 0
    BY <1>3 DEF DataInv, Base, Stored
  <2>2. \A d \in Calls : State(d)' = State(d)
    BY <1>1, GoesOn DEF AllPcs, Inside
  <2>3. Store!Expire
    BY <1>1, <1>3, <2>1, <2>2 DEF Store!Expire, Live, Store!callvars, request
  <2> QED
    BY <2>3 DEF Store!Next
<1> QED
  BY <1>2, <1>3 DEF CheckPurge, Remove, data

LEMMA SweepStep ==
    ASSUME DataInv, NEW c \in Calls, Sweep(c)
    PROVE  Store!Next
<1>1. /\ Frame /\ ~Over(c) /\ LockTypes /\ pc' = [pc EXCEPT ![c] = "done"] /\ outcome[c] = "none"
      /\ call[c].kind = "purge" /\ outcome' = [outcome EXCEPT ![c] = "ok"]
  BY DEF Frame, Sweep, Over, DataInv, Base, Paths, Path
<1>2. Store!Undecided(c) /\ Store!Decide(c, "ok")
  BY <1>1, UndecidedIs, Decides DEF Frame, data
<1>3. Store!Purged(c)
  BY <1>1, <1>2 DEF Store!Purged, Frame, data
<1> QED
  BY <1>3 DEF Store!Next

(* A read takes no lock: what it looked at is what it concludes about.     *)
LEMMA ReadSteps ==
    ASSUME DataInv, NEW c \in Calls, Look(c) \/ Conclude(c)
    PROVE  Store!Next
<1>1. /\ ~Over(c) /\ LockTypes /\ outcome[c] = "none" /\ call[c].kind = "read"
      /\ UNCHANGED <<data, request>>
  BY DEF Look, Conclude, Over, DataInv, Base, Paths, Path, Early
<1>2. Store!Undecided(c)
  BY <1>1, UndecidedIs
<1>3. CASE Look(c) /\ file = Store!NoDoc
  <2>1. /\ UNCHANGED seen /\ outcome' = [outcome EXCEPT ![c] = "missing"]
        /\ pc' = [pc EXCEPT ![c] = "done"]
    BY <1>3 DEF Look
  <2>2. Store!Decide(c, "missing")
    BY <1>1, <2>1, Decides DEF data
  <2>3. Store!Missing(c)
    BY <1>1, <1>2, <1>3, <2>1, <2>2 DEF Store!Missing, Store!Kept, Store!Live, Store!NoDoc, data
  <2> QED
    BY <2>3 DEF Store!Next
<1>4. CASE Look(c) /\ file # Store!NoDoc
  <2>1. /\ UNCHANGED outcome /\ seen' = [seen EXCEPT ![c] = file]
        /\ pc' = [pc EXCEPT ![c] = "clock"] /\ file.token # 0
    BY <1>4 DEF Look, DataInv, Base, Stored
  <2>2. \A d \in Calls : State(d)' = State(d)
    BY <1>1, <2>1, GoesOn DEF AllPcs
  <2>3. Store!Look(c)
    BY <1>1, <1>2, <2>1, <2>2 DEF Store!Look, data, request
  <2> QED
    BY <2>3 DEF Store!Next
<1>5. CASE Conclude(c)
  <2> DEFINE o == IF Live(seen[c]) THEN "ok" ELSE "missing"
  <2>1. /\ UNCHANGED seen /\ outcome' = [outcome EXCEPT ![c] = o]
        /\ pc' = [pc EXCEPT ![c] = "done"] /\ seen[c].token # 0
    BY <1>5 DEF Conclude, DataInv, Base, Paths, Path
  <2>2. Store!Decide(c, o)
    BY <1>1, <2>1, Decides DEF data
  <2>3. Store!Conclude(c)
    BY <1>1, <1>2, <2>1, <2>2 DEF Store!Conclude, Live, data
  <2> QED
    BY <2>3 DEF Store!Next
<1> QED
  BY <1>3, <1>4, <1>5

LEMMA BeginStep ==
    ASSUME DataInv, NEW c \in Calls, NEW r \in Store!Requests, Begin(c, r)
    PROVE  Store!Next
<1>1. PICK l \in {"look", "walk", "lock"} : pc' = [pc EXCEPT ![c] = l]
  BY DEF Begin
<1>2. State(c) = "idle"
  BY DEF Begin, State
<1>3. State(c)' = "called" /\ \A d \in Calls \ {c} : State(d)' = State(d)
  BY <1>1, Moves DEF AllPcs, DataInv, Base
<1>4. Store!Begin(c, r)
  BY <1>2, <1>3 DEF Store!Begin, Begin, data
<1> QED
  BY <1>4 DEF Store!Next

LEMMA CrashStep ==
    ASSUME DataInv, NEW s \in Stores, Crash(s)
    PROVE  Store!Next
<1> DEFINE cs == {c \in Calls : at[c] = s /\ ~Over(c)}
<1>1. Frame /\ UNCHANGED outcome
  BY DEF Crash, Frame
<1>2. \A d \in Calls : pc'[d] = IF d \in cs THEN "crashed" ELSE pc[d]
  BY DEF Crash
<1>3. \A d \in Calls : State(d)' = IF d \in cs THEN "failed" ELSE State(d)
  BY <1>2 DEF State
<1>4. \A d \in cs : State(d) = "called"
  BY CalledIs
<1>5. Store!Fail(cs)
  BY <1>1, <1>3, <1>4, Fails
<1> QED
  BY <1>5 DEF Store!Next

(* Every step of FileStore is a step of DocumentStore or a stutter. *)
LEMMA NextStep == DataInv /\ [Next]_vars => [Store!Next]_(Store!vars)
<1> SUFFICES ASSUME DataInv, [Next]_vars
             PROVE  Store!Next \/ UNCHANGED Store!vars
  OBVIOUS
<1>1. CASE Tick
  <2>1. Store!Tick
    BY <1>1 DEF Tick, Store!Tick, Store!callvars, State, request
  <2> QED
    BY <2>1 DEF Store!Next
<1>2. CASE RemoveLockFile \/ UNCHANGED vars \/ \E s \in Stores : OpenStore(s) \/ CloseStore(s)
  <2>1. Frame /\ UNCHANGED <<outcome, pc>>
    BY <1>2 DEF RemoveLockFile, vars, OpenStore, CloseStore, Frame
  <2> QED
    BY <2>1, Stutters DEF State
<1>3. CASE \E s \in Stores : Crash(s)
  BY <1>3, CrashStep
<1>4. CASE \E c \in Calls, r \in Store!Requests : Begin(c, r)
  BY <1>4, BeginStep
<1>5. CASE \E c \in Calls : Step(c)
  BY <1>5, InnerSteps, LockSteps, LeaveStep, RefuseStep, ReplaceStep, UnlinkStep, PurgeStep,
     SweepStep, ReadSteps DEF Step
<1> QED
  BY <1>1, <1>2, <1>3, <1>4, <1>5 DEF Next, Environment

LEMMA InitStep == Init => Store!Init
BY DEF Init

(* The file store keeps the promises of DocumentStore, provided no store   *)
(* is closed under a running call: a call takes effect at one moment, when *)
(* the document is renamed or unlinked, under the condition it was given,  *)
(* whichever lock files are removed, whichever writes fail and whichever   *)
(* processes die.                                                          *)
THEOREM Refinement == Quiet => (Spec => Implements)
<1> SUFFICES ASSUME Quiet
             PROVE  Spec => Implements
  OBVIOUS
<1> QED
  BY InitStep, NextStep, DataInvariant, PTL DEF Spec, Implements, Store!Spec
=============================================================================
