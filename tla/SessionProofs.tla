--------------------------- MODULE SessionProofs ---------------------------
(***************************************************************************)
(* Proofs about the session, for any number of clients, requests and       *)
(* commits and any set of features: its type invariant, the place of every *)
(* connection in the session's tables (Roster, and with it NoLeak), and    *)
(* who holds the flush lock while something is sent (Drains, and with it   *)
(* WriterHoldsLock).                                                       *)
(***************************************************************************)
EXTENDS Session, SequenceTheorems, FiniteSetTheorems, TLAPS

(* A broadcast in progress sends the head of the queue. *)
SendingHead == sending => pending # <<>>

TypeInv == TypeOK /\ SendingHead /\ ScopeLocked

(* What Append, Tail, Head and RemoveAt do to the type of a sequence. *)
LEMMA AppendType ==
    ASSUME NEW S, NEW s \in Seq(S), NEW e \in S
    PROVE  Append(s, e) \in Seq(S) /\ Append(s, e) # <<>>
BY AppendProperties, EmptySeq

LEMMA TailType ==
    ASSUME NEW S, NEW s \in Seq(S), s # <<>>
    PROVE  Tail(s) \in Seq(S) /\ Head(s) \in S
BY HeadTailProperties

LEMMA RemoveAtType ==
    ASSUME NEW S, NEW s \in Seq(S), NEW i \in DOMAIN s
    PROVE  RemoveAt(s, i) \in Seq(S)
BY DEF RemoveAt

(* The tasks that take the flush lock. *)
LEMMA ProcsType ==
    /\ \A v \in 1..MaxVersion : Task(v) \in Procs
    /\ Settled \in Procs
    /\ \A c \in Clients : Connect(c) \in Procs
    /\ \A r \in Requests : Handler(r) \in Procs
BY DEF Procs

LEMMA InitTypeInv == Init => TypeInv
<1> SUFFICES ASSUME Init PROVE TypeInv
    OBVIOUS
<1>0. sending \in BOOLEAN /\ queued \in BOOLEAN
    BY DEF Init
<1>1. TablesType /\ QueueType /\ LocksType
    BY <1>0 DEF Init, TablesType, QueueType, LocksType
<1>2. HostType /\ StillType /\ HandlersType
    BY <1>0, SessionAssumption DEF Init, HostType, StillType, HandlersType, ConnPcs, RequestPcs
<1>3. SeenType
    BY SessionAssumption DEF Init, SeenType
<1>4. SendingHead /\ ScopeLocked
    BY DEF Init, SendingHead, ScopeLocked
<1> QED
    BY <1>1, <1>2, <1>3, <1>4 DEF TypeInv, TypeOK

(* The frames the session sends are messages. *)
LEMMA FrameType ==
    ASSUME TypeOK
    PROVE  /\ \A r \in Requests : Ref(r) \in Requests \cup {NoRequest}
           /\ \A v \in 0..MaxVersion, r \in Requests \cup {NoRequest}, e \in Nat :
                 Patch(v, r, e) \in Message
           /\ \A r \in Requests \cup {NoRequest} : Answer(r) \in Message
           /\ \A r \in Requests \cup {NoRequest}, e \in Nat : ScopeAck(r, e) \in Message
BY DEF TypeOK, StillType, Ref, Patch, Answer, ScopeAck, Message

LEMMA ForgetType ==
    ASSUME TypeOK, NEW c \in Clients, Forget(c)
    PROVE  TablesType'
BY DEF TypeOK, TablesType, Forget

LEMMA DeliverType ==
    ASSUME TypeOK, NEW c \in Clients, NEW m \in Message, Deliver(c, m)
    PROVE  SeenType'
BY DEF TypeOK, SeenType, Deliver, Message

LEMMA SafeSendType ==
    ASSUME TypeOK, NEW c \in Clients, NEW m \in Message, SafeSend(c, m)
    PROVE  SeenType' /\ TablesType'
<1>1. CASE c \in dead
    BY <1>1, ForgetType DEF SafeSend, TypeOK, SeenType, seen
<1>2. CASE c \notin dead
    BY <1>2, DeliverType DEF SafeSend, TypeOK, TablesType, tables
<1> QED
    BY <1>1, <1>2

LEMMA SendErrorType ==
    ASSUME TypeOK, NEW r \in Requests, SendError(r)
    PROVE  SeenType'
BY FrameType DEF TypeOK, SeenType, SendError

LEMMA GotoType ==
    ASSUME TypeOK, NEW r \in Requests, NEW pc \in RequestPcs, Goto(r, pc),
           UNCHANGED <<conn, sockets>>
    PROVE  HandlersType'
BY DEF TypeOK, HandlersType, Goto, sockets

-----------------------------------------------------------------------------
(* One lemma per part of the next-state relation: each action keeps the    *)
(* type invariant.                                                         *)

LEMMA ProjectionType ==
    ASSUME TypeOK, NEW q \in Projections
    PROVE  q \in Seq(Scoped) /\ \A i \in DOMAIN q : q[i] \in Clients
<1>1. Scoped \subseteq Clients
    BY DEF TypeOK, TablesType, Scoped
<1>2. Cardinality(Scoped) \in Nat
    BY <1>1, FS_Subset, FS_CardinalityType, SessionAssumption
<1>3. PICK n \in 0..Cardinality(Scoped) : q \in [1..n -> Scoped]
    BY DEF Projections
<1> QED
    BY <1>1, <1>2, <1>3

(* What a commit queues is an entry for the whole-document clients and one *)
(* for each scoped client it is projected for.                             *)
LEMMA CommitEntries ==
    ASSUME TypeOK, version \in 0..(MaxVersion - 1), NEW q \in Projections
    PROVE  WholeEntry \in Entry /\ ScopedEntries(q) \in Seq(Entry)
<1> USE DEF TypeOK
<1>1. q \in Seq(Scoped) /\ \A i \in DOMAIN q : q[i] \in Clients
    BY ProjectionType
<1>2. version + 1 \in 0..MaxVersion
    BY SessionAssumption
<1>3. WholeEntry \in Entry
    BY <1>2, FrameType
       DEF Entry, WholeEntry, Whole, TablesType, StillType
<1>4. \A i \in DOMAIN q : ScopedEntries(q)[i] \in Entry
    BY <1>1, <1>2, FrameType
       DEF Entry, ScopedEntries, ProjectedRef, TablesType, StillType
<1> QED
    BY <1>1, <1>3, <1>4 DEF ScopedEntries

LEMMA CommitType ==
    ASSUME TypeInv, NEW q \in Projections, HostCommit(q) \/ RequestCommit(q)
    PROVE  TypeInv'
<1> USE DEF TypeInv, TypeOK
<1>0. OnDocChange(q)
    BY DEF HostCommit, RequestCommit
<1>1. OnDocChange(q) /\ version \in 0..(MaxVersion - 1)
    BY <1>0, SessionAssumption DEF OnDocChange, StillType
<1>2. q \in Seq(Scoped) /\ \A i \in DOMAIN q : q[i] \in Clients
    BY ProjectionType
<1>3. QueueType' /\ SendingHead'
    <2>1. WholeEntry \in Entry /\ ScopedEntries(q) \in Seq(Entry)
        BY <1>1, CommitEntries
    <2>2. Append(pending, WholeEntry) \in Seq(Entry) /\ Append(pending, WholeEntry) # <<>>
        BY <2>1, AppendType DEF QueueType
    <2>3. pending' = Append(pending, WholeEntry) \o ScopedEntries(q)
        BY <1>1 DEF OnDocChange
    <2>4. pending' \in Seq(Entry) /\ pending' # <<>>
        BY <2>1, <2>2, <2>3, ConcatProperties, ConcatEqualIffEmpty
    <2> QED
        BY <1>1, <2>4 DEF OnDocChange, QueueType, SendingHead
<1>4. SeenType'
    BY <1>1, SessionAssumption DEF OnDocChange, SeenType
<1>5. HostType'
    <2>1. version + 1 \in 1..MaxVersion
        BY <1>1, SessionAssumption
    <2>2. CASE HostCommit(q)
        BY <2>1, <2>2 DEF HostCommit, HostType
    <2>3. CASE RequestCommit(q)
        BY <2>3 DEF RequestCommit, HostType, host
    <2> QED
        BY <2>2, <2>3
<1>6. queued' \in BOOLEAN
    BY DEF HostCommit, RequestCommit, StillType
<1>7. StillType'
    BY <1>1, <1>6, SessionAssumption DEF OnDocChange, StillType
<1> QED
    BY <1>1, <1>3, <1>4, <1>5, <1>7
       DEF OnDocChange, TablesType, LocksType, HandlersType, ScopeLocked,
           ScopeHolder, tables, sockets

LEMMA FlushType ==
    ASSUME TypeInv, FlushNext
    PROVE  TypeInv'
<1> USE DEF TypeInv, TypeOK, tables, queue, host, sockets, still, seen
<1>1. CASE BeginBroadcast
    <2>1. Head(pending) \in Entry
        BY <1>1, TailType DEF BeginBroadcast, QueueType
    <2>2. QueueType' /\ SendingHead'
        BY <1>1, <2>1, AppendType
           DEF BeginBroadcast, QueueType, TablesType, SendingHead, Entry
    <2> QED
        BY <1>1, <2>2
           DEF BeginBroadcast, TablesType, LocksType, HostType, StillType,
               HandlersType, SeenType, ScopeLocked, ScopeHolder
<1>2. CASE \E c \in Clients : BroadcastTo(c)
    <2> PICK c \in Clients : BroadcastTo(c)
        BY <1>2
    <2>1. Head(pending).msg \in Message
        BY TailType DEF BroadcastTo, QueueType, SendingHead, Entry
    <2>2. SeenType' /\ TablesType'
        BY <2>1, SafeSendType DEF BroadcastTo
    <2> QED
        BY <2>2
           DEF BroadcastTo, QueueType, LocksType, HostType, StillType,
               HandlersType, SendingHead, ScopeLocked, ScopeHolder
<1>3. CASE EndBroadcast
    BY <1>3, TailType
       DEF EndBroadcast, TablesType, QueueType, LocksType, HostType, StillType,
           HandlersType, SeenType, SendingHead, ScopeLocked, ScopeHolder
<1>4. ASSUME NEW v \in 1..MaxVersion, TaskStart(v) PROVE TypeInv'
    BY <1>4, ProcsType, AppendType
       DEF TaskStart, TablesType, QueueType, LocksType, HostType, StillType,
           HandlersType, SeenType, SendingHead, ScopeLocked, ScopeHolder
<1>5. ASSUME NEW v \in 1..MaxVersion, TaskDone(v) PROVE TypeInv'
    BY <1>5, TailType
       DEF TaskDone, FlushOver, Holder, TablesType, QueueType, LocksType,
           HostType, StillType, HandlersType, SeenType, SendingHead,
           ScopeLocked, ScopeHolder
<1> QED
    BY <1>1, <1>2, <1>3, <1>4, <1>5 DEF FlushNext

LEMMA SettledType ==
    ASSUME TypeInv, SettledNext
    PROVE  TypeInv'
<1> USE DEF TypeInv, TypeOK, tables, queue, host, sockets, still, seen
<1>1. CASE SettledCall
    BY <1>1
       DEF SettledCall, TablesType, QueueType, LocksType, HostType, StillType,
           HandlersType, SeenType, SendingHead, ScopeLocked, ScopeHolder
<1>2. CASE SettledFlush
    BY <1>2, ProcsType, AppendType
       DEF SettledFlush, TablesType, QueueType, LocksType, HostType, StillType,
           HandlersType, SeenType, SendingHead, ScopeLocked, ScopeHolder
<1>3. CASE SettledReturn
    BY <1>3, TailType
       DEF SettledReturn, FlushOver, Holder, TablesType, QueueType, LocksType,
           HostType, StillType, HandlersType, SeenType, SendingHead,
           ScopeLocked, ScopeHolder
<1>4. CASE SettledCancel
    <2>1. PICK p : CancelFlush(p)
        BY <1>4 DEF SettledCancel
    <2>2. LocksType'
        BY <2>1, RemoveAtType DEF CancelFlush, LocksType
    <2>3. QueueType' /\ SendingHead' /\ SeenType'
        <3>1. Holder(p) /\ sending => Head(pending).msg.version \in 0..MaxVersion
            <4> SUFFICES ASSUME sending PROVE Head(pending).msg.version \in 0..MaxVersion
                OBVIOUS
            <4>1. Head(pending) \in Entry
                BY TailType DEF SendingHead, QueueType
            <4> QED
                BY <4>1 DEF Entry, Message
        <3> QED
            BY <2>1, <3>1 DEF CancelFlush, QueueType, SendingHead, SeenType
    <2>4. HostType'
        BY <1>4 DEF SettledCancel, HostType
    <2> QED
        BY <2>1, <2>2, <2>3, <2>4
           DEF CancelFlush, TablesType, StillType, HandlersType, ScopeLocked,
               ScopeHolder
<1> QED
    BY <1>1, <1>2, <1>3, <1>4 DEF SettledNext

LEMMA DrainType ==
    ASSUME TypeInv, NEW c \in Clients, DrainStep(c)
    PROVE  TypeInv'
<1> USE DEF TypeInv, TypeOK
<1>1. Head(buffer[c]) \in Message /\ Tail(buffer[c]) \in Seq(Message)
    BY TailType DEF DrainStep, QueueType
<1>2. SeenType' /\ TablesType'
    BY <1>1, SafeSendType DEF DrainStep
<1> QED
    BY <1>1, <1>2
       DEF DrainStep, QueueType, LocksType, HostType, StillType, HandlersType,
           SendingHead, ScopeLocked, ScopeHolder, queue, host, sockets, still

LEMMA ConnectType ==
    ASSUME TypeInv, NEW c \in Clients, ConnectStart(c) \/ ConnectNext(c)
    PROVE  TypeInv'
<1> USE DEF TypeInv, TypeOK, tables, queue, host, sockets, still, seen
<1>1. CASE ConnectStart(c)
    <2>1. LocksType' /\ HandlersType'
        BY <1>1, ProcsType, AppendType
           DEF ConnectStart, LocksType, HandlersType, ConnPcs
    <2> QED
        BY <1>1, <2>1
           DEF ConnectStart, TablesType, QueueType, HostType, StillType,
               SeenType, SendingHead, ScopeLocked, ScopeHolder
<1>2. CASE ConnectPartial(c)
    <2>1. LocksType' /\ HandlersType'
        BY <1>2, TailType
           DEF ConnectPartial, FlushOver, Holder, LocksType, HandlersType, ConnPcs
    <2>2. QueueType' /\ SendingHead'
        BY <1>2 DEF ConnectPartial, QueueType, SendingHead
    <2>3. TablesType'
        BY <1>2, ForgetType DEF ConnectPartial, TablesType
    <2> QED
        BY <1>2, <2>1, <2>2, <2>3
           DEF ConnectPartial, HostType, StillType, SeenType, ScopeLocked,
               ScopeHolder
<1>3. CASE ConnectWhole(c)
    <2>1. LocksType' /\ HandlersType'
        BY <1>3, TailType
           DEF ConnectWhole, FlushOver, Holder, LocksType, HandlersType, ConnPcs
    <2>2. QueueType' /\ SendingHead'
        BY <1>3 DEF ConnectWhole, QueueType, SendingHead
    <2>3. TablesType' /\ SeenType'
        BY <1>3 DEF ConnectWhole, TablesType, SeenType
    <2> QED
        BY <1>3, <2>1, <2>2, <2>3
           DEF ConnectWhole, HostType, StillType, ScopeLocked, ScopeHolder
<1>4. CASE ConnectSnapshot(c)
    <2>1. HandlersType' /\ TablesType'
        BY <1>4 DEF ConnectSnapshot, HandlersType, ConnPcs, TablesType
    <2> QED
        BY <1>4, <2>1
           DEF ConnectSnapshot, QueueType, LocksType, HostType, StillType,
               SeenType, SendingHead, ScopeLocked, ScopeHolder
<1>5. CASE ConnectLock(c)
    <2>1. LocksType' /\ HandlersType'
        BY <1>5, ProcsType, AppendType
           DEF ConnectLock, LocksType, HandlersType, ConnPcs
    <2> QED
        BY <1>5, <2>1
           DEF ConnectLock, TablesType, QueueType, HostType, StillType,
               SeenType, SendingHead, ScopeLocked, ScopeHolder
<1>6. CASE ConnectPromote(c)
    <2>1. LocksType'
        BY <1>6, TailType DEF ConnectPromote, Holder, LocksType
    <2>2. HandlersType'
        BY <1>6 DEF ConnectPromote, HandlersType, ConnPcs
    <2>3. TablesType'
        BY <1>6 DEF ConnectPromote, Promote, TablesType
    <2> QED
        BY <1>6, <2>1, <2>2, <2>3
           DEF ConnectPromote, QueueType, HostType, StillType, SeenType,
               SendingHead, ScopeLocked, ScopeHolder
<1>7. CASE ConnectDrain(c)
    BY <1>7, DrainType DEF ConnectDrain
<1>8. CASE ConnectDone(c)
    <2>1. LocksType' /\ HandlersType'
        BY <1>8, TailType
           DEF ConnectDone, Holder, LocksType, HandlersType, ConnPcs
    <2> QED
        BY <1>8, <2>1
           DEF ConnectDone, TablesType, QueueType, HostType, StillType,
               SeenType, SendingHead, ScopeLocked, ScopeHolder
<1> QED
    BY <1>1, <1>2, <1>3, <1>4, <1>5, <1>6, <1>7, <1>8 DEF ConnectNext

LEMMA LeaveType ==
    ASSUME TypeInv, NEW c \in Clients, ConnectionLost(c) \/ Disconnect(c)
    PROVE  TypeInv'
<1> USE DEF TypeInv, TypeOK, tables, queue, host, sockets, still, seen
<1>1. HandlersType'
    BY DEF ConnectionLost, Disconnect, HandlersType
<1>2. TablesType'
    BY ForgetType DEF ConnectionLost, Disconnect, TablesType
<1>3. CASE ConnectionLost(c)
    BY <1>1, <1>2, <1>3
       DEF ConnectionLost, QueueType, LocksType, HostType, StillType, SeenType,
           SendingHead, ScopeLocked, ScopeHolder
<1>4. CASE Disconnect(c)
    BY <1>1, <1>2, <1>4
       DEF Disconnect, QueueType, LocksType, HostType, StillType, SeenType,
           SendingHead, ScopeLocked, ScopeHolder
<1> QED
    BY <1>3, <1>4

(* A handler that goes on to pc, where it does not hold the scope lock or  *)
(* holds it already, leaves the scope locks as they are.                   *)
LEMMA GotoScopeLocked ==
    ASSUME TypeInv, NEW r \in Requests, NEW pc, Goto(r, pc),
           UNCHANGED <<from, scopeq>>,
           pc \in {"scopeFlush", "ackFlush", "scopeSent", "scopePromote", "scopeDrain"}
               => ScopeHolder(r)
    PROVE  ScopeLocked'
BY DEF TypeInv, TypeOK, HandlersType, Goto, ScopeLocked, ScopeHolder

(* Its last step lets go of the scope lock. *)
LEMMA UnlockScopeLocked ==
    ASSUME TypeInv, NEW r \in Requests, Goto(r, "done"), UNCHANGED from,
           ScopeUnlock(r), ScopeHolder(r)
    PROVE  ScopeLocked' /\ scopeq' \in [Clients -> Seq(Requests)]
<1> USE DEF TypeInv, TypeOK
<1>1. scopeq' \in [Clients -> Seq(Requests)]
    BY TailType DEF StillType, LocksType, ScopeUnlock, ScopeHolder
<1>2. ASSUME NEW s \in Requests, s # r, ScopeHolder(s)
      PROVE  ScopeHolder(s)'
    BY <1>2 DEF StillType, LocksType, ScopeUnlock, ScopeHolder
<1> QED
    BY <1>1, <1>2 DEF HandlersType, Goto, ScopeLocked

LEMMA DispatchType ==
    ASSUME TypeInv, NEW r \in Requests,
           \/ RefuseMessage(r) \/ Dispatch(r) \/ DispatchOk(r)
           \/ DispatchRejected(r) \/ DispatchStepRejected(r) \/ DispatchError(r)
    PROVE  TypeInv'
<1> USE DEF TypeInv, TypeOK, tables, queue, host, sockets, still, seen
<1>1. CASE RefuseMessage(r)
    <2>1. SeenType' /\ HandlersType' /\ ScopeLocked'
        BY <1>1, SendErrorType, GotoType, GotoScopeLocked
           DEF RefuseMessage, RequestPcs
    <2> QED
        BY <1>1, <2>1
           DEF RefuseMessage, TablesType, QueueType, LocksType, HostType,
               StillType, SendingHead
<1>2. CASE Dispatch(r)
    <2>1. HandlersType' /\ ScopeLocked'
        BY <1>2, GotoType, GotoScopeLocked DEF Dispatch, RequestPcs
    <2>2. queued' \in BOOLEAN
        BY <1>2 DEF Dispatch
    <2> QED
        BY <1>2, <2>1, <2>2
           DEF Dispatch, TablesType, QueueType, LocksType, HostType, StillType,
               SeenType, SendingHead
<1>3. CASE DispatchOk(r)
    <2>1. HandlersType' /\ ScopeLocked'
        BY <1>3, GotoType, GotoScopeLocked
           DEF DispatchOk, RequestPcs, FlushPcs
    <2>2. LocksType'
        BY <1>3, ProcsType, AppendType DEF DispatchOk, LocksType
    <2>3. QueueType' /\ SendingHead'
        <3>1. [msg |-> Answer(Ref(r)), to |-> {from[r]}] \in Entry
            BY FrameType DEF Entry, StillType
        <3> QED
            BY <1>3, <3>1, AppendType DEF DispatchOk, QueueType, SendingHead
    <2> QED
        BY <1>3, <2>1, <2>2, <2>3
           DEF DispatchOk, EndDispatch, TablesType, HostType, StillType, SeenType
<1>4. CASE DispatchRejected(r)
    <2>1. HandlersType' /\ ScopeLocked'
        BY <1>4, GotoType, GotoScopeLocked
           DEF DispatchRejected, RequestPcs, FlushPcs
    <2>2. LocksType'
        BY <1>4, ProcsType, AppendType DEF DispatchRejected, LocksType
    <2> QED
        BY <1>4, <2>1, <2>2
           DEF DispatchRejected, EndDispatch, TablesType, QueueType, HostType,
               StillType, SeenType, SendingHead
<1>5. CASE DispatchStepRejected(r)
    <2>1. HandlersType' /\ ScopeLocked'
        BY <1>5, GotoType, GotoScopeLocked
           DEF DispatchStepRejected, RequestPcs, FlushPcs
    <2>2. LocksType'
        BY <1>5, ProcsType, AppendType DEF DispatchStepRejected, LocksType
    <2> QED
        BY <1>5, <2>1, <2>2
           DEF DispatchStepRejected, EndDispatch, TablesType, QueueType,
               HostType, StillType, SeenType, SendingHead
<1>6. CASE DispatchError(r)
    <2>1. SeenType' /\ HandlersType' /\ ScopeLocked'
        BY <1>6, SendErrorType, GotoType, GotoScopeLocked
           DEF DispatchError, RequestPcs
    <2> QED
        BY <1>6, <2>1
           DEF DispatchError, EndDispatch, TablesType, QueueType, LocksType,
               HostType, StillType, SendingHead
<1> QED
    BY <1>1, <1>2, <1>3, <1>4, <1>5, <1>6

LEMMA ReplyType ==
    ASSUME TypeInv, NEW r \in Requests,
           RequestDone(r) \/ RejectReply(r) \/ Resync(r)
    PROVE  TypeInv'
<1> USE DEF TypeInv, TypeOK, tables, queue, host, sockets, still, seen
<1>1. CASE RequestDone(r)
    <2>1. HandlersType' /\ ScopeLocked'
        BY <1>1, GotoType, GotoScopeLocked DEF RequestDone, RequestPcs
    <2>2. LocksType'
        BY <1>1, TailType DEF RequestDone, FlushOver, Holder, LocksType
    <2> QED
        BY <1>1, <2>1, <2>2
           DEF RequestDone, TablesType, QueueType, HostType, StillType,
               SeenType, SendingHead
<1>2. CASE RejectReply(r)
    <2>1. SeenType' /\ HandlersType' /\ ScopeLocked'
        BY <1>2, SendErrorType, GotoType, GotoScopeLocked
           DEF RejectReply, RequestPcs
    <2>2. LocksType'
        BY <1>2, TailType DEF RejectReply, FlushOver, Holder, LocksType
    <2> QED
        BY <1>2, <2>1, <2>2
           DEF RejectReply, TablesType, QueueType, HostType, StillType,
               SendingHead
<1>3. CASE Resync(r)
    <2>1. HandlersType' /\ ScopeLocked'
        BY <1>3, GotoType, GotoScopeLocked DEF Resync, RequestPcs
    <2>2. TablesType' /\ SeenType'
        BY <1>3 DEF Resync, TablesType, StillType, SeenType
    <2> QED
        BY <1>3, <2>1, <2>2
           DEF Resync, QueueType, LocksType, HostType, StillType, SendingHead
<1> QED
    BY <1>1, <1>2, <1>3

LEMMA ScopeType ==
    ASSUME TypeInv, NEW r \in Requests,
           \/ ScopeIgnored(r) \/ ScopeReceive(r) \/ ScopeEnter(r)
           \/ ScopeGone(r) \/ ScopeFirst(r) \/ ScopeLock(r)
           \/ ScopePromote(r) \/ ScopeDrain(r) \/ ScopeChange(r) \/ ScopeDone(r)
    PROVE  TypeInv'
<1> USE DEF TypeInv, TypeOK, tables, queue, host, sockets, still, seen
<1>0. from[r] \in Clients /\ view[from[r]] \in Nat
    BY DEF StillType, TablesType
<1>1. CASE ScopeIgnored(r)
    <2>1. HandlersType' /\ ScopeLocked'
        BY <1>1, GotoType, GotoScopeLocked DEF ScopeIgnored, RequestPcs
    <2> QED
        BY <1>1, <2>1
           DEF ScopeIgnored, TablesType, QueueType, LocksType, HostType,
               StillType, SeenType, SendingHead
<1>2. CASE ScopeReceive(r)
    <2>1. HandlersType'
        BY <1>2, GotoType DEF ScopeReceive, RequestPcs
    <2>2. LocksType'
        BY <1>0, <1>2, AppendType DEF ScopeReceive, LocksType
    <2>3. ScopeLocked'
        <3>1. ASSUME NEW s \in Requests, ScopeHolder(s) PROVE ScopeHolder(s)'
            BY <1>0, <1>2, <3>1, AppendProperties
               DEF ScopeReceive, ScopeHolder, LocksType, StillType
        <3> QED
            BY <1>2, <3>1 DEF ScopeReceive, Goto, ScopeLocked, HandlersType
    <2> QED
        BY <1>2, <2>1, <2>2, <2>3
           DEF ScopeReceive, TablesType, QueueType, HostType, StillType,
               SeenType, SendingHead
<1>3. CASE ScopeEnter(r)
    <2>1. SeenType'
        BY <1>3, SendErrorType DEF ScopeEnter, SeenType
    <2>2. HandlersType'
        BY <1>3, GotoType DEF ScopeEnter, RequestPcs, FlushPcs
    <2>3. LocksType' /\ ScopeLocked'
        BY <1>3, ProcsType, AppendType, GotoScopeLocked, UnlockScopeLocked
           DEF ScopeEnter, LocksType
    <2> QED
        BY <1>3, <2>1, <2>2, <2>3
           DEF ScopeEnter, TablesType, QueueType, HostType, StillType,
               SendingHead
<1>4. CASE ScopeGone(r)
    <2>1. ScopeHolder(r)
        BY <1>4 DEF ScopeGone, ScopeLocked
    <2>2. HandlersType' /\ ScopeLocked' /\ LocksType'
        BY <1>4, <2>1, GotoType, UnlockScopeLocked, TailType
           DEF ScopeGone, FlushOver, Holder, LocksType, RequestPcs
    <2> QED
        BY <1>4, <2>2
           DEF ScopeGone, TablesType, QueueType, HostType, StillType, SeenType,
               SendingHead
<1>5. CASE ScopeFirst(r)
    <2>1. ScopeHolder(r)
        BY <1>5 DEF ScopeFirst, ScopeLocked
    <2>2. lockq' \in Seq(Procs)
        BY <1>5, TailType DEF ScopeFirst, FlushOver, Holder, LocksType
    <2>3. HandlersType'
        BY <1>5, GotoType DEF ScopeFirst, RequestPcs
    <2>4. ScopeLocked' /\ LocksType'
        BY <1>5, <2>1, <2>2, GotoScopeLocked, UnlockScopeLocked
           DEF ScopeFirst, LocksType, StillType
    <2>5. TablesType'
        BY <1>0, <1>5, ForgetType DEF ScopeFirst, TablesType
    <2>6. SeenType'
        <3>1. {Ref(r)} \ {NoRequest} \subseteq Requests
            BY FrameType
        <3>2. CASE from[r] \in dead
            BY <1>5, <3>2 DEF ScopeFirst, SeenType
        <3>3. CASE from[r] \notin dead
            <4>1. /\ due' = [due EXCEPT ![from[r]] = {}]
                  /\ held' = [held EXCEPT ![from[r]] = 1]
                  /\ answered' = answered \cup ({Ref(r)} \ {NoRequest})
                  /\ UNCHANGED <<resyncAt, retried>>
                BY <1>5, <3>3 DEF ScopeFirst
            <4> QED
                BY <1>0, <3>1, <4>1 DEF SeenType
        <3> QED
            BY <3>2, <3>3
    <2> QED
        BY <1>5, <2>3, <2>4, <2>5, <2>6
           DEF ScopeFirst, QueueType, HostType, StillType, SendingHead
<1>6. CASE ScopeLock(r)
    <2>1. ScopeHolder(r)
        BY <1>6 DEF ScopeLock, ScopeLocked
    <2>2. HandlersType' /\ ScopeLocked'
        BY <1>6, <2>1, GotoType, GotoScopeLocked
           DEF ScopeLock, RequestPcs
    <2>3. LocksType'
        BY <1>6, ProcsType, AppendType DEF ScopeLock, LocksType
    <2> QED
        BY <1>6, <2>2, <2>3
           DEF ScopeLock, TablesType, QueueType, HostType, StillType, SeenType,
               SendingHead
<1>7. CASE ScopePromote(r)
    <2>1. ScopeHolder(r)
        BY <1>7 DEF ScopePromote, ScopeLocked
    <2>2. lockq' \in Seq(Procs)
        BY <1>7, TailType DEF ScopePromote, Holder, LocksType
    <2>3. HandlersType'
        BY <1>7, GotoType DEF ScopePromote, RequestPcs
    <2>4. ScopeLocked' /\ LocksType'
        BY <1>7, <2>1, <2>2, GotoScopeLocked, UnlockScopeLocked
           DEF ScopePromote, LocksType
    <2>5. TablesType'
        BY <1>0, <1>7 DEF ScopePromote, Promote, TablesType
    <2> QED
        BY <1>7, <2>3, <2>4, <2>5
           DEF ScopePromote, QueueType, HostType, StillType, SeenType,
               SendingHead
<1>8. CASE ScopeDrain(r)
    BY <1>0, <1>8, DrainType DEF ScopeDrain
<1>9. CASE ScopeChange(r)
    <2>1. ScopeHolder(r)
        BY <1>9 DEF ScopeChange, ScopeLocked
    <2>2. HandlersType' /\ ScopeLocked'
        BY <1>9, <2>1, GotoType, GotoScopeLocked
           DEF ScopeChange, RequestPcs, FlushPcs
    <2>3. LocksType'
        <3>1. Tail(lockq) \in Seq(Procs)
            BY <1>9, TailType DEF ScopeChange, FlushOver, Holder, LocksType
        <3> QED
            BY <1>9, <3>1, ProcsType, AppendType DEF ScopeChange, LocksType
    <2>4. QueueType' /\ SendingHead'
        <3>1. [msg |-> ScopeAck(Ref(r), view[from[r]] + 1), to |-> {from[r]}] \in Entry
            <4>1. view[from[r]] + 1 \in Nat /\ Ref(r) \in Requests \cup {NoRequest}
                BY <1>0, FrameType
            <4>2. ScopeAck(Ref(r), view[from[r]] + 1) \in Message
                BY <4>1, FrameType
            <4> QED
                BY <1>0, <4>2 DEF Entry
        <3> QED
            BY <1>9, <3>1, AppendType DEF ScopeChange, QueueType, SendingHead
    <2>5. TablesType'
        BY <1>0, <1>9 DEF ScopeChange, TablesType
    <2> QED
        BY <1>9, <2>2, <2>3, <2>4, <2>5
           DEF ScopeChange, HostType, StillType, SeenType
<1>10. CASE ScopeDone(r)
    <2>1. ScopeHolder(r)
        BY <1>10 DEF ScopeDone, ScopeLocked
    <2>2. HandlersType' /\ ScopeLocked' /\ LocksType'
        BY <1>10, <2>1, GotoType, UnlockScopeLocked, TailType
           DEF ScopeDone, FlushOver, Holder, LocksType, RequestPcs
    <2> QED
        BY <1>10, <2>2
           DEF ScopeDone, TablesType, QueueType, HostType, StillType, SeenType,
               SendingHead
<1> QED
    BY <1>1, <1>2, <1>3, <1>4, <1>5, <1>6, <1>7, <1>8, <1>9, <1>10

(* Every step keeps the type invariant. *)
LEMMA NextTypeInv ==
    ASSUME TypeInv, [Next]_vars
    PROVE  TypeInv'
<1>1. CASE UNCHANGED vars
    BY <1>1
       DEF vars, TypeInv, TypeOK, TablesType, QueueType, LocksType, HostType,
           StillType, HandlersType, SeenType, SendingHead, ScopeLocked,
           ScopeHolder, still, tables, queue, host, sockets, seen
<1>2. CASE LoopNext
    BY <1>2, FlushType, SettledType, CommitType, ConnectType, LeaveType,
       DispatchType, ScopeType, ReplyType
       DEF LoopNext, EnvironmentNext, HandlerNext
<1>3. CASE DispatchNext
    BY <1>3, CommitType, DispatchType DEF DispatchNext
<1> QED
    BY <1>1, <1>2, <1>3 DEF Next

-----------------------------------------------------------------------------
(* The tables: whom the session holds in them.                             *)
Registered == clients \cup connecting

(* Where a scope request is, past the entry to its handler. *)
ScopePast == {"scopeFlush", "ackFlush", "scopeSent", "scopePromote", "scopeDrain"}

(* Where a connection is in the session's tables, given how far its        *)
(* _handle_connect has come.                                               *)
Enrolled(c) ==
    /\ c \in clients => c \notin connecting /\ conn[c] \in {"drain", "open"}
    /\ c \in connecting => conn[c] \in {"schema", "snapshot", "promote", "open"}
    /\ c \in awaiting => c \in Registered /\ conn[c] = "open" /\ view[c] = 0
    /\ view[c] # 0 => c \in Registered /\ conn[c] \in {"drain", "open"}
    /\ conn[c] \notin {"new", "hello"} /\ c \notin dead => c \in Registered
    /\ c \in left => c \in dead /\ c \notin Registered

(* How far the connection of a request has come. *)
Heard(r) ==
    /\ rpc[r] # "new" => conn[from[r]] \notin {"new", "hello"}
    /\ rpc[r] \in ScopePast => conn[from[r]] \in {"drain", "open"}

(* Every connection is enrolled, every request comes from one that has     *)
(* been greeted, and the request being dispatched is at its dispatch.      *)
Roster ==
    /\ \A c \in Clients : Enrolled(c)
    /\ \A r \in Requests : Heard(r)
    /\ request # NoRequest => rpc[request] = "dispatch"

LEMMA InitRoster == Init => Roster
BY DEF Init, Roster, Enrolled, Heard, Registered, ScopePast

LEMMA EnrolledStays ==
    ASSUME NEW d, Enrolled(d), UNCHANGED <<conn[d], view[d], sockets>>,
           d \in clients' <=> d \in clients,
           d \in connecting' <=> d \in connecting,
           d \in awaiting' <=> d \in awaiting
    PROVE  Enrolled(d)'
BY DEF Enrolled, Registered, sockets

LEMMA HeardStays ==
    ASSUME TypeInv, NEW c \in Clients, \A r \in Requests : Heard(r),
           UNCHANGED <<rpc, from>>,
           \A d \in Clients \ {c} : conn'[d] = conn[d],
           conn[c] \in {"hello", "schema", "promote"},
              conn'[c] \notin {"new", "hello"}
    PROVE  \A r \in Requests : Heard(r)'
BY DEF Heard, ScopePast, TypeInv, TypeOK, StillType

LEMMA RegisterRoster ==
    ASSUME TypeInv, Roster, NEW c \in Clients,
           ConnectPartial(c) \/ ConnectWhole(c) \/ ConnectSnapshot(c)
    PROVE  Roster'
<1>1. conn[c] \in {"hello", "schema"}
      /\ \E pc \in {"open", "failed", "schema", "snapshot"} : conn' = [conn EXCEPT ![c] = pc]
  BY DEF ConnectPartial, ConnectWhole, ConnectSnapshot
<1>2. conn'[c] \in {"open", "failed", "schema", "snapshot"}
      /\ \A d \in Clients \ {c} : conn'[d] = conn[d] /\ view'[d] = view[d]
  BY <1>1
     DEF ConnectPartial, ConnectWhole, ConnectSnapshot, Forget, TypeInv, TypeOK,
         HandlersType, TablesType
<1>3. \A d \in Clients \ {c} :
           /\ d \in clients' <=> d \in clients
           /\ d \in connecting' <=> d \in connecting
           /\ d \in awaiting' <=> d \in awaiting
  BY DEF ConnectPartial, ConnectWhole, ConnectSnapshot, Forget
<1>4. UNCHANGED <<sockets, rpc, from, request>>
  BY DEF ConnectPartial, ConnectWhole, ConnectSnapshot, still
<1>5. ASSUME NEW d \in Clients \ {c} PROVE Enrolled(d)'
  BY <1>2, <1>3, <1>4, EnrolledStays DEF Roster
<1>6. Enrolled(c)'
  <2>1. Enrolled(c) /\ view \in [Clients -> Nat] /\ conn \in [Clients -> ConnPcs]
    BY DEF Roster, TypeInv, TypeOK, TablesType, HandlersType
  <2>2. CASE ConnectPartial(c) /\ c \in dead
    <3>1. /\ conn'[c] = "failed"
             /\ c \notin clients' \cup connecting' \cup awaiting'
          /\ view'[c] = 0
      BY <2>1, <2>2 DEF ConnectPartial, Forget
    <3> QED BY <1>4, <2>2, <3>1 DEF Enrolled, Registered, sockets
  <2>3. CASE ConnectPartial(c) /\ c \notin dead
    <3>1. /\ conn[c] = "hello" /\ conn'[c] = "open" /\ clients' = clients
          /\ c \in connecting' /\ view' = view
      BY <2>1, <2>3 DEF ConnectPartial
    <3> QED BY <1>4, <2>1, <2>3, <3>1 DEF Enrolled, Registered, sockets
  <2>4. CASE ConnectWhole(c)
    <3>1. /\ conn[c] = "hello" /\ clients' = clients /\ awaiting' = awaiting
             /\ view' = view
          /\ IF c \in dead THEN conn'[c] = "failed" /\ c \notin connecting'
             ELSE conn'[c] = "schema" /\ c \in connecting'
      BY <2>1, <2>4 DEF ConnectWhole
    <3> QED BY <1>4, <2>1, <2>4, <3>1 DEF Enrolled, Registered, sockets
  <2>5. CASE ConnectSnapshot(c)
    <3>1. /\ conn[c] = "schema" /\ clients' = clients /\ awaiting' = awaiting
             /\ view' = view
          /\ IF c \in dead THEN conn'[c] = "failed" /\ c \notin connecting'
             ELSE conn'[c] = "snapshot" /\ connecting' = connecting
      BY <2>1, <2>5 DEF ConnectSnapshot
    <3> QED BY <1>4, <2>1, <2>5, <3>1 DEF Enrolled, Registered, sockets
  <2> QED BY <2>2, <2>3, <2>4, <2>5
<1>7. \A r \in Requests : Heard(r)'
  BY <1>1, <1>2, <1>4, HeardStays DEF Roster
<1> QED
  BY <1>4, <1>5, <1>6, <1>7 DEF Roster

LEMMA PromoteRoster ==
    ASSUME TypeInv, Roster, NEW c \in Clients, ConnectPromote(c)
    PROVE  Roster'
<1>1. /\ conn[c] = "promote" /\ view' = view /\ awaiting' = awaiting
      /\ conn'[c] = (IF c \in connecting THEN "drain" ELSE "failed")
      /\ UNCHANGED <<sockets, rpc, from, request>>
      /\ IF c \in connecting
         THEN clients' = clients \cup {c} /\ connecting' = connecting \ {c}
         ELSE UNCHANGED <<clients, connecting>>
  BY DEF ConnectPromote, Promote, TypeInv, TypeOK, HandlersType, still, tables
<1>2. \A d \in Clients \ {c} : conn'[d] = conn[d]
  BY DEF ConnectPromote, TypeInv, TypeOK, HandlersType
<1>3. ASSUME NEW d \in Clients \ {c} PROVE Enrolled(d)'
  BY <1>1, <1>2, EnrolledStays DEF Roster
<1>4. Enrolled(c)'
  BY <1>1 DEF Enrolled, Registered, sockets, Roster
<1>5. \A r \in Requests : Heard(r)'
  BY <1>1, <1>2, HeardStays DEF Roster
<1> QED
  BY <1>1, <1>3, <1>4, <1>5 DEF Roster

LEMMA ConnectRoster ==
    ASSUME TypeInv, Roster, NEW c \in Clients, ConnectStart(c) \/ ConnectNext(c)
    PROVE  Roster'
<1> USE DEF TypeInv, TypeOK, TablesType, HandlersType, StillType, Roster,
       Enrolled, Heard, Registered, tables, sockets, still, ConnPcs, ScopePast
<1>1. CASE ConnectStart(c)
  BY <1>1 DEF ConnectStart
<1>2. CASE ConnectPartial(c) \/ ConnectWhole(c) \/ ConnectSnapshot(c)
  BY <1>2, RegisterRoster
<1>5. CASE ConnectLock(c)
  BY <1>5 DEF ConnectLock
<1>6. CASE ConnectPromote(c)
  BY <1>6, PromoteRoster
<1>7. CASE ConnectDrain(c)
  BY <1>7 DEF ConnectDrain, DrainStep, SafeSend, Forget
<1>8. CASE ConnectDone(c)
  BY <1>8 DEF ConnectDone
<1> QED
  BY <1>1, <1>2, <1>5, <1>6, <1>7, <1>8 DEF ConnectNext

LEMMA LeaveRoster ==
    ASSUME TypeInv, Roster, NEW c \in Clients, ConnectionLost(c) \/ Disconnect(c)
    PROVE  Roster'
<1> USE DEF TypeInv, TypeOK, TablesType, HandlersType, StillType, Roster,
       Enrolled, Heard, Registered, tables, sockets, still, ConnPcs, ScopePast
<1>1. CASE ConnectionLost(c)
  BY <1>1 DEF ConnectionLost
<1>2. CASE Disconnect(c)
  BY <1>2 DEF Disconnect, Forget
<1> QED
  BY <1>1, <1>2

LEMMA FlushRoster ==
    ASSUME TypeInv, Roster, FlushNext \/ SettledNext
    PROVE  Roster'
<1> USE DEF TypeInv, TypeOK, TablesType, HandlersType, StillType, Roster,
       Enrolled, Heard, Registered, tables, sockets, still, ConnPcs, ScopePast
<1>1. ASSUME NEW c \in Clients, BroadcastTo(c)
      PROVE  Roster'
  BY <1>1 DEF BroadcastTo, SafeSend, Forget
<1>2. CASE UNCHANGED <<tables, sockets, still, conn, rpc>>
  BY <1>2
<1> QED
  BY <1>1, <1>2
     DEF FlushNext, SettledNext, BeginBroadcast, EndBroadcast, TaskStart,
         TaskDone, SettledCall, SettledFlush, SettledReturn, SettledCancel,
         CancelFlush

LEMMA CommitRoster ==
    ASSUME TypeInv, Roster, NEW q \in Projections, HostCommit(q) \/ RequestCommit(q)
    PROVE  Roster'
BY
   DEF HostCommit, RequestCommit, OnDocChange, TypeInv, TypeOK, TablesType,
       HandlersType, StillType, Roster, Enrolled, Heard, Registered, tables,
       sockets, still

LEMMA RequestRoster ==
    ASSUME TypeInv, Roster, NEW r \in Requests,
           \/ RefuseMessage(r) \/ Dispatch(r) \/ DispatchOk(r)
           \/ DispatchRejected(r) \/ DispatchStepRejected(r) \/ DispatchError(r)
           \/ RequestDone(r) \/ RejectReply(r) \/ ScopeIgnored(r) \/ ScopeReceive(r)
    PROVE  Roster'
<1> USE DEF TypeInv, TypeOK, HandlersType, StillType, Roster, Heard
<1>1. UNCHANGED <<tables, sockets, conn, from>>
  BY
     DEF RefuseMessage, Dispatch, DispatchOk, DispatchRejected,
         DispatchStepRejected, DispatchError, RequestDone, RejectReply,
         ScopeIgnored, ScopeReceive, still
<1>2. rpc[r] # "new" \/ Receive(r)
  BY
     DEF RefuseMessage, Dispatch, DispatchOk, DispatchRejected,
         DispatchStepRejected, DispatchError, RequestDone, RejectReply,
         ScopeIgnored, ScopeReceive, EndDispatch
<1>3. conn[from[r]] \notin {"new", "hello"}
  BY <1>2 DEF Receive
<1>4. PICK pc \in {"dispatch", "ok", "reject", "rejectStep", "resync", "done", "scopeLock"} : Goto(r, pc)
  BY
     DEF RefuseMessage, Dispatch, DispatchOk, DispatchRejected,
         DispatchStepRejected, DispatchError, RequestDone, RejectReply,
         ScopeIgnored, ScopeReceive
<1>5. ASSUME NEW s \in Requests PROVE Heard(s)'
  BY <1>1, <1>3, <1>4 DEF Goto, ScopePast
<1>6. \A c \in Clients : Enrolled(c)'
  BY <1>1 DEF tables, sockets, Enrolled, Registered
<1>7. (request # NoRequest => rpc[request] = "dispatch")'
  BY <1>2, <1>4
     DEF RefuseMessage, Dispatch, DispatchOk, DispatchRejected,
         DispatchStepRejected, DispatchError, RequestDone, RejectReply,
         ScopeIgnored, ScopeReceive, EndDispatch, Goto, still, Receive
<1> QED
  BY <1>5, <1>6, <1>7

LEMMA ScopeRoster ==
    ASSUME TypeInv, Roster, NEW r \in Requests,
           \/ Resync(r) \/ ScopeEnter(r) \/ ScopeGone(r) \/ ScopeFirst(r)
              \/ ScopeLock(r)
           \/ ScopePromote(r) \/ ScopeDrain(r) \/ ScopeChange(r) \/ ScopeDone(r)
    PROVE  Roster'
<1> USE DEF TypeInv, TypeOK, TablesType, HandlersType, StillType, Roster, Heard
<1> DEFINE c == from[r]
<1>0. c \in Clients /\ rpc[r] \notin {"new", "dispatch"}
  BY
     DEF Resync, ScopeEnter, ScopeGone, ScopeFirst, ScopeLock, ScopePromote,
         ScopeDrain, ScopeChange, ScopeDone
<1>1. UNCHANGED <<conn, sockets, from, request>>
  BY
     DEF Resync, ScopeEnter, ScopeGone, ScopeFirst, ScopeLock, ScopePromote,
         ScopeDrain, ScopeChange, ScopeDone, DrainStep, still
<1>2. rpc[r] \in ScopePast \cup {"resync", "scopeLock"}
  BY
     DEF Resync, ScopeEnter, ScopeGone, ScopeFirst, ScopeLock, ScopePromote,
         ScopeDrain, ScopeChange, ScopeDone, ScopePast
<1>3. PICK pc \in ScopePast \cup {"done"} : rpc' = [rpc EXCEPT ![r] = pc]
      /\ (pc # "done" => rpc[r] # "resync" /\ conn[c] \in {"drain", "open"})
  <2>1. CASE ScopeEnter(r)
    <3>1. c \in clients \cup awaiting => conn[c] \in {"drain", "open"}
      BY <1>0 DEF Enrolled
    <3> QED BY <2>1, <3>1 DEF ScopeEnter, Goto, ScopePast
  <2>2. CASE ~ScopeEnter(r)
    <3>1. \E pc \in ScopePast \cup {"done"} : rpc' = [rpc EXCEPT ![r] = pc]
          /\ (pc # "done" => rpc[r] \in ScopePast)
      <4>1. CASE ScopeDrain(r)
        BY <4>1 DEF ScopeDrain, DrainStep, ScopePast
      <4>2. CASE ~ScopeDrain(r)
        BY <2>2, <4>2
           DEF Resync, ScopeGone, ScopeFirst, ScopeLock, ScopePromote,
               ScopeChange, ScopeDone, Goto, ScopePast
      <4> QED BY <4>1, <4>2
    <3> QED BY <3>1 DEF ScopePast
  <2> QED BY <2>1, <2>2
<1>4. ASSUME NEW s \in Requests PROVE Heard(s)'
  <2>1. CASE s = r
    <3>1. rpc'[r] = pc /\ conn'[from'[r]] = conn[c] /\ Heard(r)
      BY <1>1, <1>3
    <3> QED BY <1>0, <1>3, <2>1, <3>1 DEF ScopePast
  <2>2. CASE s # r
    BY <1>1, <1>3, <2>2
  <2> QED BY <2>1, <2>2
<1>5. (request # NoRequest => rpc[request] = "dispatch")'
  BY <1>0, <1>1, <1>3
<1>6. \A d \in Clients \ {c} : 
           /\ d \in clients' <=> d \in clients
           /\ d \in connecting' <=> d \in connecting
           /\ d \in awaiting' <=> d \in awaiting
           /\ view'[d] = view[d]
  BY <1>0
     DEF Resync, ScopeEnter, ScopeGone, ScopeFirst, ScopeLock, ScopePromote,
         ScopeDrain, ScopeChange, ScopeDone, DrainStep, SafeSend, Forget, Promote,
         tables
<1>7. ASSUME NEW d \in Clients \ {c} PROVE Enrolled(d)'
  BY <1>1, <1>6 DEF Enrolled, Registered, sockets
<1>8. Enrolled(c)'
  <2> USE <1>0, <1>1 DEF Enrolled, Registered, sockets, tables
  <2>1. CASE Resync(r)
    BY <2>1 DEF Resync
  <2>2. CASE ScopeEnter(r) \/ ScopeGone(r) \/ ScopeLock(r) \/ ScopeDone(r)
    BY <2>2 DEF ScopeEnter, ScopeGone, ScopeLock, ScopeDone
  <2>3. CASE ScopeFirst(r)
    BY <2>3 DEF ScopeFirst, Knows, Forget
  <2>4. CASE ScopePromote(r)
    BY <1>2, <2>4 DEF ScopePromote, Promote, ScopePast
  <2>5. CASE ScopeDrain(r)
    BY <2>5 DEF ScopeDrain, DrainStep, SafeSend, Forget
  <2>6. CASE ScopeChange(r)
    BY <2>6 DEF ScopeChange, Knows, ScopePast
  <2> QED BY <2>1, <2>2, <2>3, <2>4, <2>5, <2>6
<1> QED
  BY <1>1, <1>4, <1>5, <1>7, <1>8

LEMMA NextRoster ==
    ASSUME TypeInv, Roster, [Next]_vars
    PROVE  Roster'
<1>1. CASE UNCHANGED vars
  BY <1>1 DEF vars, Roster, Enrolled, Heard, Registered, tables, sockets, still
<1>2. CASE LoopNext
  BY <1>2, ConnectRoster, LeaveRoster, FlushRoster, CommitRoster, RequestRoster,
     ScopeRoster
     DEF LoopNext, EnvironmentNext, HandlerNext
<1>3. CASE DispatchNext
  BY <1>3, CommitRoster, RequestRoster DEF DispatchNext
<1> QED
  BY <1>1, <1>2, <1>3 DEF Next

(* A connection that failed or was left is in none of the session's        *)
(* tables, whatever overlapped it.                                         *)
THEOREM NothingLeaks == Spec => []NoLeak
<1>1. Roster => NoLeak
  BY DEF Roster, Enrolled, NoLeak, Registered
<1>2. TypeInv /\ Roster /\ [Next]_vars => TypeInv' /\ Roster'
  BY NextTypeInv, NextRoster
<1> QED
  BY <1>1, <1>2, InitTypeInv, InitRoster, PTL DEF Spec

-----------------------------------------------------------------------------
(* The flush lock.                                                         *)

(* Who holds the flush lock while a handshake buffer is drained, or while  *)
(* a broadcast is on.                                                      *)
Drains ==
    /\ \A c \in Clients : conn[c] = "drain" => Holder(Connect(c))
    /\ \A r \in Requests : rpc[r] = "scopeDrain" => Holder(Handler(r))
    /\ sending => Flushing

(* The handshake buffer of c is being drained. *)
Draining(c) ==
    conn[c] = "drain" \/ \E r \in Requests : from[r] = c /\ rpc[r] = "scopeDrain"

(* A connected client has messages in its handshake buffer only while it   *)
(* is drained.                                                             *)
Buffered == \A c \in clients : buffer[c] # <<>> => Draining(c)

LEMMA InitDrains == Init => Drains /\ Buffered
BY DEF Init, Drains, Buffered

(* The head of a lock queue that grows, or loses another of its entries. *)
LEMMA HolderStays ==
    ASSUME TypeInv, NEW p, \/ lockq' = lockq
                           \/ lockq' = Append(lockq, p)
                           \/ CancelFlush(p) /\ ~Holder(p)
    PROVE  \A h : Holder(h) => Holder(h)'
<1> USE DEF TypeInv, TypeOK, LocksType, Holder
<1>1. CASE lockq' = lockq
  BY <1>1
<1>2. CASE lockq' = Append(lockq, p)
  BY <1>2
<1>3. CASE CancelFlush(p) /\ ~Holder(p)
  <2> SUFFICES ASSUME lockq # <<>> PROVE lockq' # <<>> /\ Head(lockq') = Head(lockq)
    OBVIOUS
  <2>1. CASE \E i \in DOMAIN lockq : lockq[i] = p
    <3>1. PICK i \in DOMAIN lockq : lockq[i] = p /\ lockq' = RemoveAt(lockq, i)
      BY <1>3, <2>1 DEF CancelFlush
    <3>2. i # 1 /\ i \in 1..Len(lockq) /\ Len(lockq) \in Nat
      BY <1>3, <3>1
    <3> QED
      BY <3>1, <3>2 DEF RemoveAt
  <2>2. CASE ~ \E i \in DOMAIN lockq : lockq[i] = p
    BY <1>3, <2>2 DEF CancelFlush
  <2> QED BY <2>1, <2>2
<1> QED
  BY <1>1, <1>2, <1>3

LEMMA KeptDrains ==
    ASSUME Drains, \A h : Holder(h) => Holder(h)',
           \A c \in Clients : conn'[c] = "drain" => conn[c] = "drain",
           \A r \in Requests : rpc'[r] = "scopeDrain" => rpc[r] = "scopeDrain",
           \A c \in Clients : conn[c] = "hello" /\ Holder(Connect(c))
              => conn'[c] = "hello",
           \A r \in Requests : rpc[r] \in FlushPcs /\ Holder(Handler(r))
              => rpc'[r] \in FlushPcs,
           sending' => Flushing
    PROVE  Drains'
<1>1. ASSUME Flushing PROVE Flushing'
  <2>1. Holder(Head(lockq)) /\ Holder(Head(lockq))'
    BY <1>1 DEF Flushing, Holder
  <2>2. lockq' # <<>> /\ Head(lockq') = Head(lockq)
    BY <2>1 DEF Holder
  <2> QED BY <1>1, <2>1, <2>2 DEF Flushing, Holder
<1> QED
  BY <1>1 DEF Drains

LEMMA ReleasedDrains ==
    ASSUME Drains, NEW p, Holder(p), ~sending',
           \A c \in Clients : conn'[c] = "drain" => conn[c] = "drain"
              /\ Connect(c) # p,
           \A r \in Requests : rpc'[r] = "scopeDrain" => rpc[r] = "scopeDrain"
              /\ Handler(r) # p
    PROVE  Drains'
BY DEF Drains, Holder

(* What holds the lock, if not a flush. *)
LEMMA NotFlushing ==
    ASSUME Drains
    PROVE  /\ \A c \in Clients : Holder(Connect(c)) /\ conn[c] # "hello" => ~sending
           /\ \A r \in Requests : Holder(Handler(r)) /\ rpc[r] \notin FlushPcs
              => ~sending
BY DEF Drains, Flushing, Holder, Connect, Handler, Task, Settled

LEMMA FlushDrains ==
    ASSUME TypeInv, Drains, FlushNext \/ SettledNext
    PROVE  Drains'
<1>1. UNCHANGED <<conn, rpc>>
  BY
     DEF FlushNext, SettledNext, BeginBroadcast, EndBroadcast, BroadcastTo,
         TaskStart, TaskDone, SettledCall, SettledFlush, SettledReturn,
         SettledCancel, CancelFlush
<1>2. ASSUME NEW p, FlushOver(p), sending' = sending, p = Settled
             \/ \E v \in 1..MaxVersion : p = Task(v)
      PROVE  Drains'
  <2>1. Holder(p) /\ ~sending' /\ (\A c \in Clients : Connect(c) # p)
        /\ \A r \in Requests : Handler(r) # p
    BY <1>2 DEF FlushOver, Connect, Handler, Task, Settled
  <2> QED BY <1>1, <2>1, ReleasedDrains
<1>3. ASSUME \A h : Holder(h) => Holder(h)', sending' => Flushing
      PROVE  Drains'
  BY <1>1, <1>3, KeptDrains
<1>4. ASSUME FlushNext PROVE Drains'
  <2>1. CASE BeginBroadcast
    <3>1. lockq' = lockq /\ Flushing
      BY <2>1 DEF BeginBroadcast
    <3> QED BY <1>3, <3>1, HolderStays
  <2>2. CASE EndBroadcast \/ \E c \in Clients : BroadcastTo(c)
    <3>1. lockq' = lockq /\ (sending' => sending)
      BY <2>2 DEF EndBroadcast, BroadcastTo
    <3> QED BY <1>3, <3>1, HolderStays DEF Drains
  <2>3. ASSUME NEW v \in 1..MaxVersion, TaskStart(v) PROVE Drains'
    <3>1. lockq' = Append(lockq, Task(v)) /\ sending' = sending
      BY <2>3 DEF TaskStart, queue
    <3> QED BY <1>3, <3>1, HolderStays DEF Drains
  <2>4. ASSUME NEW v \in 1..MaxVersion, TaskDone(v) PROVE Drains'
    BY <1>2, <2>4 DEF TaskDone, queue
  <2> QED BY <1>4, <2>1, <2>2, <2>3, <2>4 DEF FlushNext
<1>5. ASSUME SettledNext PROVE Drains'
  <2>1. CASE SettledCall
    <3>1. lockq' = lockq /\ sending' = sending
      BY <2>1 DEF SettledCall, queue
    <3> QED BY <1>3, <3>1, HolderStays DEF Drains
  <2>2. CASE SettledFlush
    <3>1. lockq' = Append(lockq, Settled) /\ sending' = sending
      BY <2>2 DEF SettledFlush, queue
    <3> QED BY <1>3, <3>1, HolderStays DEF Drains
  <2>3. CASE SettledReturn
    BY <1>2, <2>3 DEF SettledReturn, queue
  <2>4. CASE SettledCancel
    <3>1. PICK p : CancelFlush(p)
          /\ (p = Settled \/ \E v \in 1..MaxVersion : p = Task(v))
      <4>1. waits \subseteq 1..MaxVersion
        BY DEF TypeInv, TypeOK, HostType
      <4> QED BY <2>4, <4>1 DEF SettledCancel
    <3>2. CASE Holder(p)
      <4>1. ~sending'
        BY <3>1, <3>2 DEF CancelFlush
      <4>2. (\A c \in Clients : Connect(c) # p)
            /\ \A r \in Requests : Handler(r) # p
        BY <3>1 DEF Connect, Handler, Task, Settled
      <4> QED BY <1>1, <3>2, <4>1, <4>2, ReleasedDrains
    <3>3. CASE ~Holder(p)
      <4>1. sending' = sending
        BY <3>1, <3>3 DEF CancelFlush
      <4> QED BY <1>3, <3>1, <3>3, <4>1, HolderStays DEF Drains
    <3> QED BY <3>2, <3>3
  <2> QED BY <1>5, <2>1, <2>2, <2>3, <2>4 DEF SettledNext
<1> QED BY <1>4, <1>5

LEMMA ConnectDrains ==
    ASSUME TypeInv, Drains, NEW c \in Clients,
           ConnectStart(c) \/ ConnectNext(c) \/ ConnectionLost(c) \/ Disconnect(c)
    PROVE  Drains'
<1>0. conn \in [Clients -> ConnPcs]
  BY DEF TypeInv, TypeOK, HandlersType
<1>1. UNCHANGED <<rpc, sending>>
  BY
     DEF ConnectStart, ConnectNext, ConnectPartial, ConnectWhole, ConnectSnapshot,
         ConnectLock, ConnectPromote, ConnectDrain, ConnectDone, DrainStep,
         ConnectionLost, Disconnect, queue
<1>2. CASE \/ ConnectStart(c) \/ ConnectSnapshot(c) \/ ConnectLock(c)
              \/ ConnectDrain(c)
           \/ ConnectionLost(c) \/ Disconnect(c)
  <2>1. lockq' = lockq \/ lockq' = Append(lockq, Connect(c))
    BY <1>2
       DEF ConnectStart, ConnectSnapshot, ConnectLock, ConnectDrain, DrainStep,
           ConnectionLost, Disconnect
  <2>2. conn' = conn
        \/ (conn[c] # "hello"
           /\ \E pc \in {"hello", "snapshot", "failed", "promote"} : conn' = [conn EXCEPT ![c] = pc])
    BY <1>2
       DEF ConnectStart, ConnectSnapshot, ConnectLock, ConnectDrain, DrainStep,
           ConnectionLost, Disconnect
  <2>3. \A h : Holder(h) => Holder(h)'
    BY <2>1, HolderStays
  <2>4. \A d \in Clients : (conn'[d] = "drain" => conn[d] = "drain")
        /\ (conn[d] = "hello" => conn'[d] = "hello")
    BY <1>0, <2>2
  <2> QED BY <1>1, <2>3, <2>4, KeptDrains DEF Drains
<1>3. CASE ConnectPartial(c) \/ ConnectWhole(c) \/ ConnectDone(c)
           \/ (ConnectPromote(c) /\ c \notin connecting)
  <2>1. Holder(Connect(c)) /\ ~sending
    BY <1>3, NotFlushing
       DEF ConnectPartial, ConnectWhole, ConnectDone, ConnectPromote, FlushOver
  <2>2. \E pc \in {"open", "schema", "failed"} : conn' = [conn EXCEPT ![c] = pc]
    BY <1>3 DEF ConnectPartial, ConnectWhole, ConnectDone, ConnectPromote
  <2>3. \A d \in Clients : conn'[d] = "drain" => conn[d] = "drain"
        /\ Connect(d) # Connect(c)
    BY <1>0, <2>2 DEF Connect
  <2>4. \A r \in Requests : Handler(r) # Connect(c)
    BY DEF Connect, Handler
  <2> QED BY <1>1, <2>1, <2>3, <2>4, ReleasedDrains
<1>4. CASE ConnectPromote(c) /\ c \in connecting
  <2>1. Holder(Connect(c)) /\ ~sending /\ lockq' = lockq
        /\ conn' = [conn EXCEPT ![c] = "drain"]
    BY <1>4, NotFlushing DEF ConnectPromote
  <2> QED BY <1>0, <1>1, <2>1 DEF Drains, Holder
<1> QED BY <1>2, <1>3, <1>4 DEF ConnectNext

LEMMA CommitDrains ==
    ASSUME TypeInv, Drains, NEW q \in Projections, HostCommit(q) \/ RequestCommit(q)
    PROVE  Drains'
BY DEF HostCommit, RequestCommit, OnDocChange, Drains, Flushing, Holder

LEMMA RequestDrains ==
    ASSUME TypeInv, Roster, Drains, NEW r \in Requests,
           \/ RefuseMessage(r) \/ Dispatch(r) \/ DispatchOk(r)
           \/ DispatchRejected(r) \/ DispatchStepRejected(r) \/ DispatchError(r)
           \/ ScopeIgnored(r) \/ ScopeReceive(r) \/ Resync(r) \/ ScopeEnter(r)
              \/ ScopeLock(r) \/ ScopeDrain(r)
    PROVE  Drains'
<1>1. UNCHANGED <<conn, sending>>
  BY
     DEF RefuseMessage, Dispatch, DispatchOk, DispatchRejected,
         DispatchStepRejected, DispatchError, ScopeIgnored, ScopeReceive, Resync,
         ScopeEnter, ScopeLock, ScopeDrain, DrainStep, queue
<1>2. lockq' = lockq \/ lockq' = Append(lockq, Handler(r))
  BY
     DEF RefuseMessage, Dispatch, DispatchOk, DispatchRejected,
         DispatchStepRejected, DispatchError, ScopeIgnored, ScopeReceive, Resync,
         ScopeEnter, ScopeLock, ScopeDrain, DrainStep
<1>3. rpc[r] \notin FlushPcs
  <2>1. EndDispatch(r) => rpc[r] = "dispatch"
    BY DEF EndDispatch, Roster
  <2> QED BY <2>1
             DEF RefuseMessage, Dispatch, DispatchOk, DispatchRejected,
                 DispatchStepRejected, DispatchError, ScopeIgnored, ScopeReceive,
                 Resync, ScopeEnter, ScopeLock, ScopeDrain, Receive, FlushPcs
<1>4. rpc' = rpc
      \/ \E pc \in RequestPcs \ {"scopeDrain"} : rpc' = [rpc EXCEPT ![r] = pc]
  BY
     DEF RefuseMessage, Dispatch, DispatchOk, DispatchRejected,
         DispatchStepRejected, DispatchError, ScopeIgnored, ScopeReceive, Resync,
         ScopeEnter, ScopeLock, ScopeDrain, DrainStep, Goto, RequestPcs, FlushPcs
<1>5. \A s \in Requests : (rpc'[s] = "scopeDrain" => rpc[s] = "scopeDrain")
      /\ (rpc[s] \in FlushPcs => rpc'[s] \in FlushPcs)
  BY <1>3, <1>4 DEF TypeInv, TypeOK, HandlersType
<1>6. \A h : Holder(h) => Holder(h)'
  BY <1>2, HolderStays
<1> QED BY <1>1, <1>5, <1>6, KeptDrains DEF Drains

LEMMA HandlerDrains ==
    ASSUME TypeInv, Drains, NEW r \in Requests,
           \/ RequestDone(r) \/ RejectReply(r) \/ ScopeGone(r) \/ ScopeFirst(r)
           \/ ScopePromote(r) \/ ScopeChange(r) \/ ScopeDone(r)
    PROVE  Drains'
<1>0. rpc \in [Requests -> RequestPcs]
  BY DEF TypeInv, TypeOK, HandlersType
<1>1. Holder(Handler(r)) /\ ~sending
  BY NotFlushing
     DEF RequestDone, RejectReply, ScopeGone, ScopeFirst, ScopePromote,
         ScopeChange, ScopeDone, FlushOver, FlushPcs
<1>2. UNCHANGED <<conn, sending>>
  BY
     DEF RequestDone, RejectReply, ScopeGone, ScopeFirst, ScopePromote,
         ScopeChange, ScopeDone, queue
<1>3. \A c \in Clients : Connect(c) # Handler(r)
  BY DEF Connect, Handler
<1>4. CASE ScopePromote(r) /\ from[r] \in connecting
  <2>1. lockq' = lockq /\ rpc' = [rpc EXCEPT ![r] = "scopeDrain"]
    BY <1>4 DEF ScopePromote, Goto
  <2> QED BY <1>0, <1>1, <1>2, <2>1 DEF Drains, Holder
<1>5. CASE ~(ScopePromote(r) /\ from[r] \in connecting)
  <2>1. \E pc \in {"done", "resync", "scopeSent", "ackFlush"} : rpc' = [rpc EXCEPT ![r] = pc]
    BY <1>5
       DEF RequestDone, RejectReply, ScopeGone, ScopeFirst, ScopePromote,
           ScopeChange, ScopeDone, Goto
  <2>2. \A s \in Requests : rpc'[s] = "scopeDrain" => rpc[s] = "scopeDrain"
        /\ Handler(s) # Handler(r)
    BY <1>0, <2>1 DEF Handler
  <2> QED BY <1>1, <1>2, <1>3, <2>2, ReleasedDrains
<1> QED BY <1>4, <1>5

LEMMA NextDrains ==
    ASSUME TypeInv, Roster, Drains, [Next]_vars
    PROVE  Drains'
<1>1. CASE UNCHANGED vars
  BY <1>1 DEF vars, Drains, Flushing, Holder, queue
<1>2. CASE LoopNext
  BY <1>2, ConnectDrains, FlushDrains, CommitDrains, RequestDrains, HandlerDrains
     DEF LoopNext, EnvironmentNext, HandlerNext
<1>3. CASE DispatchNext
  BY <1>3, CommitDrains, RequestDrains DEF DispatchNext
<1> QED
  BY <1>1, <1>2, <1>3 DEF Next

(* Only the holder of the flush lock writes to the clients, for any        *)
(* clients, requests, commits and features, with the type of every         *)
(* variable: so the queue is never popped when empty, nor of an entry      *)
(* another flush has sent, and no lock is released that its task does not  *)
(* hold.                                                                   *)
THEOREM HolderWrites == Spec => []WriterHoldsLock
<1>1. TypeInv /\ Drains => WriterHoldsLock
  BY DEF TypeInv, SendingHead, Drains, WriterHoldsLock, SendingLocked, DrainsLocked
<1>2. TypeInv /\ Roster /\ Drains /\ [Next]_vars => TypeInv' /\ Roster' /\ Drains'
  BY NextTypeInv, NextRoster, NextDrains
<1> QED
  BY <1>1, <1>2, InitTypeInv, InitRoster, InitDrains, PTL DEF Spec

-----------------------------------------------------------------------------
(***************************************************************************)
(* What the session delivers, for any number of clients, requests and      *)
(* commits and any set of features: no client misses a commit (NoLoss),    *)
(* all is sent when a flush ends (FlushMeansSent), no client is            *)
(* sent a commit twice (OnceOnly) or out of order (InOrder), every request *)
(* is answered (Answered), and a patch is projected onto the view its      *)
(* client holds when it arrives (ViewAgrees).                              *)
(*                                                                         *)
(* NoLoss alone is not inductive.  A connection that registers clears its  *)
(* buffer: it must not be owed anything from before, which NotYet says;    *)
(* and a commit queued behind the entry being sent is not that entry,      *)
(* which the type invariant's SendingHead says.  OnceOnly and InOrder need *)
(* the order of the frames on their way (Ordered), and that a broadcast    *)
(* goes to connected clients (SentTo) whose buffers are empty (Buffered).  *)
(***************************************************************************)

(* A connection that has not registered is owed nothing. *)
NotYet ==
    \A c \in Clients :
        conn[c] \in {"new", "hello"} => due[c] = {} /\ c \notin Registered

LossInv == TypeInv /\ NotYet /\ NoLoss

LEMMA InitLossInv == Init => LossInv
BY InitTypeInv DEF Init, LossInv, NotYet, Registered, NoLoss

(* A step that leaves the queue and the buffers alone loses nothing if it  *)
(* registers nobody and owes nobody more.                                  *)
LEMMA QuietStep ==
    ASSUME LossInv, UNCHANGED <<buffer, queue>>, Registered' \subseteq Registered,
           \A c \in Clients : due'[c] \subseteq due[c],
           \A c \in Clients : conn'[c] \in {"new", "hello"} =>
                                 conn[c] \in {"new", "hello"}
    PROVE  NotYet' /\ NoLoss'
<1>1. Registered \subseteq Clients
    BY DEF LossInv, TypeInv, TypeOK, TablesType, Registered
<1>2. NotYet'
    BY DEF LossInv, NotYet
<1>3. ASSUME NEW c \in Registered', NEW v \in due'[c] PROVE OnItsWay(c, v)'
    BY <1>1, <1>3 DEF LossInv, NoLoss, OnItsWay, QueuedFor, Registered, queue
<1> QED
    BY <1>2, <1>3 DEF NoLoss, Registered

LEMMA QuietFlush ==
    ASSUME LossInv,
           \/ \E v \in 1..MaxVersion : TaskStart(v) \/ TaskDone(v)
           \/ SettledCall \/ SettledFlush \/ SettledReturn
    PROVE  NotYet' /\ NoLoss'
<1>1. /\ UNCHANGED <<buffer, queue>> /\ UNCHANGED <<clients, connecting>>
      /\ UNCHANGED <<due, conn>>
    BY DEF TaskStart, TaskDone, SettledCall, SettledFlush, SettledReturn,
           tables, seen
<1> QED
    BY <1>1, QuietStep DEF Registered

LEMMA QuietConnect ==
    ASSUME LossInv, NEW c \in Clients,
           \/ ConnectStart(c) \/ ConnectSnapshot(c) \/ ConnectLock(c)
           \/ ConnectPromote(c) \/ ConnectDone(c)
           \/ ConnectionLost(c) \/ Disconnect(c)
    PROVE  NotYet' /\ NoLoss'
<1> USE DEF Registered, tables, seen
<1>1. conn \in [Clients -> ConnPcs]
    BY DEF LossInv, TypeInv, TypeOK, HandlersType
<1>2. UNCHANGED <<buffer, queue>> /\ UNCHANGED due
    BY DEF ConnectStart, ConnectSnapshot, ConnectLock, ConnectPromote,
           ConnectDone, ConnectionLost, Disconnect
<1>3. \A d \in Clients : conn'[d] \in {"new", "hello"} => conn[d] \in {"new", "hello"}
    BY <1>1
       DEF ConnectStart, ConnectSnapshot, ConnectLock, ConnectPromote,
           ConnectDone, ConnectionLost, Disconnect
<1>4. Registered' \subseteq Registered
    BY DEF ConnectStart, ConnectSnapshot, ConnectLock, ConnectPromote,
           ConnectDone, ConnectionLost, Disconnect, Promote, Forget
<1> QED
    BY <1>2, <1>3, <1>4, QuietStep

LEMMA QuietRequest ==
    ASSUME LossInv, NEW r \in Requests,
           \/ RefuseMessage(r) \/ Dispatch(r) \/ DispatchRejected(r)
           \/ DispatchStepRejected(r) \/ DispatchError(r)
           \/ RequestDone(r) \/ RejectReply(r) \/ Resync(r)
    PROVE  NotYet' /\ NoLoss'
<1>1. UNCHANGED <<buffer, queue>> /\ UNCHANGED <<clients, connecting, conn>>
    BY DEF RefuseMessage, Dispatch, DispatchRejected, DispatchStepRejected,
           DispatchError, RequestDone, RejectReply, Resync, tables
<1>2. \A c \in Clients : due'[c] \subseteq due[c]
    BY DEF RefuseMessage, Dispatch, DispatchRejected, DispatchStepRejected,
           DispatchError, RequestDone, RejectReply, Resync, SendError, seen,
           LossInv, TypeInv, TypeOK, SeenType
<1> QED
    BY <1>1, <1>2, QuietStep DEF Registered

LEMMA QuietScope ==
    ASSUME LossInv, NEW r \in Requests,
           \/ ScopeIgnored(r) \/ ScopeReceive(r) \/ ScopeEnter(r)
           \/ ScopeGone(r) \/ ScopeFirst(r) \/ ScopeLock(r)
           \/ ScopePromote(r) \/ ScopeDone(r)
    PROVE  NotYet' /\ NoLoss'
<1> USE DEF tables, seen
<1>1. UNCHANGED <<buffer, queue>> /\ UNCHANGED conn
    BY DEF ScopeIgnored, ScopeReceive, ScopeEnter, ScopeGone, ScopeFirst,
           ScopeLock, ScopePromote, ScopeDone
<1>2. \A c \in Clients : due'[c] \subseteq due[c]
    BY DEF ScopeIgnored, ScopeReceive, ScopeEnter, ScopeGone, ScopeFirst,
           ScopeLock, ScopePromote, ScopeDone, SendError,
           LossInv, TypeInv, TypeOK, SeenType
<1>3. Registered' \subseteq Registered
    BY DEF ScopeIgnored, ScopeReceive, ScopeEnter, ScopeGone, ScopeFirst,
           ScopeLock, ScopePromote, ScopeDone, Registered, Forget, Promote
<1> QED
    BY <1>1, <1>2, <1>3, QuietStep

(* Elements of a concatenation that is given a name. *)
LEMMA ConcatElements ==
    ASSUME NEW S, NEW s1 \in Seq(S), NEW s2 \in Seq(S), NEW s3, s3 = s1 \o s2
    PROVE  /\ s3 \in Seq(S) /\ Len(s3) = Len(s1) + Len(s2)
           /\ \A i \in 1..(Len(s1) + Len(s2)) :
                s3[i] = IF i <= Len(s1) THEN s1[i] ELSE s2[i - Len(s1)]
BY ConcatProperties

(* A queue that only grows at its end loses nothing. *)
LEMMA GrownQueue ==
    ASSUME NEW c, NEW v, OnItsWay(c, v), UNCHANGED <<buffer, sending, todo>>,
           \A i \in DOMAIN pending : i \in DOMAIN pending' /\ pending'[i] = pending[i]
    PROVE  OnItsWay(c, v)'
BY DEF OnItsWay, QueuedFor

LEMMA GrownByOne ==
    ASSUME LossInv, NEW e \in Entry, pending' = Append(pending, e),
           UNCHANGED <<buffer, sending, todo, due, conn, clients, connecting>>
    PROVE  NotYet' /\ NoLoss'
<1>1. \A i \in DOMAIN pending : i \in DOMAIN pending' /\ pending'[i] = pending[i]
    BY AppendProperties, LenProperties
       DEF LossInv, TypeInv, TypeOK, QueueType
<1> QED
    BY <1>1, GrownQueue DEF LossInv, NotYet, NoLoss, Registered

(* What a commit queues: one entry for the clients that hold the whole     *)
(* document, one for each view it is projected for.                        *)
LEMMA CommitQueue ==
    ASSUME TypeOK, NEW q \in Projections, OnDocChange(q)
    PROVE  /\ DOMAIN pending = 1..Len(pending) /\ Len(pending) \in Nat
           /\ DOMAIN pending' = 1..(Len(pending) + 1 + Len(q))
           /\ \A i \in 1..(Len(pending) + 1 + Len(q)) :
                 pending'[i] = IF i <= Len(pending) THEN pending[i]
                               ELSE IF i = Len(pending) + 1 THEN WholeEntry
                               ELSE ScopedEntries(q)[i - (Len(pending) + 1)]
<1> USE DEF TypeOK
<1>a. /\ version \in 0..(MaxVersion - 1)
      /\ pending' = Append(pending, WholeEntry) \o ScopedEntries(q)
    BY SessionAssumption DEF OnDocChange, StillType
<1>b. q \in Seq(Scoped) /\ Len(q) \in Nat /\ DOMAIN q = 1..Len(q)
    BY ProjectionType, LenProperties
<1>1. /\ WholeEntry \in Entry /\ ScopedEntries(q) \in Seq(Entry)
      /\ pending \in Seq(Entry) /\ Len(ScopedEntries(q)) = Len(q)
    <2>1. WholeEntry \in Entry /\ ScopedEntries(q) \in Seq(Entry)
        BY <1>a, CommitEntries
    <2>2. DOMAIN ScopedEntries(q) = 1..Len(q)
        BY <1>b DEF ScopedEntries
    <2>3. Len(ScopedEntries(q)) = Len(q)
        BY <1>b, <2>1, <2>2, LenProperties
    <2> QED
        BY <2>1, <2>3 DEF QueueType
<1>2. /\ Append(pending, WholeEntry) \in Seq(Entry)
      /\ Len(Append(pending, WholeEntry)) = Len(pending) + 1
      /\ \A i \in 1..Len(pending) : Append(pending, WholeEntry)[i] = pending[i]
      /\ Append(pending, WholeEntry)[Len(pending) + 1] = WholeEntry
    BY <1>1, AppendProperties
<1>3. Len(pending) \in Nat /\ DOMAIN pending = 1..Len(pending)
    BY <1>1, LenProperties
<1> DEFINE w == Append(pending, WholeEntry)
           t == ScopedEntries(q)
<1>4. /\ w \in Seq(Entry) /\ t \in Seq(Entry)
      /\ Len(w) = Len(pending) + 1 /\ Len(t) = Len(q)
      /\ \A i \in 1..Len(pending) : w[i] = pending[i]
      /\ w[Len(pending) + 1] = WholeEntry
      /\ pending' = w \o t
    BY <1>a, <1>1, <1>2
<1> HIDE DEF w, t
<1>5. /\ pending' \in Seq(Entry) /\ Len(pending') = Len(w) + Len(t)
      /\ \A i \in 1..(Len(w) + Len(t)) :
           pending'[i] = IF i <= Len(w) THEN w[i] ELSE t[i - Len(w)]
    <2>1. w \in Seq(Entry) /\ t \in Seq(Entry) /\ pending' = w \o t
        BY <1>4
    <2> QED
        BY ONLY <2>1, ConcatElements
<1>6. DOMAIN pending' = 1..(Len(pending) + 1 + Len(q))
    BY <1>4, <1>5, LenProperties
<1>7. ASSUME NEW i \in 1..(Len(pending) + 1 + Len(q))
      PROVE  pending'[i] = IF i <= Len(pending) THEN pending[i]
                           ELSE IF i = Len(pending) + 1 THEN WholeEntry
                           ELSE t[i - (Len(pending) + 1)]
    BY <1>b, <1>3, <1>4, <1>5
<1> QED
    BY <1>3, <1>6, <1>7 DEF t

(* A commit is owed to those it is queued for, and to nobody else. *)
LEMMA CommitLoss ==
    ASSUME LossInv, NEW q \in Projections, HostCommit(q) \/ RequestCommit(q)
    PROVE  NotYet' /\ NoLoss'
<1> USE DEF LossInv, TypeInv, TypeOK
<1>0. OnDocChange(q)
    BY DEF HostCommit, RequestCommit
<1>1. /\ UNCHANGED <<clients, connecting, buffer, sending, todo, conn>>
      /\ version \in 0..(MaxVersion - 1)
      /\ pending' = Append(pending, WholeEntry) \o ScopedEntries(q)
    BY <1>0, SessionAssumption DEF OnDocChange, StillType, tables
<1>2. \A c \in Clients :
        due'[c] = IF c \in Whole \/ \E i \in DOMAIN q : q[i] = c
                    THEN due[c] \cup {version + 1} ELSE due[c]
    BY <1>0 DEF OnDocChange
<1>3. q \in Seq(Scoped) /\ Len(q) \in Nat /\ DOMAIN q = 1..Len(q)
    BY ProjectionType, LenProperties
<1>4. Whole \subseteq Registered /\ \A i \in DOMAIN q : q[i] \in Registered
    BY <1>3 DEF Whole, Scoped, Registered
<1>5. NotYet'
    <2> SUFFICES ASSUME NEW c \in Clients, conn'[c] \in {"new", "hello"}
                 PROVE  due'[c] = {} /\ c \notin Registered'
        BY DEF NotYet
    <2>1. due[c] = {} /\ c \notin Registered
        BY <1>1 DEF NotYet
    <2>2. c \notin Whole /\ ~ \E i \in DOMAIN q : q[i] = c
        BY <1>4, <2>1
    <2> QED
        BY <1>1, <1>2, <2>1, <2>2 DEF Registered
<1>6. /\ DOMAIN pending = 1..Len(pending) /\ Len(pending) \in Nat
      /\ DOMAIN pending' = 1..(Len(pending) + 1 + Len(q))
      /\ \A i \in 1..(Len(pending) + 1 + Len(q)) :
            pending'[i] = IF i <= Len(pending) THEN pending[i]
                          ELSE IF i = Len(pending) + 1 THEN WholeEntry
                          ELSE ScopedEntries(q)[i - (Len(pending) + 1)]
    BY <1>0, CommitQueue
<1>7. ASSUME NEW c \in Registered', NEW v \in due'[c] PROVE OnItsWay(c, v)'
    <2>0. c \in Clients /\ c \in Registered
        BY <1>1 DEF Registered, TablesType
    <2>1. CASE v \in due[c]
        <3>1. OnItsWay(c, v)
            BY <2>0, <2>1 DEF NoLoss, Registered
        <3>2. \A i \in DOMAIN pending : i \in DOMAIN pending' /\ pending'[i] = pending[i]
            BY <1>3, <1>6
        <3> QED
            BY <1>1, <3>1, <3>2, GrownQueue
    <2>2. CASE v = version + 1 /\ c \in Whole
        <3> DEFINE n == Len(pending) + 1
        <3>1. n \in DOMAIN pending' /\ pending'[n] = WholeEntry
            BY <1>3, <1>6
        <3>2. n = 1 => ~sending
            BY <1>6, EmptySeq DEF SendingHead, QueueType
        <3>3. n \in QueuedFor(c)' /\ IsPatch(pending'[n].msg, v)
            BY <1>1, <2>2, <3>1, <3>2
               DEF QueuedFor, WholeEntry, IsPatch, Patch
        <3> QED
            BY <3>3 DEF OnItsWay, IsPatch
    <2>3. CASE v = version + 1 /\ \E i \in DOMAIN q : q[i] = c
        <3>1. PICK i \in DOMAIN q : q[i] = c
            BY <2>3
        <3> DEFINE n == Len(pending) + 1 + i
        <3>2. n \in DOMAIN pending' /\ pending'[n] = ScopedEntries(q)[i] /\ n # 1
            BY <1>3, <1>6, <3>1
        <3>3. n \in QueuedFor(c)' /\ IsPatch(pending'[n].msg, v)
            BY <1>1, <2>3, <3>1, <3>2
               DEF QueuedFor, ScopedEntries, IsPatch, Patch
        <3> HIDE DEF n
        <3> QED
            BY <3>3 DEF OnItsWay, IsPatch
    <2> QED
        <3>1. v \in due'[c]
            BY <1>7
        <3>2. \/ v \in due[c]
              \/ v = version + 1 /\ (c \in Whole \/ \E i \in DOMAIN q : q[i] = c)
            <4>1. CASE c \in Whole \/ \E i \in DOMAIN q : q[i] = c
                <5>1. due'[c] = due[c] \cup {version + 1}
                    BY <1>2, <2>0, <4>1
                <5> QED
                    BY <3>1, <4>1, <5>1
            <4>2. CASE ~(c \in Whole \/ \E i \in DOMAIN q : q[i] = c)
                <5>1. due'[c] = due[c]
                    BY <1>2, <2>0, <4>2
                <5> QED
                    BY <3>1, <5>1
            <4> QED
                BY <4>1, <4>2
        <3> QED
            BY <2>1, <2>2, <2>3, <3>2
<1> QED
    BY <1>5, <1>7 DEF NoLoss, Registered

(* A broadcast begins: a connected client stays owed the entry, which its  *)
(* send task will write; one in its handshake has it in its buffer.        *)
LEMMA BeginBroadcastLoss ==
    ASSUME LossInv, BeginBroadcast
    PROVE  NotYet' /\ NoLoss'
<1> USE DEF LossInv, TypeInv, TypeOK, tables, seen
<1>1. NotYet'
    BY DEF BeginBroadcast, NotYet, Registered
<1>2. ASSUME NEW c \in clients \cup connecting, NEW v \in due[c]
      PROVE  OnItsWay(c, v)'
    <2> DEFINE m == Head(pending).msg
    <2>1. /\ c \in Clients /\ buffer[c] \in Seq(Message) /\ OnItsWay(c, v)
          /\ pending # <<>> /\ pending' = pending /\ ~sending
        BY <1>2 DEF BeginBroadcast, TablesType, QueueType, NoLoss
    <2>2. m \in Message /\ Head(pending) = pending[1] /\ 1 \in DOMAIN pending
        <3>1. pending \in Seq(Entry) /\ Head(pending) \in Entry
            BY <2>1, TailType DEF QueueType
        <3>2. Len(pending) \in Nat \ {0} /\ DOMAIN pending = 1..Len(pending)
            BY <2>1, <3>1, EmptySeq, LenProperties
        <3> QED
            BY <3>1, <3>2, HeadTailProperties DEF Entry
    <2>3. buffer'[c] = IF c \in connecting \cap Head(pending).to
                         THEN Append(buffer[c], m) ELSE buffer[c]
        BY <2>1 DEF BeginBroadcast
    <2>4. CASE \E i \in DOMAIN buffer[c] : IsPatch(buffer[c][i], v)
        <3>1. PICK i \in DOMAIN buffer[c] : IsPatch(buffer[c][i], v)
            BY <2>4
        <3>2. i \in DOMAIN buffer'[c] /\ buffer'[c][i] = buffer[c][i]
            BY <2>1, <2>2, <2>3, AppendProperties, LenProperties
        <3> QED
            BY <3>1, <3>2 DEF OnItsWay, IsPatch
    <2>5. CASE \E i \in QueuedFor(c) : IsPatch(pending[i].msg, v)
        <3>1. PICK i \in QueuedFor(c) : IsPatch(pending[i].msg, v)
            BY <2>5
        <3>2. CASE i # 1 \/ c \in todo'
            <4>1. i \in QueuedFor(c)' /\ IsPatch(pending'[i].msg, v)
                BY <2>1, <3>1, <3>2 DEF QueuedFor
            <4> QED
                BY <4>1 DEF OnItsWay, IsPatch
        <3>3. CASE i = 1 /\ c \notin todo'
            <4>1. c \in connecting \cap Head(pending).to /\ IsPatch(m, v)
                BY <1>2, <2>2, <3>1, <3>3 DEF BeginBroadcast, QueuedFor
            <4>2. buffer'[c] = Append(buffer[c], m)
                BY <2>3, <4>1
            <4>3. /\ Len(buffer[c]) + 1 \in DOMAIN buffer'[c]
                  /\ buffer'[c][Len(buffer[c]) + 1] = m
                BY <2>1, <2>2, <4>2, AppendProperties, LenProperties
            <4> QED
                BY <4>1, <4>3 DEF OnItsWay, IsPatch
        <3> QED
            BY <3>2, <3>3
    <2> QED
        BY <2>1, <2>4, <2>5 DEF OnItsWay
<1> QED
    BY <1>1, <1>2 DEF BeginBroadcast, NoLoss

(* What a live client has been sent is no longer owed to it. *)
LEMMA SafeSendOwes ==
    ASSUME TypeOK, NEW c \in Clients, NEW m, SafeSend(c, m)
    PROVE  /\ Registered' \subseteq Registered
           /\ c \in Registered' => /\ due'[c] \subseteq due[c]
                                   /\ \A v \in due'[c] : ~IsPatch(m, v)
           /\ \A d \in Clients \ {c} : due'[d] = due[d]
           /\ due'[c] \subseteq due[c]
BY DEF SafeSend, Forget, Deliver, IsPatch, Registered, tables, seen,
       TypeOK, SeenType

LEMMA BroadcastToLoss ==
    ASSUME LossInv, NEW c \in Clients, BroadcastTo(c)
    PROVE  NotYet' /\ NoLoss'
<1> USE DEF LossInv, TypeInv, TypeOK
<1>1. /\ SafeSend(c, Head(pending).msg) /\ sending /\ sending' = sending
      /\ UNCHANGED <<buffer, pending, conn>> /\ todo' = todo \ {c}
    BY DEF BroadcastTo
<1>2. pending # <<>> /\ Head(pending) = pending[1]
    BY <1>1, HeadTailProperties DEF SendingHead, QueueType
<1>3. NotYet'
    BY <1>1, SafeSendOwes DEF NotYet
<1>4. ASSUME NEW d \in clients' \cup connecting', NEW v \in due'[d]
      PROVE  OnItsWay(d, v)'
    <2>1. d \in Clients /\ d \in clients \cup connecting /\ v \in due[d]
        BY <1>1, <1>4, SafeSendOwes DEF Registered, TablesType
    <2>2. OnItsWay(d, v)
        BY <2>1 DEF NoLoss
    <2>3. d = c => ~IsPatch(Head(pending).msg, v)
        BY <1>1, <1>4, SafeSendOwes DEF Registered
    <2> QED
        BY <1>1, <1>2, <2>2, <2>3 DEF OnItsWay, QueuedFor
<1> QED
    BY <1>3, <1>4 DEF NoLoss

(* The entry that leaves the queue has been written to everyone it was for. *)
LEMMA EndBroadcastLoss ==
    ASSUME LossInv, EndBroadcast
    PROVE  NotYet' /\ NoLoss'
<1> USE DEF LossInv, TypeInv, TypeOK, tables, seen
<1>1. NotYet'
    BY DEF EndBroadcast, NotYet, Registered
<1>2. /\ pending # <<>> /\ pending' = Tail(pending) /\ sending /\ ~sending'
      /\ todo = {} /\ UNCHANGED <<buffer, due, clients, connecting>>
    BY DEF EndBroadcast, SendingHead
<1>3. /\ Len(pending) \in Nat /\ DOMAIN pending = 1..Len(pending)
      /\ DOMAIN pending' = 1..(Len(pending) - 1)
      /\ \A i \in 1..(Len(pending) - 1) : pending'[i] = pending[i + 1]
    BY <1>2, HeadTailProperties, LenProperties DEF QueueType
<1>4. ASSUME NEW c \in clients \cup connecting, NEW v \in due[c]
      PROVE  OnItsWay(c, v)'
    <2>1. OnItsWay(c, v)
        BY <1>4 DEF NoLoss
    <2>2. CASE \E i \in QueuedFor(c) : IsPatch(pending[i].msg, v)
        <3>1. PICK i \in QueuedFor(c) : IsPatch(pending[i].msg, v)
            BY <2>2
        <3>2. i \in 2..Len(pending) /\ c \in pending[i].to
            BY <1>2, <1>3, <3>1 DEF QueuedFor
        <3>3. i - 1 \in 1..(Len(pending) - 1) /\ (i - 1) + 1 = i
            BY <1>3, <3>2
        <3>4. pending'[i - 1] = pending[i]
            BY <1>3, <3>3
        <3>5. i - 1 \in QueuedFor(c)' /\ IsPatch(pending'[i - 1].msg, v)
            BY <1>2, <1>3, <3>1, <3>2, <3>3, <3>4 DEF QueuedFor
        <3> QED
            BY <3>5 DEF OnItsWay, IsPatch
    <2> QED
        BY <1>2, <2>1, <2>2 DEF OnItsWay
<1> QED
    BY <1>1, <1>2, <1>4 DEF NoLoss

(* A cancelled broadcast leaves its entry at the head of the queue, to be  *)
(* sent again to everyone.                                                 *)
LEMMA CancelLoss ==
    ASSUME LossInv, SettledCancel
    PROVE  NotYet' /\ NoLoss'
<1>1. /\ UNCHANGED <<clients, connecting, conn, due, buffer, pending>>
      /\ UNCHANGED <<sending, todo>> \/ sending' = FALSE
    BY DEF SettledCancel, CancelFlush, tables
<1> QED
    BY <1>1 DEF LossInv, NotYet, NoLoss, OnItsWay, QueuedFor, Registered

(* A connection registers with an empty buffer and owed nothing. *)
LEMMA RegisterLoss ==
    ASSUME LossInv, NEW c \in Clients, ConnectPartial(c) \/ ConnectWhole(c)
    PROVE  NotYet' /\ NoLoss'
<1> USE DEF LossInv, TypeInv, TypeOK, seen
<1>1. /\ UNCHANGED queue /\ buffer' = [buffer EXCEPT ![c] = <<>>]
      /\ \E pc \in {"failed", "open", "schema"} : conn' = [conn EXCEPT ![c] = pc]
      /\ Registered' \subseteq Registered \cup {c}
    BY DEF ConnectPartial, ConnectWhole, Registered, Forget
<1>2. due'[c] = {} /\ \A d \in Clients \ {c} : due'[d] = due[d]
    BY DEF ConnectPartial, ConnectWhole, NotYet, SeenType
<1>3. NotYet'
    BY <1>1, <1>2 DEF NotYet, HandlersType
<1>4. ASSUME NEW d \in Registered', NEW v \in due'[d] PROVE OnItsWay(d, v)'
    <2>1. d \in Registered /\ d # c /\ d \in Clients /\ v \in due[d]
        BY <1>1, <1>2, <1>4 DEF Registered, TablesType
    <2>2. OnItsWay(d, v) /\ buffer'[d] = buffer[d]
        BY <1>1, <2>1 DEF NoLoss, Registered, QueueType
    <2> QED
        BY <1>1, <2>2 DEF OnItsWay, QueuedFor, queue
<1> QED
    BY <1>3, <1>4 DEF NoLoss, Registered

LEMMA DrainLoss ==
    ASSUME LossInv, NEW c \in Clients, DrainStep(c)
    PROVE  NotYet' /\ NoLoss'
<1> USE DEF LossInv, TypeInv, TypeOK
<1>1. /\ SafeSend(c, Head(buffer[c])) /\ buffer[c] # <<>>
      /\ buffer' = [buffer EXCEPT ![c] = Tail(@)]
      /\ UNCHANGED queue /\ UNCHANGED conn
    BY DEF DrainStep
<1>2. NotYet'
    BY <1>1, SafeSendOwes DEF NotYet
<1>3. ASSUME NEW d \in clients' \cup connecting', NEW v \in due'[d]
      PROVE  OnItsWay(d, v)'
    <2>1. d \in Clients /\ d \in clients \cup connecting /\ v \in due[d]
        BY <1>1, <1>3, SafeSendOwes DEF Registered, TablesType
    <2>2. OnItsWay(d, v)
        BY <2>1 DEF NoLoss
    <2>3. CASE d # c
        BY <1>1, <2>1, <2>2, <2>3 DEF OnItsWay, QueuedFor, queue, QueueType
    <2>4. CASE d = c /\ \E i \in DOMAIN buffer[c] : IsPatch(buffer[c][i], v)
        <3>1. PICK i \in DOMAIN buffer[c] : IsPatch(buffer[c][i], v)
            BY <2>4
        <3>2. ~IsPatch(Head(buffer[c]), v)
            BY <1>1, <1>3, <2>4, SafeSendOwes DEF Registered
        <3>3. /\ buffer[c] \in Seq(Message) /\ buffer'[c] = Tail(buffer[c])
              /\ Head(buffer[c]) = buffer[c][1]
              /\ Len(buffer[c]) \in Nat /\ DOMAIN buffer[c] = 1..Len(buffer[c])
            BY <1>1, HeadTailProperties, LenProperties DEF QueueType
        <3>4. i \in 2..Len(buffer[c])
            BY <3>1, <3>2, <3>3
        <3>5. i - 1 \in DOMAIN buffer'[c] /\ buffer'[c][i - 1] = buffer[c][i]
            <4> DEFINE b == buffer[c]
            <4>1. /\ Tail(b) \in Seq(Message) /\ Len(Tail(b)) = Len(b) - 1
                  /\ \A j \in 1..Len(Tail(b)) : Tail(b)[j] = b[j + 1]
                BY <1>1, <3>3, HeadTailProperties
            <4>2. i - 1 \in 1..Len(Tail(b)) /\ (i - 1) + 1 = i
                BY <3>3, <3>4, <4>1
            <4>3. DOMAIN Tail(b) = 1..Len(Tail(b))
                BY <4>1, LenProperties
            <4> QED
                BY <3>3, <4>1, <4>2, <4>3
        <3> QED
            BY <2>4, <3>1, <3>5 DEF OnItsWay, IsPatch
    <2>5. CASE \E i \in QueuedFor(d) : IsPatch(pending[i].msg, v)
        BY <1>1, <2>5 DEF OnItsWay, QueuedFor, queue
    <2> QED
        BY <2>2, <2>3, <2>4, <2>5 DEF OnItsWay
<1> QED
    BY <1>2, <1>3 DEF NoLoss

(* Answers and scope deltas are queued at the end. *)
LEMMA QueueLoss ==
    ASSUME LossInv, NEW r \in Requests, DispatchOk(r) \/ ScopeChange(r)
    PROVE  NotYet' /\ NoLoss'
<1> USE DEF LossInv, TypeInv, TypeOK
<1>1. /\ UNCHANGED <<buffer, sending, todo, due, conn, clients, connecting>>
      /\ UNCHANGED pending \/ \E e \in Entry : pending' = Append(pending, e)
    <2>0. from[r] \in Clients /\ view[from[r]] \in Nat
        BY DEF StillType, TablesType
    <2>1. CASE DispatchOk(r)
        <3>1. [msg |-> Answer(Ref(r)), to |-> {from[r]}] \in Entry
            BY <2>0, FrameType DEF Entry
        <3> QED
            BY <2>1, <3>1 DEF DispatchOk, tables, seen
    <2>2. CASE ScopeChange(r)
        <3>1. view[from[r]] + 1 \in Nat /\ Ref(r) \in Requests \cup {NoRequest}
            BY <2>0, FrameType
        <3>2. ScopeAck(Ref(r), view[from[r]] + 1) \in Message
            BY <3>1, FrameType
        <3>3. [msg |-> ScopeAck(Ref(r), view[from[r]] + 1), to |-> {from[r]}] \in Entry
            BY <2>0, <3>2 DEF Entry
        <3> QED
            BY <2>2, <3>3 DEF ScopeChange, seen
    <2> QED
        BY <2>1, <2>2
<1>2. CASE UNCHANGED pending
    BY <1>1, <1>2 DEF NotYet, NoLoss, OnItsWay, QueuedFor, Registered
<1>3. CASE \E e \in Entry : pending' = Append(pending, e)
    BY <1>1, <1>3, GrownByOne
<1> QED
    BY <1>1, <1>2, <1>3

LEMMA NextLossInv ==
    ASSUME LossInv, [Next]_vars
    PROVE  LossInv'
<1>1. TypeInv'
    BY NextTypeInv DEF LossInv
<1> SUFFICES NotYet' /\ NoLoss'
    BY <1>1 DEF LossInv
<1>2. CASE UNCHANGED vars
    BY <1>2
       DEF vars, LossInv, NotYet, NoLoss, OnItsWay, QueuedFor, Registered,
           tables, queue, seen
<1>3. CASE LoopNext
    <2>1. CASE FlushNext
        BY <2>1, BeginBroadcastLoss, BroadcastToLoss, EndBroadcastLoss, QuietFlush
           DEF FlushNext
    <2>2. CASE SettledNext
        BY <2>2, QuietFlush, CancelLoss DEF SettledNext
    <2>3. CASE EnvironmentNext
        BY <2>3, CommitLoss, QuietConnect, QuietRequest, QuietScope
           DEF EnvironmentNext
    <2>4. ASSUME NEW c \in Clients, ConnectNext(c) PROVE NotYet' /\ NoLoss'
        BY <2>4, QuietConnect, RegisterLoss, DrainLoss DEF ConnectNext, ConnectDrain
    <2>5. ASSUME NEW r \in Requests, HandlerNext(r) PROVE NotYet' /\ NoLoss'
        <3>1. from[r] \in Clients
            BY DEF LossInv, TypeInv, TypeOK, StillType
        <3> QED
            BY <2>5, <3>1, QuietRequest, QuietScope, QueueLoss, DrainLoss
               DEF HandlerNext, ScopeDrain
    <2> QED
        BY <1>3, <2>1, <2>2, <2>3, <2>4, <2>5 DEF LoopNext
<1>4. CASE DispatchNext
    BY <1>4, CommitLoss, QueueLoss, QuietRequest DEF DispatchNext
<1> QED
    BY <1>2, <1>3, <1>4 DEF Next

(* No client misses a commit: whatever overlaps, a commit that a           *)
(* registered client has not heard of yet is still on its way to it.       *)
THEOREM NothingLost == Spec => []NoLoss
<1>1. LossInv => NoLoss
    BY DEF LossInv
<1> QED
    BY <1>1, InitLossInv, NextLossInv, PTL DEF Spec

-----------------------------------------------------------------------------
(* What a flush promises: the queue is empty and every buffer drained.     *)

(* A step that connects nobody keeps what is in the buffers in order, if   *)
(* the drains go on.                                                       *)
LEMMA KeptBuffered ==
    ASSUME Buffered, clients' \subseteq clients,
           \A c \in clients : buffer'[c] # <<>> => buffer[c] # <<>>,
           \A c \in clients : buffer[c] # <<>> /\ Draining(c) => Draining(c)'
              \/ buffer'[c] = <<>>
    PROVE  Buffered'
BY DEF Buffered

LEMMA NextBuffered ==
    ASSUME TypeInv, Roster, Buffered, [Next]_vars
    PROVE  Buffered'
<1>0. /\ conn \in [Clients -> ConnPcs] /\ rpc \in [Requests -> RequestPcs]
      /\ from \in [Requests -> Clients] /\ buffer \in [Clients -> Seq(Message)]
      /\ clients \subseteq Clients
  BY DEF TypeInv, TypeOK, HandlersType, StillType, QueueType, TablesType
<1>1. ASSUME clients' \subseteq clients, UNCHANGED <<conn, from>>,
             UNCHANGED buffer \/ (\E c \in Clients : DrainStep(c)),
             UNCHANGED rpc \/ (\E r \in Requests, pc \in RequestPcs :
                                  rpc[r] # "scopeDrain"
                                     /\ rpc' = [rpc EXCEPT ![r] = pc])
      PROVE  Buffered'
  <2>1. \A c \in clients : buffer'[c] # <<>> => buffer[c] # <<>>
    BY <1>0, <1>1 DEF DrainStep
  <2>2. \A r \in Requests : rpc[r] = "scopeDrain" => rpc'[r] = "scopeDrain"
    BY <1>0, <1>1
  <2>3. \A c \in Clients : Draining(c) => Draining(c)'
    BY <1>0, <1>1, <2>2 DEF Draining
  <2> QED BY <1>0, <1>1, <2>1, <2>3, KeptBuffered
<1>2. CASE UNCHANGED vars
  BY <1>1, <1>2 DEF vars, tables, still
<1>3. CASE FlushNext \/ SettledNext
  <2>1. CASE BeginBroadcast
    <3>1. \A c \in clients : buffer'[c] = buffer[c]
      BY <1>0, <2>1 DEF BeginBroadcast, Roster, Enrolled
    <3>2. UNCHANGED <<clients, conn, rpc, from>>
      BY <2>1 DEF BeginBroadcast, tables, still
    <3> QED BY <3>1, <3>2, KeptBuffered DEF Draining
  <2>2. CASE ~BeginBroadcast
    <3>1. /\ clients' \subseteq clients /\ UNCHANGED <<conn, from, buffer, rpc>>
      BY <1>3, <2>2
         DEF FlushNext, SettledNext, EndBroadcast, BroadcastTo, SafeSend, Forget,
             TaskStart, TaskDone,
         SettledCall, SettledFlush, SettledReturn, SettledCancel, CancelFlush,
            tables, still
    <3> QED BY <1>1, <3>1
  <2> QED BY <2>1, <2>2
<1>4. ASSUME NEW q \in Projections, HostCommit(q) \/ RequestCommit(q)
      PROVE  Buffered'
  BY <1>1, <1>4 DEF HostCommit, RequestCommit, OnDocChange, tables
<1>5. ASSUME NEW c \in Clients, ConnectStart(c) \/ ConnectNext(c)
             \/ ConnectionLost(c) \/ Disconnect(c)
      PROVE  Buffered'
  <2>0. UNCHANGED <<rpc, from>>
    BY <1>5
       DEF ConnectStart, ConnectNext, ConnectPartial, ConnectWhole,
           ConnectSnapshot, ConnectLock, ConnectPromote, ConnectDrain,
           ConnectDone, DrainStep, ConnectionLost, Disconnect, still
  <2>1. CASE ConnectPromote(c) /\ c \in connecting
    <3>1. clients' = clients \cup {c} /\ conn' = [conn EXCEPT ![c] = "drain"]
          /\ buffer' = buffer
      BY <2>1 DEF ConnectPromote, Promote
    <3>2. \A d \in Clients : Draining(d) \/ d = c => Draining(d)'
      BY <1>0, <2>0, <3>1 DEF Draining
    <3> QED BY <1>0, <3>1, <3>2 DEF Buffered
  <2>2. CASE ConnectDone(c)
    <3>1. clients' = clients /\ conn' = [conn EXCEPT ![c] = "open"]
          /\ buffer' = buffer /\ buffer[c] = <<>>
      BY <2>2 DEF ConnectDone, tables
    <3>2. \A d \in Clients \ {c} : Draining(d) => Draining(d)'
      BY <1>0, <2>0, <3>1 DEF Draining
    <3> QED BY <1>0, <3>1, <3>2, KeptBuffered
  <2>3. CASE ConnectDrain(c)
    BY <1>1, <2>0, <2>3 DEF ConnectDrain, DrainStep, SafeSend, Forget, tables
  <2>4. CASE \/ ConnectStart(c) \/ ConnectPartial(c) \/ ConnectWhole(c)
                \/ ConnectSnapshot(c)
             \/ ConnectLock(c) \/ (ConnectPromote(c) /\ c \notin connecting)
             \/ ConnectionLost(c) \/ Disconnect(c)
    <3>1. clients' \subseteq clients
      BY <2>4
         DEF ConnectStart, ConnectPartial, ConnectWhole, ConnectSnapshot,
             ConnectLock, ConnectPromote, ConnectionLost, Disconnect, Forget, tables
    <3>2. buffer' = buffer \/ buffer' = [buffer EXCEPT ![c] = <<>>]
      BY <2>4
         DEF ConnectStart, ConnectPartial, ConnectWhole, ConnectSnapshot,
             ConnectLock, ConnectPromote, ConnectionLost, Disconnect
    <3>3. conn' = conn
          \/ (conn[c] # "drain"
             /\ \E pc \in ConnPcs : conn' = [conn EXCEPT ![c] = pc])
      BY <2>4
         DEF ConnectStart, ConnectPartial, ConnectWhole, ConnectSnapshot,
             ConnectLock, ConnectPromote, ConnectionLost, Disconnect, ConnPcs
    <3>4. \A d \in Clients : Draining(d) => Draining(d)'
      BY <1>0, <2>0, <3>3 DEF Draining
    <3> QED BY <1>0, <3>1, <3>2, <3>4, KeptBuffered
  <2> QED BY <1>5, <2>1, <2>2, <2>3, <2>4 DEF ConnectNext
<1>6. ASSUME NEW r \in Requests,
             \/ RefuseMessage(r) \/ Dispatch(r) \/ DispatchOk(r)
             \/ DispatchRejected(r) \/ DispatchStepRejected(r) \/ DispatchError(r)
             \/ RequestDone(r) \/ RejectReply(r) \/ ScopeIgnored(r)
                \/ ScopeReceive(r)
             \/ Resync(r) \/ ScopeEnter(r) \/ ScopeLock(r) \/ ScopeGone(r)
                \/ ScopeFirst(r) \/ ScopeChange(r)
      PROVE  Buffered'
  <2>1. clients' \subseteq clients /\ UNCHANGED <<conn, from, buffer>>
    BY <1>6
       DEF RefuseMessage, Dispatch, DispatchOk, DispatchRejected,
           DispatchStepRejected, DispatchError, RequestDone, RejectReply,
           ScopeIgnored, ScopeReceive, Resync, ScopeEnter, ScopeLock, ScopeGone,
           ScopeFirst, ScopeChange, Forget, tables, still
  <2>2. \E pc \in RequestPcs : rpc' = [rpc EXCEPT ![r] = pc]
    BY <1>6
       DEF RefuseMessage, Dispatch, DispatchOk, DispatchRejected,
           DispatchStepRejected, DispatchError, RequestDone, RejectReply,
           ScopeIgnored, ScopeReceive, Resync, ScopeEnter, ScopeLock, ScopeGone,
           ScopeFirst, ScopeChange, Goto, RequestPcs, FlushPcs
  <2>3. rpc[r] # "scopeDrain"
    BY <1>6
       DEF RefuseMessage, Dispatch, DispatchOk, DispatchRejected,
           DispatchStepRejected, DispatchError, RequestDone, RejectReply,
           ScopeIgnored, ScopeReceive, Resync, ScopeEnter, ScopeLock, ScopeGone,
           ScopeFirst, ScopeChange, Receive, EndDispatch, Roster
  <2> QED BY <1>1, <2>1, <2>2, <2>3
<1>7. ASSUME NEW r \in Requests, ScopePromote(r) \/ ScopeDrain(r) \/ ScopeDone(r)
      PROVE  Buffered'
  <2>1. CASE ScopePromote(r) /\ from[r] \in connecting
    <3>1. clients' = clients \cup {from[r]}
          /\ rpc' = [rpc EXCEPT ![r] = "scopeDrain"]
             /\ UNCHANGED <<buffer, conn, from>>
      BY <2>1 DEF ScopePromote, Promote, Goto, still
    <3>2. \A d \in Clients : Draining(d) \/ d = from[r] => Draining(d)'
      BY <1>0, <3>1 DEF Draining
    <3> QED BY <1>0, <3>1, <3>2 DEF Buffered
  <2>2. CASE ScopePromote(r) /\ from[r] \notin connecting
    BY <1>1, <2>2 DEF ScopePromote, Goto, tables, still, RequestPcs
  <2>3. CASE ScopeDrain(r)
    BY <1>0, <1>1, <2>3 DEF ScopeDrain, DrainStep, SafeSend, Forget, tables, still
  <2>4. CASE ScopeDone(r)
    <3>1. /\ clients' = clients /\ rpc' = [rpc EXCEPT ![r] = "done"]
             /\ UNCHANGED <<buffer, conn, from>>
          /\ rpc[r] = "scopeDrain" => buffer[from[r]] = <<>>
      BY <2>4 DEF ScopeDone, Goto, tables, still
    <3>2. \A d \in Clients : buffer[d] # <<>> /\ Draining(d) => Draining(d)'
      BY <1>0, <3>1 DEF Draining
    <3> QED BY <1>0, <3>1, <3>2, KeptBuffered
  <2> QED BY <1>7, <2>1, <2>2, <2>3, <2>4
<1> QED
  BY <1>2, <1>3, <1>4, <1>5, <1>6, <1>7
     DEF Next, LoopNext, DispatchNext, EnvironmentNext, HandlerNext

(* When a flush ends, whoever flushed, every connected client has been     *)
(* sent every commit.                                                      *)
THEOREM FlushSent == Spec => []FlushMeansSent
<1>1. TypeInv /\ NoLoss /\ Drains /\ Buffered => FlushMeansSent
  <2> SUFFICES ASSUME TypeInv, NoLoss, Drains, Buffered, NEW p \in Procs,
                      FlushOver(p), Flushing, NEW c \in clients, NEW v \in due[c]
               PROVE  FALSE
    BY DEF FlushMeansSent
  <2>1. Holder(p) /\ QueuedFor(c) = {} /\ c \in Clients
    BY DEF FlushOver, QueuedFor, TypeInv, TypeOK, TablesType
  <2>2. buffer[c] # <<>>
    BY <2>1 DEF NoLoss, OnItsWay
  <2>3. Draining(c)
    BY <2>2 DEF Buffered
  <2>4. CASE conn[c] = "drain"
    BY <2>1, <2>4 DEF Drains, Holder, Flushing, Task, Settled, Connect, Handler
  <2>5. CASE \E r \in Requests : from[r] = c /\ rpc[r] = "scopeDrain"
    BY <2>5 DEF Drains, Holder, Flushing, FlushPcs, Task, Settled, Connect, Handler
  <2> QED
    BY <2>3, <2>4, <2>5 DEF Draining
<1>2. LossInv /\ Roster /\ Drains /\ Buffered /\ [Next]_vars => LossInv' /\ Roster'
      /\ Drains' /\ Buffered'
  BY NextLossInv, NextRoster, NextDrains, NextBuffered DEF LossInv
<1>3. LossInv => TypeInv /\ NoLoss
  BY DEF LossInv
<1> QED
  BY <1>1, <1>2, <1>3, InitLossInv, InitRoster, InitDrains, PTL DEF Spec

-----------------------------------------------------------------------------
(* The order of what is on its way.  Most steps leave it alone.            *)

(* What a sequence holds after Append and Tail. *)
LEMMA AppendElements ==
    ASSUME NEW S, NEW s \in Seq(S), NEW e \in S
    PROVE  /\ Len(s) \in Nat /\ DOMAIN s = 1..Len(s)
           /\ DOMAIN Append(s, e) = 1..(Len(s) + 1)
           /\ \A i \in 1..Len(s) : Append(s, e)[i] = s[i] /\ s[i] \in S
           /\ Append(s, e)[Len(s) + 1] = e
BY AppendProperties, LenProperties

LEMMA TailElements ==
    ASSUME NEW S, NEW s \in Seq(S), s # <<>>
    PROVE  /\ Len(s) \in Nat \ {0} /\ DOMAIN s = 1..Len(s)
           /\ Head(s) = s[1] /\ Head(s) \in S
           /\ DOMAIN Tail(s) = 1..(Len(s) - 1)
           /\ \A i \in 1..(Len(s) - 1) : Tail(s)[i] = s[i + 1] /\ s[i] \in S
OBVIOUS

(* A step that leaves what is on its way, and what is owed, alone. *)
Calm ==
    /\ UNCHANGED <<version, buffer, queue, due, resyncAt, retried>>
    /\ Registered' \subseteq Registered

(* The steps that do not. *)
LEMMA Moves ==
    ASSUME [Next]_vars
    PROVE  \/ \E q \in Projections : HostCommit(q) \/ RequestCommit(q)
           \/ BeginBroadcast \/ EndBroadcast \/ SettledCancel
           \/ \E c \in Clients : BroadcastTo(c) \/ ConnectDrain(c)
           \/ \E c \in Clients : ConnectPartial(c) \/ ConnectWhole(c)
           \/ \E r \in Requests : DispatchOk(r) \/ ScopeChange(r) \/ ScopeDrain(r)
           \/ \E r \in Requests : Resync(r) \/ ScopeFirst(r)
           \/ Calm
<1>1. CASE UNCHANGED vars
  BY <1>1 DEF vars, still, seen, tables, Calm, Registered
<1>2. CASE FlushNext
  BY <1>2 DEF FlushNext, TaskStart, TaskDone, still, seen, tables, Calm, Registered
<1>3. CASE SettledNext
  BY <1>3
     DEF SettledNext, SettledCall, SettledFlush, SettledReturn, still, seen,
         tables, Calm, Registered
<1>4. CASE EnvironmentNext
  <2>1. ASSUME NEW c \in Clients, ConnectStart(c) \/ ConnectionLost(c)
               \/ Disconnect(c)
        PROVE  Calm
    BY <2>1
       DEF ConnectStart, ConnectionLost, Disconnect, Forget, still, seen, tables,
           Calm, Registered
  <2>2. ASSUME NEW r \in Requests, RefuseMessage(r) \/ Dispatch(r)
               \/ ScopeIgnored(r) \/ ScopeReceive(r)
        PROVE  Calm
    BY <2>2
       DEF RefuseMessage, Dispatch, ScopeIgnored, ScopeReceive, SendError, still,
           seen, tables, Calm, Registered
  <2> QED BY <1>4, <2>1, <2>2 DEF EnvironmentNext
<1>5. ASSUME NEW c \in Clients, ConnectNext(c),
             ~(ConnectPartial(c) \/ ConnectWhole(c) \/ ConnectDrain(c))
      PROVE  Calm
  BY <1>5
     DEF ConnectNext, ConnectSnapshot, ConnectLock, ConnectPromote, Promote,
         ConnectDone, still, seen, tables, Calm, Registered
<1>6. ASSUME NEW r \in Requests, HandlerNext(r),
             ~(ScopeChange(r) \/ ScopeDrain(r) \/ Resync(r) \/ ScopeFirst(r))
      PROVE  Calm
  BY <1>6
     DEF HandlerNext, RequestDone, RejectReply, ScopeEnter, ScopeGone, ScopeLock,
         ScopePromote, Promote, ScopeDone, SendError, still, seen, tables, Calm,
         Registered
<1>7. CASE DispatchNext
  BY <1>7
     DEF DispatchNext, DispatchRejected, DispatchStepRejected, DispatchError,
         SendError, seen, tables, Calm, Registered
<1> QED
  BY <1>1, <1>2, <1>3, <1>4, <1>5, <1>6, <1>7 DEF Next, LoopNext

(* n is not of an earlier commit than m; nor of the same, unless that one  *)
(* is sent again.                                                          *)
NotAfter(m, n) == m.kind = "patch" /\ n.kind = "patch" => m.version <= n.version
Apart(m, n) ==
    m.kind = "patch" /\ n.kind = "patch" /\ m.version = n.version
       => m.version \in retried

(* What is on its way was committed already, *)
Past ==
    /\ \A c \in Clients : \A i \in DOMAIN buffer[c] :
          buffer[c][i].kind = "patch" => buffer[c][i].version <= version
    /\ \A i \in DOMAIN pending :
          pending[i].msg.kind = "patch" => pending[i].msg.version <= version
(* and stands in the order of the commits: in a buffer, *)
BufferRises ==
    \A c \in Clients : \A i, j \in DOMAIN buffer[c] :
        i < j => NotAfter(buffer[c][i], buffer[c][j])
           /\ Apart(buffer[c][i], buffer[c][j])
(* between the buffer and the queue, *)
BufferFirst ==
    \A c \in Clients : \A i \in DOMAIN buffer[c], j \in DOMAIN pending :
        c \in pending[j].to =>
            /\ NotAfter(buffer[c][i], pending[j].msg)
            /\ j \in QueuedFor(c) => Apart(buffer[c][i], pending[j].msg)
(* and in the queue, where a commit has at most one entry for a client. *)
Separate(d, e) ==
    d.msg.kind = "patch" /\ e.msg.kind = "patch" /\ d.msg.version = e.msg.version
        => d.to \cap e.to = {}
QueueRises ==
    \A i, j \in DOMAIN pending :
        i < j => NotAfter(pending[i].msg, pending[j].msg)
           /\ Separate(pending[i], pending[j])

Ordered == Past /\ BufferRises /\ BufferFirst /\ QueueRises

LEMMA InitOrdered == Init => Ordered
BY DEF Init, Ordered, Past, BufferRises, BufferFirst, QueueRises

LEMMA QuietOrdered ==
    ASSUME Ordered, UNCHANGED <<version, buffer, queue, retried>>
    PROVE  Ordered'
BY
   DEF Ordered, Past, BufferRises, BufferFirst, QueueRises, NotAfter, Apart,
       Separate, QueuedFor, queue

(* Entries of the queue and messages are what their types say. *)
LEMMA VersionType ==
    ASSUME TypeOK
    PROVE  /\ version \in Nat
           /\ \A i \in DOMAIN pending : pending[i].msg.version \in Nat
           /\ \A c \in Clients : \A i \in DOMAIN buffer[c] : buffer[c][i].version \in Nat
<1>1. \A m \in Message : m.version \in Nat
  BY SessionAssumption DEF Message
<1>2. \A i \in DOMAIN pending : pending[i] \in Entry
  BY DEF TypeOK, QueueType
<1>3. \A c \in Clients : \A i \in DOMAIN buffer[c] : buffer[c][i] \in Message
  BY DEF TypeOK, QueueType
<1>4. version \in Nat
  BY SessionAssumption DEF TypeOK, StillType
<1> QED
  BY <1>1, <1>2, <1>3, <1>4 DEF Entry

(* Answers and scope deltas are queued at the end. *)
LEMMA AnswerEntry ==
    ASSUME TypeOK, NEW r \in Requests, DispatchOk(r) \/ ScopeChange(r)
    PROVE  UNCHANGED pending \/ \E e \in Entry : e.msg.kind # "patch"
           /\ pending' = Append(pending, e)
<1>0. from[r] \in Clients /\ view[from[r]] \in Nat
      /\ Ref(r) \in Requests \cup {NoRequest}
  BY FrameType DEF TypeOK, StillType, TablesType
<1>1. [msg |-> Answer(Ref(r)), to |-> {from[r]}] \in Entry
  BY <1>0, FrameType DEF Entry
<1>2. ScopeAck(Ref(r), view[from[r]] + 1) \in Message
  <2>1. view[from[r]] + 1 \in Nat
    BY <1>0
  <2> QED BY <1>0, <2>1, FrameType
<1>3. [msg |-> ScopeAck(Ref(r), view[from[r]] + 1), to |-> {from[r]}] \in Entry
  BY <1>0, <1>2 DEF Entry
<1>4. Answer(Ref(r)).kind # "patch"
      /\ ScopeAck(Ref(r), view[from[r]] + 1).kind # "patch"
  BY DEF Answer, ScopeAck
<1>5. CASE DispatchOk(r)
  BY <1>1, <1>4, <1>5 DEF DispatchOk
<1>6. CASE ScopeChange(r)
  BY <1>3, <1>4, <1>6 DEF ScopeChange
<1> QED BY <1>5, <1>6

(* An entry that is no patch may be queued. *)
LEMMA AnswerOrdered ==
    ASSUME TypeOK, Ordered, NEW e \in Entry, e.msg.kind # "patch",
           pending' = Append(pending, e),
           UNCHANGED <<version, buffer, sending, todo, retried>>
    PROVE  Ordered'
<1>1. pending \in Seq(Entry)
  BY DEF TypeOK, QueueType
<1>2. /\ Len(pending) \in Nat /\ DOMAIN pending = 1..Len(pending)
      /\ DOMAIN pending' = 1..(Len(pending) + 1)
      /\ \A i \in 1..Len(pending) : pending'[i] = pending[i]
      /\ pending'[Len(pending) + 1] = e
  BY <1>1, AppendElements
<1>3. \A i \in DOMAIN pending' : (i \in DOMAIN pending /\ pending'[i] = pending[i])
      \/ (i \notin DOMAIN pending /\ pending'[i] = e)
  BY <1>2
<1>4. Past'
  BY <1>3 DEF Ordered, Past
<1>5. BufferRises'
  BY DEF Ordered, BufferRises, NotAfter, Apart
<1>6. BufferFirst'
  BY <1>3 DEF Ordered, BufferFirst, NotAfter, Apart, QueuedFor
<1>7. QueueRises'
  BY <1>3 DEF Ordered, QueueRises, NotAfter, Separate
<1> QED
  BY <1>4, <1>5, <1>6, <1>7 DEF Ordered

LEMMA BeginOrdered ==
    ASSUME TypeOK, Roster, Ordered, BeginBroadcast
    PROVE  Ordered'
<1> DEFINE m == pending[1].msg
<1>0. /\ UNCHANGED <<version, pending, retried>> /\ ~sending /\ sending'
         /\ pending # <<>>
      /\ todo' \subseteq clients
  BY DEF BeginBroadcast, still, seen
<1>1. Head(pending) = pending[1] /\ 1 \in DOMAIN pending /\ m \in Message
      /\ DOMAIN pending = 1..Len(pending) /\ Len(pending) \in Nat
  <2>1. pending \in Seq(Entry)
    BY DEF TypeOK, QueueType
  <2>2. Head(pending) = pending[1] /\ Head(pending) \in Entry
        /\ DOMAIN pending = 1..Len(pending) /\ Len(pending) \in Nat \ {0}
    BY <1>0, <2>1, TailElements
  <2> QED BY <2>2 DEF Entry
<1>2. ASSUME NEW c \in Clients
      PROVE  \/ buffer'[c] = buffer[c]
             \/ /\ c \in pending[1].to /\ c \notin todo' 
                /\ Len(buffer[c]) \in Nat /\ DOMAIN buffer[c] = 1..Len(buffer[c])
                /\ DOMAIN buffer'[c] = 1..(Len(buffer[c]) + 1)
                /\ \A i \in 1..Len(buffer[c]) : buffer'[c][i] = buffer[c][i]
                /\ buffer'[c][Len(buffer[c]) + 1] = m
  <2>1. CASE c \in connecting \cap Head(pending).to
    <3>1. buffer'[c] = Append(buffer[c], m)
      BY <1>1, <2>1 DEF BeginBroadcast
    <3>2. c \notin clients
      BY <2>1 DEF Roster, Enrolled
    <3>3. buffer[c] \in Seq(Message)
      BY DEF TypeOK, QueueType
    <3> QED BY <1>0, <1>1, <2>1, <3>1, <3>2, <3>3, AppendElements
  <2>2. CASE c \notin connecting \cap Head(pending).to
    BY <2>2 DEF BeginBroadcast
  <2> QED BY <2>1, <2>2
<1>3. \A c \in Clients : QueuedFor(c)' \subseteq QueuedFor(c)
  BY <1>0 DEF QueuedFor
<1>4. \A c \in Clients : c \in pending[1].to => 1 \in QueuedFor(c)
  BY <1>0, <1>1 DEF QueuedFor
<1>5. Past'
  <2>1. m.kind = "patch" => m.version <= version
    BY <1>1 DEF Ordered, Past
  <2>2. ASSUME NEW c \in Clients, NEW i \in DOMAIN buffer'[c],
               buffer'[c][i].kind = "patch"
        PROVE  buffer'[c][i].version <= version
    <3>1. CASE buffer'[c] = buffer[c]
      BY <2>2, <3>1 DEF Ordered, Past
    <3>2. CASE buffer'[c] # buffer[c]
      <4>1. (i \in DOMAIN buffer[c] /\ buffer'[c][i] = buffer[c][i]) \/ buffer'[c][i] = m
        BY <1>2, <3>2
      <4> QED BY <2>1, <2>2, <4>1 DEF Ordered, Past
    <3> QED BY <3>1, <3>2
  <2>3. \A i \in DOMAIN pending' :
           pending'[i].msg.kind = "patch" => pending'[i].msg.version <= version
    BY <1>0 DEF Ordered, Past
  <2> QED BY <1>0, <2>2, <2>3 DEF Past
<1>6. BufferRises'
  <2> SUFFICES ASSUME NEW c \in Clients, NEW i \in DOMAIN buffer'[c],
                      NEW j \in DOMAIN buffer'[c], i < j
               PROVE  NotAfter(buffer'[c][i], buffer'[c][j])
                      /\ Apart(buffer'[c][i], buffer'[c][j])
    BY <1>0 DEF BufferRises, NotAfter, Apart
  <2>1. CASE buffer'[c] = buffer[c]
    BY <2>1 DEF Ordered, BufferRises
  <2>2. CASE buffer'[c] # buffer[c]
    <3>1. i \in DOMAIN buffer[c] /\ buffer'[c][i] = buffer[c][i]
          /\ c \in pending[1].to
             /\ ((j \in DOMAIN buffer[c] /\ buffer'[c][j] = buffer[c][j])
                \/ buffer'[c][j] = m)
      BY <1>2, <2>2
    <3> QED BY <1>1, <1>4, <3>1 DEF Ordered, BufferRises, BufferFirst
  <2> QED BY <2>1, <2>2
<1>7. BufferFirst'
  <2> SUFFICES ASSUME NEW c \in Clients, NEW i \in DOMAIN buffer'[c],
                      NEW j \in DOMAIN pending, c \in pending[j].to
               PROVE  /\ NotAfter(buffer'[c][i], pending[j].msg)
                      /\ j \in QueuedFor(c)' => Apart(buffer'[c][i], pending[j].msg)
    BY <1>0 DEF BufferFirst, NotAfter, Apart
  <2>1. CASE i \in DOMAIN buffer[c] /\ buffer'[c][i] = buffer[c][i]
    BY <1>3, <2>1 DEF Ordered, BufferFirst
  <2>2. CASE buffer'[c][i] = m /\ c \in pending[1].to /\ c \notin todo'
    <3>1. CASE j = 1
      <4>1. j \notin QueuedFor(c)'
        BY <1>0, <2>2, <3>1 DEF QueuedFor
      <4>2. m.version \in Nat
        BY <1>1, VersionType
      <4> QED BY <2>2, <3>1, <4>1, <4>2 DEF NotAfter
    <3>2. CASE 1 < j
      BY <1>1, <2>2, <3>2 DEF Ordered, QueueRises, NotAfter, Separate, Apart
    <3> QED BY <1>1, <3>1, <3>2
  <2> QED BY <1>2, <2>1, <2>2
<1>8. QueueRises'
  BY <1>0 DEF Ordered, QueueRises, NotAfter, Separate
<1> QED
  BY <1>5, <1>6, <1>7, <1>8 DEF Ordered

LEMMA EndOrdered ==
    ASSUME TypeOK, SendingHead, Ordered, EndBroadcast
    PROVE  Ordered'
<1>1. /\ pending # <<>> /\ pending' = Tail(pending) /\ ~sending'
      /\ UNCHANGED <<version, buffer, retried>>
  BY DEF EndBroadcast, SendingHead, still, seen
<1>2. \A i \in DOMAIN pending' : i + 1 \in DOMAIN pending /\ i + 1 # 1
      /\ pending'[i] = pending[i + 1] /\ i \in Nat
  BY <1>1, TailElements DEF TypeOK, QueueType
<1>3. \A c \in Clients : \A i \in DOMAIN pending' : c \in pending'[i].to
      => i + 1 \in QueuedFor(c)
  BY <1>2 DEF QueuedFor
<1>4. Past' /\ BufferRises'
  BY <1>1, <1>2 DEF Ordered, Past, BufferRises, NotAfter, Apart
<1>5. BufferFirst'
  <2> SUFFICES ASSUME NEW c \in Clients, NEW i \in DOMAIN buffer[c],
                      NEW j \in DOMAIN pending', c \in pending'[j].to
               PROVE  NotAfter(buffer[c][i], pending'[j].msg)
                      /\ Apart(buffer[c][i], pending'[j].msg)
    BY <1>1 DEF BufferFirst, NotAfter, Apart
  <2>1. j + 1 \in DOMAIN pending /\ pending'[j] = pending[j + 1]
        /\ j + 1 \in QueuedFor(c)
    BY <1>2, <1>3
  <2> QED BY <2>1 DEF Ordered, BufferFirst
<1>6. QueueRises'
  <2> SUFFICES ASSUME NEW i \in DOMAIN pending', NEW j \in DOMAIN pending', i < j
               PROVE  NotAfter(pending'[i].msg, pending'[j].msg)
                      /\ Separate(pending'[i], pending'[j])
    BY DEF QueueRises, NotAfter, Separate
  <2>1. i + 1 \in DOMAIN pending /\ j + 1 \in DOMAIN pending /\ i + 1 < j + 1
        /\ pending'[i] = pending[i + 1] /\ pending'[j] = pending[j + 1]
    BY <1>2
  <2> QED BY <2>1 DEF Ordered, QueueRises
<1> QED
  BY <1>4, <1>5, <1>6 DEF Ordered

LEMMA SentOrdered ==
    ASSUME Ordered, NEW c \in Clients, BroadcastTo(c)
    PROVE  Ordered'
<1>1. UNCHANGED <<version, buffer, pending, sending, retried>>
      /\ todo' \subseteq todo
  BY DEF BroadcastTo, SafeSend, Deliver, still, seen
<1>2. \A d \in Clients : QueuedFor(d)' \subseteq QueuedFor(d)
  BY <1>1 DEF QueuedFor
<1> QED
  BY <1>1, <1>2
     DEF Ordered, Past, BufferRises, BufferFirst, QueueRises, NotAfter, Apart,
         Separate

LEMMA CancelOrdered ==
    ASSUME TypeOK, SendingHead, Ordered, SettledCancel
    PROVE  Ordered'
<1>1. UNCHANGED <<version, buffer, pending>>
  BY DEF SettledCancel, CancelFlush, still
<1>2. CASE UNCHANGED <<sending, todo, retried>>
  BY <1>1, <1>2, QuietOrdered DEF queue
<1>3. CASE sending /\ retried' = retried \cup {Head(pending).msg.version}
  <2>1. pending # <<>> /\ Head(pending) = pending[1]
    BY <1>3, TailElements DEF SendingHead, TypeOK, QueueType
  <2>2. Past' /\ BufferRises' /\ QueueRises'
    BY <1>1, <1>3
       DEF Ordered, Past, BufferRises, QueueRises, NotAfter, Apart, Separate
  <2>3. BufferFirst'
    <3> SUFFICES ASSUME NEW c \in Clients, NEW i \in DOMAIN buffer[c],
                        NEW j \in DOMAIN pending, c \in pending[j].to
                 PROVE  NotAfter(buffer[c][i], pending[j].msg)
                        /\ Apart(buffer[c][i], pending[j].msg)'
      BY <1>1 DEF BufferFirst, NotAfter, Apart
    <3>1. NotAfter(buffer[c][i], pending[j].msg)
      BY DEF Ordered, BufferFirst
    <3>2. CASE j = 1
      BY <1>1, <1>3, <2>1, <3>1, <3>2 DEF Apart
    <3>3. CASE j # 1
      BY <1>1, <1>3, <3>3 DEF Apart, Ordered, BufferFirst, QueuedFor
    <3> QED BY <3>1, <3>2, <3>3
  <2> QED BY <2>2, <2>3 DEF Ordered
<1> QED
  BY <1>2, <1>3 DEF SettledCancel, CancelFlush

LEMMA DrainOrdered ==
    ASSUME TypeOK, Ordered, NEW c \in Clients, DrainStep(c)
    PROVE  Ordered'
<1>1. UNCHANGED <<version, pending, sending, todo, retried>>
  BY DEF DrainStep, SafeSend, Deliver, still, seen, queue
<1>2. \A d \in Clients : d # c => buffer'[d] = buffer[d]
  BY DEF DrainStep, TypeOK, QueueType
<1>3. \A i \in DOMAIN buffer'[c] : i + 1 \in DOMAIN buffer[c]
      /\ buffer'[c][i] = buffer[c][i + 1] /\ i \in Nat
  <2>1. buffer[c] \in Seq(Message) /\ buffer[c] # <<>>
        /\ buffer'[c] = Tail(buffer[c])
    BY DEF DrainStep, TypeOK, QueueType
  <2> QED BY <2>1, TailElements
<1>4. Past'
  BY <1>1, <1>2, <1>3 DEF Ordered, Past
<1>5. BufferRises'
  <2> SUFFICES ASSUME NEW d \in Clients, NEW i \in DOMAIN buffer'[d],
                      NEW j \in DOMAIN buffer'[d], i < j
               PROVE  NotAfter(buffer'[d][i], buffer'[d][j])
                      /\ Apart(buffer'[d][i], buffer'[d][j])
    BY <1>1 DEF BufferRises, NotAfter, Apart
  <2>1. CASE d # c
    BY <1>2, <2>1 DEF Ordered, BufferRises
  <2>2. CASE d = c
    <3>1. i + 1 \in DOMAIN buffer[c] /\ j + 1 \in DOMAIN buffer[c] /\ i + 1 < j + 1
          /\ buffer'[c][i] = buffer[c][i + 1] /\ buffer'[c][j] = buffer[c][j + 1]
      BY <1>3, <2>2
    <3> QED BY <2>2, <3>1 DEF Ordered, BufferRises
  <2> QED BY <2>1, <2>2
<1>6. BufferFirst'
  BY <1>1, <1>2, <1>3 DEF Ordered, BufferFirst, NotAfter, Apart, QueuedFor
<1>7. QueueRises'
  BY <1>1 DEF Ordered, QueueRises, NotAfter, Separate
<1> QED
  BY <1>4, <1>5, <1>6, <1>7 DEF Ordered

LEMMA RegisterOrdered ==
    ASSUME TypeOK, Ordered, NEW c \in Clients, ConnectPartial(c) \/ ConnectWhole(c)
    PROVE  Ordered'
<1>1. UNCHANGED <<version, pending, sending, todo, retried>>
  BY DEF ConnectPartial, ConnectWhole, still, seen, queue
<1>2. \A d \in Clients : buffer'[d] = buffer[d] \/ buffer'[d] = <<>>
  BY DEF ConnectPartial, ConnectWhole, TypeOK, QueueType
<1> QED
  BY <1>1, <1>2
     DEF Ordered, Past, BufferRises, BufferFirst, QueueRises, NotAfter, Apart,
         Separate, QueuedFor

LEMMA CommitOrdered ==
    ASSUME TypeOK, Ordered, NEW q \in Projections, HostCommit(q) \/ RequestCommit(q)
    PROVE  Ordered'
<1> DEFINE n == Len(pending)
<1>0. OnDocChange(q) /\ version' = version + 1
      /\ UNCHANGED <<buffer, sending, todo, retried>> /\ version \in Nat
  BY VersionType DEF HostCommit, RequestCommit, OnDocChange
<1>1. /\ DOMAIN pending = 1..n /\ n \in Nat
      /\ DOMAIN pending' = 1..(n + 1 + Len(q))
      /\ \A i \in 1..(n + 1 + Len(q)) :
            pending'[i] = IF i <= n THEN pending[i]
                          ELSE IF i = n + 1 THEN WholeEntry
                             ELSE ScopedEntries(q)[i - (n + 1)]
  BY <1>0, CommitQueue
<1>2. q \in Seq(Scoped) /\ Len(q) \in Nat /\ DOMAIN q = 1..Len(q)
      /\ \A i, j \in DOMAIN q : q[i] = q[j] => i = j
  BY ProjectionType, LenProperties DEF Projections
<1>3. ASSUME NEW i \in DOMAIN pending', i \notin DOMAIN pending
      PROVE  /\ pending'[i].msg.kind = "patch"
                /\ pending'[i].msg.version = version + 1
             /\ i > n
             /\ \/ i = n + 1 /\ pending'[i].to = Whole
                \/ i - (n + 1) \in DOMAIN q /\ pending'[i].to = {q[i - (n + 1)]}
  <2>1. CASE i = n + 1
    BY <1>1, <1>2, <1>3, <2>1 DEF WholeEntry, Patch
  <2>2. CASE i > n + 1
    <3>1. i - (n + 1) \in DOMAIN q /\ pending'[i] = ScopedEntries(q)[i - (n + 1)]
      BY <1>1, <1>2, <1>3, <2>2
    <3> QED BY <1>1, <2>2, <3>1 DEF ScopedEntries, Patch
  <2> QED BY <1>1, <1>3, <2>1, <2>2
<1>4. \A i \in DOMAIN pending : i \in DOMAIN pending' /\ pending'[i] = pending[i]
      /\ i <= n
  BY <1>1, <1>2
<1>5. \A i \in DOMAIN pending : pending[i].msg.kind = "patch"
      => pending[i].msg.version < version + 1
  BY <1>0, VersionType DEF Ordered, Past
<1>6. \A c \in Clients : \A i \in DOMAIN buffer[c] : buffer[c][i].kind = "patch"
      => buffer[c][i].version < version + 1
  BY <1>0, VersionType DEF Ordered, Past
<1>7. Past'
  BY <1>0, <1>3, <1>4, <1>5, <1>6, VersionType DEF Past
<1>8. BufferRises'
  BY <1>0 DEF Ordered, BufferRises, NotAfter, Apart
<1>9. BufferFirst'
  <2> SUFFICES ASSUME NEW c \in Clients, NEW i \in DOMAIN buffer[c],
                      NEW j \in DOMAIN pending', c \in pending'[j].to
               PROVE  /\ NotAfter(buffer[c][i], pending'[j].msg)
                      /\ j \in QueuedFor(c)' => Apart(buffer[c][i], pending'[j].msg)
    BY <1>0 DEF BufferFirst, NotAfter, Apart
  <2>1. CASE j \in DOMAIN pending
    BY <1>0, <1>4, <2>1 DEF Ordered, BufferFirst, QueuedFor
  <2>2. CASE j \notin DOMAIN pending
    <3>1. pending'[j].msg.kind = "patch" /\ pending'[j].msg.version = version + 1
      BY <1>3, <2>2
    <3>2. buffer[c][i].kind = "patch" => buffer[c][i].version < version + 1
          /\ buffer[c][i].version \in Nat
      BY <1>6, VersionType
    <3> QED BY <1>0, <3>1, <3>2 DEF NotAfter, Apart
  <2> QED BY <2>1, <2>2
<1>10. QueueRises'
  <2> SUFFICES ASSUME NEW i \in DOMAIN pending', NEW j \in DOMAIN pending', i < j
               PROVE  NotAfter(pending'[i].msg, pending'[j].msg)
                      /\ Separate(pending'[i], pending'[j])
    BY DEF QueueRises, NotAfter, Separate
  <2>1. CASE j \in DOMAIN pending
    <3>1. i \in DOMAIN pending
      BY <1>1, <2>1
    <3> QED BY <1>4, <2>1, <3>1 DEF Ordered, QueueRises
  <2>2. CASE j \notin DOMAIN pending /\ i \in DOMAIN pending
    <3>1. pending'[j].msg.version = version + 1 /\ pending'[i] = pending[i]
      BY <1>3, <1>4, <2>2
    <3>2. pending[i].msg.kind = "patch" => pending[i].msg.version < version + 1
          /\ pending[i].msg.version \in Nat
      BY <1>5, <2>2, VersionType
    <3> QED BY <1>0, <3>1, <3>2 DEF NotAfter, Separate
  <2>3. CASE j \notin DOMAIN pending /\ i \notin DOMAIN pending
    <3>1. pending'[j].msg.version = version + 1
          /\ pending'[i].msg.version = version + 1 /\ j # n + 1
      BY <1>1, <1>3, <2>3
    <3>2. j - (n + 1) \in DOMAIN q /\ pending'[j].to = {q[j - (n + 1)]}
      BY <1>3, <2>3, <3>1
    <3>3. Whole \cap Scoped = {} /\ \A k \in DOMAIN q : q[k] \in Scoped
      BY <1>2 DEF Whole, Scoped
    <3>4. CASE i = n + 1 /\ pending'[i].to = Whole
      BY <1>0, <3>1, <3>2, <3>3, <3>4 DEF NotAfter, Separate
    <3>5. CASE i - (n + 1) \in DOMAIN q /\ pending'[i].to = {q[i - (n + 1)]}
      <4>1. i - (n + 1) # j - (n + 1)
        BY <1>1
      <4>2. q[i - (n + 1)] # q[j - (n + 1)]
        BY <1>2, <3>2, <3>5, <4>1
      <4> QED BY <1>0, <3>1, <3>2, <3>5, <4>2 DEF NotAfter, Separate
    <3> QED BY <1>3, <2>3, <3>4, <3>5
  <2> QED BY <2>1, <2>2, <2>3
<1> QED
  BY <1>7, <1>8, <1>9, <1>10 DEF Ordered

LEMMA NextOrdered ==
    ASSUME TypeInv, Roster, Ordered, [Next]_vars
    PROVE  Ordered'
<1>0. TypeOK /\ SendingHead
  BY DEF TypeInv
<1>1. ASSUME NEW r \in Requests, DispatchOk(r) \/ ScopeChange(r)
      PROVE  Ordered'
  <2>1. UNCHANGED <<version, buffer, sending, todo, retried>>
    BY <1>1 DEF DispatchOk, ScopeChange, still, seen, queue
  <2>2. UNCHANGED pending \/ \E e \in Entry : e.msg.kind # "patch"
        /\ pending' = Append(pending, e)
    BY <1>0, <1>1, AnswerEntry
  <2> QED BY <1>0, <2>1, <2>2, AnswerOrdered, QuietOrdered DEF queue
<1>2. ASSUME NEW r \in Requests, ScopeDrain(r) PROVE Ordered'
  <2>1. from[r] \in Clients /\ DrainStep(from[r])
    BY <1>0, <1>2 DEF ScopeDrain, TypeOK, StillType
  <2> QED BY <1>0, <2>1, DrainOrdered
<1>3. ASSUME NEW c \in Clients, ConnectDrain(c) PROVE Ordered'
  BY <1>0, <1>3, DrainOrdered DEF ConnectDrain
<1>4. ASSUME Calm \/ \E r \in Requests : Resync(r) \/ ScopeFirst(r)
      PROVE  UNCHANGED <<version, buffer, queue, retried>>
  BY <1>4 DEF Calm, Resync, ScopeFirst, still, seen
<1> QED
  BY <1>0, <1>1, <1>2, <1>3, <1>4, Moves, CommitOrdered, BeginOrdered, EndOrdered,
     SentOrdered, CancelOrdered, RegisterOrdered, QuietOrdered

-----------------------------------------------------------------------------
(* Whom a broadcast is sent to, and whom no patch may be sent to.          *)

(* A broadcast goes on to recipients of its entry; those that are still    *)
(* there are connected.                                                    *)
SentTo ==
    /\ sending => todo \subseteq Head(pending).to
    /\ todo \ dead \subseteq clients

(* A client that has set no scope yet is sent no patches. *)
NoPatchTo(c) ==
    /\ \A i \in DOMAIN buffer[c] : buffer[c][i].kind # "patch"
    /\ \A i \in DOMAIN pending : c \in pending[i].to
       => pending[i].msg.kind # "patch"
Awaited == \A c \in awaiting : NoPatchTo(c)

LEMMA InitSentTo == Init => SentTo /\ Awaited /\ OnceOnly
BY DEF Init, SentTo, Awaited, OnceOnly

LEMMA NextSentTo ==
    ASSUME TypeInv, SentTo, [Next]_vars
    PROVE  SentTo'
<1>1. ASSUME clients \ dead' \subseteq clients', dead \subseteq dead',
             UNCHANGED <<pending, sending, todo>>
      PROVE  SentTo'
  BY <1>1 DEF SentTo
<1>2. CASE UNCHANGED vars
  BY <1>1, <1>2 DEF vars, tables, queue, sockets
<1>3. CASE FlushNext
  <2>1. CASE BeginBroadcast
    BY <2>1 DEF BeginBroadcast, SentTo, tables, sockets
  <2>2. CASE EndBroadcast
    BY <2>2 DEF EndBroadcast, SentTo, tables, sockets
  <2>3. ASSUME NEW c \in Clients, BroadcastTo(c) PROVE SentTo'
    BY <2>3 DEF BroadcastTo, SafeSend, Forget, SentTo, tables, sockets
  <2>4. ASSUME NEW v \in 1..MaxVersion, TaskStart(v) \/ TaskDone(v) PROVE SentTo'
    BY <1>1, <2>4 DEF TaskStart, TaskDone, tables, sockets, queue
  <2> QED BY <1>3, <2>1, <2>2, <2>3, <2>4 DEF FlushNext
<1>4. CASE SettledNext
  <2>1. CASE SettledCancel
    BY <2>1 DEF SettledCancel, CancelFlush, SentTo, tables, sockets
  <2> QED BY <1>1, <1>4, <2>1
             DEF SettledNext, SettledCall, SettledFlush, SettledReturn, tables,
                 sockets, queue
<1>5. ASSUME NEW q \in Projections, HostCommit(q) \/ RequestCommit(q) PROVE SentTo'
  <2>1. OnDocChange(q)
    BY <1>5 DEF HostCommit, RequestCommit
  <2>2. sending => Head(pending') = Head(pending)
    <3>1. CASE pending = <<>>
      BY <3>1 DEF TypeInv, SendingHead
    <3>2. CASE pending # <<>>
      <4>1. pending \in Seq(Entry) /\ Len(pending) \in Nat \ {0}
            /\ Head(pending) = pending[1]
        BY <3>2, TailElements DEF TypeInv, TypeOK, QueueType
      <4>2. /\ DOMAIN pending' = 1..(Len(pending) + 1 + Len(q)) /\ Len(q) \in Nat
               /\ pending'[1] = pending[1]
        BY <2>1, <4>1, CommitQueue, ProjectionType, LenProperties DEF TypeInv
      <4> QED BY <4>1, <4>2
    <3> QED BY <3>1, <3>2
  <2> QED BY <2>1, <2>2 DEF OnDocChange, SentTo, tables, sockets
<1>6. ASSUME NEW c \in Clients, ConnectStart(c) \/ ConnectNext(c)
             \/ ConnectionLost(c) \/ Disconnect(c)
      PROVE  SentTo'
  <2>1. CASE ConnectPartial(c) \/ ConnectWhole(c)
    BY <1>1, <2>1 DEF ConnectPartial, ConnectWhole, Forget, tables, sockets, queue
  <2>2. CASE ConnectDrain(c)
    BY <1>1, <2>2
       DEF ConnectDrain, DrainStep, SafeSend, Forget, tables, sockets, queue
  <2>3. CASE ConnectStart(c) \/ ConnectSnapshot(c) \/ ConnectLock(c)
             \/ ConnectPromote(c) \/ ConnectDone(c)
    BY <1>1, <2>3
       DEF ConnectStart, ConnectSnapshot, ConnectLock, ConnectPromote, Promote,
           ConnectDone, tables, sockets, queue
  <2>4. CASE ConnectionLost(c) \/ Disconnect(c)
    BY <1>1, <2>4 DEF ConnectionLost, Disconnect, Forget, tables, sockets, queue
  <2> QED BY <1>6, <2>1, <2>2, <2>3, <2>4 DEF ConnectNext
<1>7. ASSUME NEW r \in Requests,
             \/ RefuseMessage(r) \/ Dispatch(r) \/ DispatchRejected(r)
             \/ DispatchStepRejected(r) \/ DispatchError(r)
             \/ RequestDone(r) \/ RejectReply(r) \/ ScopeIgnored(r)
                \/ ScopeReceive(r)
             \/ Resync(r) \/ ScopeEnter(r) \/ ScopeLock(r) \/ ScopeGone(r)
                \/ ScopeFirst(r)
             \/ ScopePromote(r) \/ ScopeDrain(r) \/ ScopeDone(r)
      PROVE  SentTo'
  <2>1. UNCHANGED <<pending, sending, todo, dead>>
    BY <1>7
       DEF RefuseMessage, Dispatch, DispatchRejected, DispatchStepRejected,
           DispatchError, RequestDone, RejectReply, ScopeIgnored, ScopeReceive,
           Resync, ScopeEnter, ScopeLock, ScopeGone, ScopeFirst, ScopePromote,
           ScopeDrain, ScopeDone, DrainStep, queue, sockets
  <2>2. clients \ dead' \subseteq clients'
    BY <1>7
       DEF RefuseMessage, Dispatch, DispatchRejected, DispatchStepRejected,
           DispatchError, RequestDone, RejectReply, ScopeIgnored, ScopeReceive,
           Resync, ScopeEnter, ScopeLock, ScopeGone, ScopeFirst, ScopePromote,
           Promote, Forget, SafeSend, ScopeDrain, ScopeDone, DrainStep, tables,
           sockets
  <2> QED BY <1>1, <2>1, <2>2
<1>8. ASSUME NEW r \in Requests, DispatchOk(r) \/ ScopeChange(r) PROVE SentTo'
  <2>1. UNCHANGED <<clients, dead, sending, todo>>
    BY <1>8 DEF DispatchOk, ScopeChange, tables, sockets
  <2>2. sending => Head(pending') = Head(pending)
    <3>1. pending \in Seq(Entry) /\ (sending => pending # <<>>)
      BY DEF TypeInv, SendingHead, TypeOK, QueueType
    <3>2. pending' = pending \/ \E e \in Entry : pending' = Append(pending, e)
      BY <1>8, AnswerEntry DEF TypeInv
    <3> QED BY <3>1, <3>2
  <2> QED BY <2>1, <2>2 DEF SentTo
<1> QED
  BY <1>2, <1>3, <1>4, <1>5, <1>6, <1>7, <1>8
     DEF Next, LoopNext, EnvironmentNext, DispatchNext, HandlerNext

(* No step but a commit lets a patch appear, and that one is for those who *)
(* have set a scope or need none.                                          *)
LEMMA NextAwaited ==
    ASSUME TypeInv, Roster, Awaited, [Next]_vars
    PROVE  Awaited'
<1>0. TypeOK /\ SendingHead /\ awaiting \subseteq Clients
  BY DEF TypeInv, TypeOK, TablesType
<1>a. \A c \in awaiting' : c \in awaiting \/ (ConnectPartial(c) /\ c \in Clients)
  <2>1. CASE UNCHANGED vars
    BY <2>1 DEF vars, tables
  <2>2. CASE FlushNext \/ SettledNext
    BY <2>2
       DEF FlushNext, SettledNext, BeginBroadcast, EndBroadcast, BroadcastTo,
           SafeSend, Forget, TaskStart, TaskDone, SettledCall, SettledFlush,
           SettledReturn, SettledCancel, CancelFlush, tables
  <2>3. CASE EnvironmentNext
    BY <2>3
       DEF EnvironmentNext, HostCommit, OnDocChange, ConnectStart, ConnectionLost,
           Disconnect, Forget, RefuseMessage, Dispatch, ScopeIgnored,
           ScopeReceive, tables
  <2>4. ASSUME NEW c \in Clients, ConnectNext(c), ~ConnectPartial(c)
        PROVE  awaiting' \subseteq awaiting
    BY <2>4
       DEF ConnectNext, ConnectWhole, ConnectSnapshot, ConnectLock,
           ConnectPromote, Promote, ConnectDrain, DrainStep, SafeSend, Forget,
           ConnectDone, tables
  <2>5. ASSUME NEW c \in Clients, ConnectPartial(c)
        PROVE  awaiting' \subseteq awaiting \cup {c}
    BY <2>5 DEF ConnectPartial, Forget
  <2>6. ASSUME NEW r \in Requests, HandlerNext(r) PROVE awaiting' \subseteq awaiting
    BY <2>6
       DEF HandlerNext, RequestDone, RejectReply, Resync, ScopeEnter, ScopeGone,
           ScopeFirst, ScopeLock, ScopePromote, Promote, ScopeDrain, DrainStep,
           SafeSend, Forget, ScopeChange, ScopeDone, tables
  <2>7. CASE DispatchNext
    BY <2>7
       DEF DispatchNext, RequestCommit, OnDocChange, DispatchOk, DispatchRejected,
           DispatchStepRejected, DispatchError, tables
  <2> QED BY <2>1, <2>2, <2>3, <2>4, <2>5, <2>6, <2>7 DEF Next, LoopNext
<1>1. ASSUME NEW c \in Clients, NoPatchTo(c), c \in awaiting PROVE NoPatchTo(c)'
  <2>0. pending \in Seq(Entry) /\ buffer[c] \in Seq(Message)
        /\ buffer \in [Clients -> Seq(Message)]
    BY <1>0 DEF TypeOK, QueueType
  <2>1. ASSUME NEW q \in Projections, HostCommit(q) \/ RequestCommit(q)
        PROVE  NoPatchTo(c)'
    <3>1. OnDocChange(q) /\ buffer' = buffer
      BY <2>1 DEF HostCommit, RequestCommit, OnDocChange
    <3>2. c \notin Whole /\ c \notin Scoped /\ view[c] = 0
      BY <1>0, <1>1 DEF Whole, Scoped, Roster, Enrolled
    <3>3. q \in Seq(Scoped) /\ DOMAIN q = 1..Len(q) /\ Len(q) \in Nat
      BY <1>0, ProjectionType, LenProperties
    <3>4. /\ DOMAIN pending = 1..Len(pending) /\ Len(pending) \in Nat
          /\ DOMAIN pending' = 1..(Len(pending) + 1 + Len(q))
          /\ \A i \in 1..(Len(pending) + 1 + Len(q)) :
                pending'[i] = IF i <= Len(pending) THEN pending[i]
                              ELSE IF i = Len(pending) + 1 THEN WholeEntry
                              ELSE ScopedEntries(q)[i - (Len(pending) + 1)]
      BY <1>0, <3>1, CommitQueue
    <3>5. c \notin WholeEntry.to
          /\ \A i \in DOMAIN q : c \notin ScopedEntries(q)[i].to
      BY <3>2, <3>3 DEF WholeEntry, ScopedEntries
    <3>6. \A i \in DOMAIN pending' : (i \in DOMAIN pending
          /\ pending'[i] = pending[i]) \/ c \notin pending'[i].to
      <4> SUFFICES ASSUME NEW i \in DOMAIN pending', i > Len(pending)
          PROVE  c \notin pending'[i].to
        BY <3>4
      <4>1. CASE i = Len(pending) + 1
        BY <3>3, <3>4, <3>5, <4>1
      <4>2. CASE i > Len(pending) + 1
        <5>1. i - (Len(pending) + 1) \in DOMAIN q
          BY <3>3, <3>4, <4>2
        <5> QED BY <3>4, <3>5, <4>2, <5>1
      <4> QED BY <3>4, <4>1, <4>2
    <3> QED BY <1>1, <3>1, <3>6 DEF NoPatchTo
  <2>2. CASE BeginBroadcast
    <3>1. pending' = pending
          /\ (buffer'[c] = buffer[c]
             \/ (c \in Head(pending).to
                /\ buffer'[c] = Append(buffer[c], Head(pending).msg)))
      BY <2>2 DEF BeginBroadcast
    <3>2. Head(pending) = pending[1] /\ 1 \in DOMAIN pending
          /\ Head(pending).msg \in Message
      <4>1. pending # <<>>
        BY <2>2 DEF BeginBroadcast
      <4>2. Head(pending) = pending[1] /\ 1 \in DOMAIN pending
            /\ Head(pending) \in Entry
        BY <2>0, <4>1, TailElements
      <4> QED BY <4>2 DEF Entry
    <3>3. \A i \in DOMAIN buffer'[c] : (i \in DOMAIN buffer[c]
          /\ buffer'[c][i] = buffer[c][i])
             \/ (c \in pending[1].to /\ buffer'[c][i] = pending[1].msg)
      <4>1. CASE buffer'[c] = buffer[c]
        BY <4>1
      <4>2. CASE c \in Head(pending).to
                 /\ buffer'[c] = Append(buffer[c], Head(pending).msg)
        BY <2>0, <3>2, <4>2, AppendElements
      <4> QED BY <3>1, <4>1, <4>2
    <3> QED BY <1>1, <3>1, <3>2, <3>3 DEF NoPatchTo
  <2>3. CASE EndBroadcast
    <3>1. buffer' = buffer /\ pending' = Tail(pending) /\ pending # <<>>
      BY <1>0, <2>3 DEF EndBroadcast, SendingHead
    <3>2. \A i \in DOMAIN pending' : i + 1 \in DOMAIN pending
          /\ pending'[i] = pending[i + 1]
      BY <2>0, <3>1, TailElements
    <3> QED BY <1>1, <3>1, <3>2 DEF NoPatchTo
  <2>4. ASSUME NEW d \in Clients, DrainStep(d) PROVE NoPatchTo(c)'
    <3>1. pending' = pending
          /\ (buffer'[c] = buffer[c]
             \/ (buffer[c] # <<>> /\ buffer'[c] = Tail(buffer[c])))
      BY <2>0, <2>4 DEF DrainStep, queue
    <3>2. \A i \in DOMAIN buffer'[c] : \E j \in DOMAIN buffer[c] : buffer'[c][i] = buffer[c][j]
      <4>1. CASE buffer'[c] = buffer[c]
        BY <4>1
      <4>2. CASE buffer[c] # <<>> /\ buffer'[c] = Tail(buffer[c])
        <5>1. \A i \in DOMAIN buffer'[c] : i + 1 \in DOMAIN buffer[c]
              /\ buffer'[c][i] = buffer[c][i + 1]
          BY <2>0, <4>2, TailElements
        <5> QED BY <5>1
      <4> QED BY <3>1, <4>1, <4>2
    <3> QED BY <1>1, <3>1, <3>2 DEF NoPatchTo
  <2>5. ASSUME NEW d \in Clients, ConnectPartial(d) \/ ConnectWhole(d)
        PROVE  NoPatchTo(c)'
    <3>1. pending' = pending /\ (buffer'[c] = buffer[c] \/ buffer'[c] = <<>>)
      BY <2>0, <2>5 DEF ConnectPartial, ConnectWhole, queue
    <3> QED BY <1>1, <3>1 DEF NoPatchTo
  <2>6. ASSUME NEW r \in Requests, DispatchOk(r) \/ ScopeChange(r)
        PROVE  NoPatchTo(c)'
    <3>1. buffer' = buffer
      BY <2>6 DEF DispatchOk, ScopeChange
    <3>2. UNCHANGED pending \/ \E e \in Entry : e.msg.kind # "patch"
          /\ pending' = Append(pending, e)
      BY <1>0, <2>6, AnswerEntry
    <3>3. \A i \in DOMAIN pending' : (i \in DOMAIN pending
          /\ pending'[i] = pending[i]) \/ pending'[i].msg.kind # "patch"
      <4>1. CASE UNCHANGED pending
        BY <4>1
      <4>2. ASSUME NEW e \in Entry, e.msg.kind # "patch", pending' = Append(pending, e)
            PROVE  \A i \in DOMAIN pending' : (i \in DOMAIN pending
                   /\ pending'[i] = pending[i]) \/ pending'[i].msg.kind # "patch"
        BY <2>0, <4>2, AppendElements
      <4> QED BY <3>2, <4>1, <4>2
    <3> QED BY <1>1, <3>1, <3>3 DEF NoPatchTo
  <2>7. CASE UNCHANGED <<buffer, pending>>
    BY <1>1, <2>7 DEF NoPatchTo
  <2>8. ASSUME NEW r \in Requests, ScopeDrain(r) PROVE NoPatchTo(c)'
    <3>1. from[r] \in Clients /\ DrainStep(from[r])
      BY <1>0, <2>8 DEF ScopeDrain, TypeOK, StillType
    <3> QED BY <2>4, <3>1
  <2>9. CASE SettledCancel \/ \E d \in Clients : BroadcastTo(d)
    BY <2>7, <2>9 DEF SettledCancel, CancelFlush, BroadcastTo
  <2>10. ASSUME Calm \/ \E r \in Requests : Resync(r) \/ ScopeFirst(r)
         PROVE  NoPatchTo(c)'
    BY <2>7, <2>10 DEF Calm, Resync, ScopeFirst, queue
  <2> QED BY <2>1, <2>2, <2>3, <2>4, <2>5, <2>6, <2>8, <2>9, <2>10, Moves
             DEF ConnectDrain
<1>2. ASSUME NEW c \in Clients, ConnectPartial(c) PROVE NoPatchTo(c)'
  <2>1. pending' = <<>> /\ buffer'[c] = <<>>
    BY <1>0, <1>2 DEF ConnectPartial, FlushOver, queue, TypeOK, QueueType
  <2> QED BY <2>1 DEF NoPatchTo
<1> QED
  BY <1>0, <1>a, <1>1, <1>2 DEF Awaited

-----------------------------------------------------------------------------
(* Once, and in order.                                                     *)

(* A patch that the client has not heard of, or may hear of again. *)
Fresh(c, m) ==
    m.kind = "patch" =>
        m.version \in due[c] \/ m.version <= resyncAt[c] \/ m.version \in retried

(* What sending m to c makes of what is owed to c. *)
LEMMA SentFresh ==
    ASSUME TypeOK, NEW c \in Clients, NEW m, SafeSend(c, m)
    PROVE  /\ Registered' \subseteq Registered
           /\ UNCHANGED <<resyncAt, retried>>
           /\ \A d \in Clients \ {c} : due'[d] = due[d]
           /\ c \in Registered' => \A v \in due[c] : v \in due'[c]
              \/ (m.kind = "patch" /\ v = m.version)
BY DEF SafeSend, Forget, Deliver, Registered, tables, seen, TypeOK, SeenType

LEMMA FreshStays ==
    ASSUME OnceOnly, Registered' \subseteq Registered,
           NEW c \in Registered', Frames(c)' \subseteq Frames(c),
           due[c] \subseteq due'[c], UNCHANGED resyncAt, retried \subseteq retried'
    PROVE  \A m \in Frames(c)' : Fresh(c, m)'
<1>1. ASSUME NEW m \in Frames(c)' PROVE Fresh(c, m)'
  <2>1. m \in Frames(c) /\ c \in clients \cup connecting
    BY DEF Registered
  <2> QED BY <2>1 DEF OnceOnly, Fresh
<1> QED BY <1>1

LEMMA FreshAll ==
    ASSUME \A c \in Registered' : \A m \in Frames(c)' : Fresh(c, m)'
    PROVE  OnceOnly'
BY DEF OnceOnly, Fresh, Registered

LEMMA CommitOnce ==
    ASSUME TypeOK, SendingHead, OnceOnly, NEW q \in Projections, HostCommit(q)
           \/ RequestCommit(q)
    PROVE  OnceOnly'
<1>1. OnDocChange(q)
      /\ UNCHANGED <<clients, connecting, buffer, sending, todo, resyncAt, retried>>
  BY DEF HostCommit, RequestCommit, OnDocChange, tables
<1>2. q \in Seq(Scoped) /\ Len(q) \in Nat /\ DOMAIN q = 1..Len(q)
  BY ProjectionType, LenProperties
<1>3. /\ DOMAIN pending = 1..Len(pending) /\ Len(pending) \in Nat
      /\ DOMAIN pending' = 1..(Len(pending) + 1 + Len(q))
      /\ \A i \in 1..(Len(pending) + 1 + Len(q)) :
            pending'[i] = IF i <= Len(pending) THEN pending[i]
                          ELSE IF i = Len(pending) + 1 THEN WholeEntry
                          ELSE ScopedEntries(q)[i - (Len(pending) + 1)]
  BY <1>1, CommitQueue
<1>4. ASSUME NEW c \in Registered', NEW m \in Frames(c)' PROVE Fresh(c, m)'
  <2>0. c \in Registered /\ c \in Clients
    BY <1>1 DEF Registered, TypeOK, TablesType
  <2>1. due'[c] = IF c \in Whole \/ \E i \in DOMAIN q : q[i] = c
        THEN due[c] \cup {version + 1} ELSE due[c]
    BY <1>1, <2>0 DEF OnDocChange
  <2>2. CASE m \in Frames(c)
    <3>1. Fresh(c, m)
      BY <2>0, <2>2 DEF OnceOnly, Registered, Fresh
    <3>2. due[c] \subseteq due'[c]
      BY <2>1
    <3> QED BY <1>1, <3>1, <3>2 DEF Fresh
  <2>3. CASE m \notin Frames(c)
    <3>1. PICK i \in QueuedFor(c)' : m = pending'[i].msg
      BY <1>1, <1>4, <2>3 DEF Frames
    <3>2. i \in DOMAIN pending' /\ c \in pending'[i].to
      BY <3>1 DEF QueuedFor
    <3>3. i > Len(pending)
      <4> SUFFICES ASSUME i <= Len(pending) PROVE FALSE
        BY <1>2, <1>3, <3>2
      <4>1. i \in DOMAIN pending /\ pending'[i] = pending[i]
        BY <1>2, <1>3, <3>2
      <4>2. i \in QueuedFor(c)
        BY <1>1, <3>1, <3>2, <4>1 DEF QueuedFor
      <4> QED BY <2>3, <3>1, <4>1, <4>2 DEF Frames
    <3>4. m.version = version + 1 /\ (c \in Whole \/ \E k \in DOMAIN q : q[k] = c)
      <4>1. CASE i = Len(pending) + 1
        BY <1>2, <1>3, <3>1, <3>2, <4>1 DEF WholeEntry, Patch
      <4>2. CASE i > Len(pending) + 1
        <5>1. i - (Len(pending) + 1) \in DOMAIN q
          BY <1>2, <1>3, <3>2, <4>2
        <5>2. pending'[i] = ScopedEntries(q)[i - (Len(pending) + 1)]
          BY <1>2, <1>3, <3>2, <4>2
        <5> QED BY <3>1, <3>2, <5>1, <5>2 DEF ScopedEntries, Patch
      <4> QED BY <1>2, <1>3, <3>2, <3>3, <4>1, <4>2
    <3> QED BY <2>1, <3>4 DEF Fresh
  <2> QED BY <2>2, <2>3
<1> QED BY <1>4, FreshAll

LEMMA FlushOnce ==
    ASSUME TypeOK, SendingHead, OnceOnly, BeginBroadcast \/ EndBroadcast
           \/ SettledCancel
    PROVE  OnceOnly'
<1>0. pending \in Seq(Entry) /\ buffer \in [Clients -> Seq(Message)]
  BY DEF TypeOK, QueueType
<1>1. UNCHANGED <<clients, connecting, due, resyncAt>> /\ retried \subseteq retried'
  BY DEF BeginBroadcast, EndBroadcast, SettledCancel, CancelFlush, tables, seen
<1>2. Registered' = Registered /\ Registered \subseteq Clients
  BY <1>1 DEF Registered, TypeOK, TablesType
<1>3. CASE BeginBroadcast
  <2>0. pending' = pending /\ ~sending /\ pending # <<>>
    BY <1>3 DEF BeginBroadcast
  <2>1. Head(pending) = pending[1] /\ 1 \in DOMAIN pending
        /\ Head(pending) \in Entry
    BY <1>0, <2>0, TailElements
  <2>2. ASSUME NEW c \in Clients PROVE Frames(c)' \subseteq Frames(c)
    <3>1. QueuedFor(c)' \subseteq QueuedFor(c)
          /\ (c \in pending[1].to => 1 \in QueuedFor(c))
      BY <2>0, <2>1 DEF QueuedFor
    <3>2. buffer'[c] = buffer[c]
          \/ (c \in pending[1].to /\ buffer'[c] = Append(buffer[c], pending[1].msg))
      BY <1>3, <2>1 DEF BeginBroadcast
    <3>3. pending[1].msg \in Message
      BY <2>1 DEF Entry
    <3>4. ASSUME NEW i \in DOMAIN buffer'[c] PROVE buffer'[c][i] \in Frames(c)
      <4>1. CASE buffer'[c] = buffer[c]
        BY <4>1 DEF Frames
      <4>2. CASE c \in pending[1].to
                 /\ buffer'[c] = Append(buffer[c], pending[1].msg)
        <5>1. (i \in DOMAIN buffer[c] /\ buffer'[c][i] = buffer[c][i])
              \/ buffer'[c][i] = pending[1].msg
          BY <1>0, <3>3, <4>2, AppendElements
        <5> QED BY <3>1, <4>2, <5>1 DEF Frames
      <4> QED BY <3>2, <4>1, <4>2
    <3> QED BY <2>0, <3>1, <3>4 DEF Frames
  <2> QED BY <1>1, <1>2, <2>2, FreshStays, FreshAll
<1>4. CASE EndBroadcast
  <2>0. pending' = Tail(pending) /\ pending # <<>> /\ ~sending' /\ buffer' = buffer
    BY <1>4 DEF EndBroadcast, SendingHead
  <2>1. \A i \in DOMAIN pending' : i + 1 \in DOMAIN pending /\ i + 1 # 1
        /\ pending'[i] = pending[i + 1]
    BY <1>0, <2>0, TailElements
  <2>2. ASSUME NEW c \in Clients PROVE Frames(c)' \subseteq Frames(c)
    <3>1. \A i \in QueuedFor(c)' : i + 1 \in QueuedFor(c)
          /\ pending'[i] = pending[i + 1]
      BY <2>1 DEF QueuedFor
    <3>2. \A i \in QueuedFor(c)' : pending'[i].msg \in Frames(c)
      BY <3>1 DEF Frames
    <3>3. \A i \in DOMAIN buffer'[c] : buffer'[c][i] \in Frames(c)
      BY <2>0 DEF Frames
    <3> SUFFICES ASSUME NEW m \in Frames(c)' PROVE m \in Frames(c)
      OBVIOUS
    <3>4. \/ \E i \in DOMAIN buffer'[c] : m = buffer'[c][i]
          \/ \E i \in QueuedFor(c)' : m = pending'[i].msg
      BY DEF Frames
    <3> QED BY <3>2, <3>3, <3>4
  <2> QED BY <1>1, <1>2, <2>2, FreshStays, FreshAll
<1>5. CASE SettledCancel
  <2>0. UNCHANGED <<pending, buffer>>
        /\ (UNCHANGED <<sending, todo>>
           \/ (sending /\ retried' = retried \cup {Head(pending).msg.version}))
    BY <1>5 DEF SettledCancel, CancelFlush
  <2>1. ASSUME NEW c \in Registered', NEW m \in Frames(c)' PROVE Fresh(c, m)'
    <3>1. CASE m \in Frames(c)
      BY <1>1, <1>2, <3>1 DEF OnceOnly, Fresh, Registered
    <3>2. CASE m \notin Frames(c)
      <4>1. sending /\ m = pending[1].msg
        BY <2>0, <2>1, <3>2 DEF Frames, QueuedFor
      <4>2. Head(pending) = pending[1]
        BY <1>0, <4>1, TailElements DEF SendingHead
      <4>3. m.version \in retried'
        BY <2>0, <3>2, <4>1, <4>2, <2>1 DEF Frames, QueuedFor
      <4> QED BY <4>3 DEF Fresh
    <3> QED BY <3>1, <3>2
  <2> QED BY <2>1, FreshAll
<1> QED BY <1>3, <1>4, <1>5

(* The patch that is sent stays fresh nowhere else: its other copies, if   *)
(* any, are of a broadcast that is repeated.                               *)
LEMMA BroadcastOnce ==
    ASSUME TypeOK, SendingHead, SentTo, Ordered, OnceOnly, NEW c \in Clients,
           BroadcastTo(c)
    PROVE  OnceOnly'
<1> DEFINE h == pending[1].msg
<1>1. /\ SafeSend(c, h) /\ sending /\ sending' /\ c \in todo /\ todo' = todo \ {c}
      /\ UNCHANGED <<buffer, pending>> /\ pending # <<>>
         /\ Head(pending) = pending[1]
  <2>1. sending /\ pending # <<>>
    BY DEF BroadcastTo, SendingHead
  <2>2. Head(pending) = pending[1]
    BY <2>1, TailElements DEF TypeOK, QueueType
  <2> QED BY <2>1, <2>2 DEF BroadcastTo
<1>2. /\ Registered' \subseteq Registered /\ UNCHANGED <<resyncAt, retried>>
      /\ \A d \in Clients \ {c} : due'[d] = due[d]
      /\ c \in Registered' => \A v \in due[c] : v \in due'[c]
         \/ (h.kind = "patch" /\ v = h.version)
  BY <1>1, SentFresh
<1>3. Registered \subseteq Clients
  BY DEF Registered, TypeOK, TablesType
<1>4. ASSUME NEW d \in Registered' PROVE Frames(d)' \subseteq Frames(d)
  BY <1>1 DEF Frames, QueuedFor
<1>5. ASSUME NEW d \in Registered', d # c PROVE \A m \in Frames(d)' : Fresh(d, m)'
  BY <1>2, <1>3, <1>4, <1>5, FreshStays
<1>6. ASSUME c \in Registered', NEW m \in Frames(c)' PROVE Fresh(c, m)'
  <2>1. m \in Frames(c) /\ Fresh(c, m)
    BY <1>2, <1>4, <1>6 DEF OnceOnly, Fresh, Registered
  <2>2. CASE m.kind = "patch" /\ h.kind = "patch" /\ m.version = h.version
    <3>0. 1 \in DOMAIN pending /\ c \in pending[1].to /\ 1 \in QueuedFor(c)
      <4>1. 1 \in DOMAIN pending
        BY <1>1, TailElements DEF TypeOK, QueueType
      <4>2. c \in pending[1].to
        BY <1>1 DEF SentTo
      <4> QED BY <1>1, <4>1, <4>2 DEF QueuedFor
    <3>1. m.version \in retried
      <4>1. CASE \E i \in DOMAIN buffer[c] : m = buffer[c][i]
        BY <2>2, <3>0, <4>1 DEF Ordered, BufferFirst, Apart
      <4>2. CASE \E i \in QueuedFor(c)' : m = pending[i].msg
        <5>1. PICK i \in QueuedFor(c)' : m = pending[i].msg
          BY <4>2
        <5>2. i \in DOMAIN pending /\ i # 1 /\ c \in pending[i].to
          BY <1>1, <5>1 DEF QueuedFor
        <5>3. 1 < i
          BY <5>2 DEF TypeOK, QueueType
        <5> QED BY <2>2, <3>0, <5>1, <5>2, <5>3 DEF Ordered, QueueRises, Separate
      <4> QED BY <1>1, <1>6, <4>1, <4>2 DEF Frames
    <3> QED BY <1>2, <3>1 DEF Fresh
  <2>3. CASE ~(m.kind = "patch" /\ h.kind = "patch" /\ m.version = h.version)
    BY <1>2, <1>6, <2>1, <2>3 DEF Fresh
  <2> QED BY <2>2, <2>3
<1> QED BY <1>5, <1>6, FreshAll

LEMMA DrainOnce ==
    ASSUME TypeOK, Ordered, OnceOnly, NEW c \in Clients, DrainStep(c)
    PROVE  OnceOnly'
<1> DEFINE h == buffer[c][1]
<1>0. buffer[c] \in Seq(Message) /\ buffer[c] # <<>> /\ Head(buffer[c]) = h
      /\ 1 \in DOMAIN buffer[c]
  <2>1. buffer[c] \in Seq(Message) /\ buffer[c] # <<>>
    BY DEF DrainStep, TypeOK, QueueType
  <2> QED BY <2>1, TailElements
<1>1. /\ SafeSend(c, h) /\ UNCHANGED <<pending, sending, todo>>
      /\ buffer'[c] = Tail(buffer[c])
         /\ \A d \in Clients \ {c} : buffer'[d] = buffer[d]
  BY <1>0 DEF DrainStep, queue, TypeOK, QueueType
<1>2. /\ Registered' \subseteq Registered /\ UNCHANGED <<resyncAt, retried>>
      /\ \A d \in Clients \ {c} : due'[d] = due[d]
      /\ c \in Registered' => \A v \in due[c] : v \in due'[c]
         \/ (h.kind = "patch" /\ v = h.version)
  BY <1>1, SentFresh
<1>3. Registered \subseteq Clients
  BY DEF Registered, TypeOK, TablesType
<1>4. \A i \in DOMAIN buffer'[c] : i + 1 \in DOMAIN buffer[c] /\ 1 < i + 1
      /\ buffer'[c][i] = buffer[c][i + 1]
  BY <1>0, <1>1, TailElements
<1>a. ASSUME NEW d \in Registered' PROVE Frames(d)' \subseteq Frames(d)
  <2>0. d \in Clients /\ QueuedFor(d)' = QueuedFor(d)
    BY <1>1, <1>2, <1>3 DEF QueuedFor
  <2>1. CASE d = c
    <3>1. ASSUME NEW i \in DOMAIN buffer'[c] PROVE buffer'[c][i] \in Frames(c)
      <4>1. i + 1 \in DOMAIN buffer[c] /\ buffer'[c][i] = buffer[c][i + 1]
        BY <1>4
      <4> QED BY <4>1 DEF Frames
    <3>2. \A i \in QueuedFor(c) : pending[i].msg \in Frames(c)
      BY DEF Frames
    <3>3. ASSUME NEW m \in Frames(c)' PROVE m \in Frames(c)
      <4>1. CASE \E i \in DOMAIN buffer'[c] : m = buffer'[c][i]
        BY <3>1, <4>1
      <4>2. CASE \E i \in QueuedFor(c) : m = pending[i].msg
        BY <3>2, <4>2
      <4>3. QueuedFor(c)' = QueuedFor(c) /\ pending' = pending
        BY <1>1, <2>0, <2>1
      <4> QED BY <3>3, <4>1, <4>2, <4>3 DEF Frames
    <3> QED BY <2>1, <3>3
  <2>2. CASE d # c
    BY <1>1, <2>0, <2>2 DEF Frames
  <2> QED BY <2>1, <2>2
<1>5. ASSUME NEW d \in Registered', d # c PROVE \A m \in Frames(d)' : Fresh(d, m)'
  BY <1>2, <1>3, <1>a, <1>5, FreshStays
<1>6. ASSUME c \in Registered', NEW m \in Frames(c)' PROVE Fresh(c, m)'
  <2>1. m \in Frames(c) /\ Fresh(c, m)
    BY <1>2, <1>a, <1>6 DEF OnceOnly, Fresh, Registered
  <2>2. CASE m.kind = "patch" /\ h.kind = "patch" /\ m.version = h.version
    <3>1. m.version \in retried
      <4>1. CASE \E i \in DOMAIN buffer'[c] : m = buffer'[c][i]
        <5>1. PICK i \in DOMAIN buffer'[c] : m = buffer'[c][i]
          BY <4>1
        <5>2. i + 1 \in DOMAIN buffer[c] /\ 1 < i + 1 /\ m = buffer[c][i + 1]
          BY <1>4, <5>1
        <5> QED BY <1>0, <2>2, <5>2 DEF Ordered, BufferRises, Apart
      <4>2. CASE \E i \in QueuedFor(c) : m = pending[i].msg
        <5>1. PICK i \in QueuedFor(c) : m = pending[i].msg
          BY <4>2
        <5> QED BY <1>0, <2>2, <5>1 DEF Ordered, BufferFirst, Apart, QueuedFor
      <4> QED BY <1>1, <1>6, <4>1, <4>2 DEF Frames, QueuedFor
    <3> QED BY <1>2, <3>1 DEF Fresh
  <2>3. CASE ~(m.kind = "patch" /\ h.kind = "patch" /\ m.version = h.version)
    BY <1>2, <1>6, <2>1, <2>3 DEF Fresh
  <2> QED BY <2>2, <2>3
<1> QED BY <1>5, <1>6, FreshAll

LEMMA RegisterOnce ==
    ASSUME TypeOK, OnceOnly, NEW c \in Clients, ConnectPartial(c) \/ ConnectWhole(c)
    PROVE  OnceOnly'
<1>1. /\ pending = <<>> /\ pending' = <<>> /\ buffer'[c] = <<>>
      /\ \A d \in Clients \ {c} : buffer'[d] = buffer[d] /\ due'[d] = due[d]
      /\ UNCHANGED <<resyncAt, retried>>
      /\ Registered' \subseteq Registered \cup {c} /\ Registered \subseteq Clients
  BY
     DEF ConnectPartial, ConnectWhole, FlushOver, queue, seen, Forget, Registered,
         TypeOK, QueueType, SeenType, TablesType
<1>2. ASSUME NEW d \in Registered', NEW m \in Frames(d)' PROVE Fresh(d, m)'
  <2>1. d # c /\ d \in Registered /\ d \in Clients
    BY <1>1, <1>2 DEF Frames, QueuedFor
  <2>2. m \in Frames(d)
    BY <1>1, <1>2, <2>1 DEF Frames, QueuedFor
  <2> QED BY <1>1, <2>1, <2>2 DEF OnceOnly, Fresh, Registered
<1> QED BY <1>2, FreshAll

LEMMA SnapshotOnce ==
    ASSUME TypeOK, Ordered, Awaited, OnceOnly, NEW r \in Requests, Resync(r)
           \/ ScopeFirst(r)
    PROVE  OnceOnly'
<1> DEFINE c == from[r]
<1>1. /\ UNCHANGED <<buffer, pending, sending, todo, retried, from>>
         /\ Registered' \subseteq Registered
      /\ Registered \subseteq Clients /\ c \in Clients
  BY
     DEF Resync, ScopeFirst, queue, Registered, Forget, TypeOK, TablesType,
         StillType, still, seen
<1>2. \A d \in Clients \ {c} : due'[d] = due[d] /\ resyncAt'[d] = resyncAt[d]
  BY <1>1 DEF Resync, ScopeFirst, seen, TypeOK, SeenType
<1>3. \A d \in Clients : Frames(d)' = Frames(d)
  BY <1>1 DEF Frames, QueuedFor
<1>4. ASSUME NEW d \in Registered', d # c, NEW m \in Frames(d)' PROVE Fresh(d, m)'
  BY <1>1, <1>2, <1>3, <1>4 DEF OnceOnly, Fresh, Registered
<1>5. ASSUME c \in Registered', NEW m \in Frames(c)
      PROVE  m.kind = "patch" => m.version \in due'[c] \/ m.version <= resyncAt'[c]
             \/ m.version \in retried
  <2>1. CASE UNCHANGED <<due, resyncAt>>
    BY <1>1, <1>5, <2>1 DEF OnceOnly, Registered
  <2>2. CASE Resync(r) /\ c \notin dead
    <3>1. resyncAt'[c] = version
      BY <1>1, <2>2 DEF Resync, TypeOK, SeenType
    <3>2. m.kind = "patch" => m.version <= version
      BY <1>1, <1>5 DEF Frames, QueuedFor, Ordered, Past
    <3> QED BY <3>1, <3>2
  <2>3. CASE ScopeFirst(r)
    <3>1. c \in awaiting
      BY <2>3 DEF ScopeFirst
    <3> QED BY <1>5, <3>1 DEF Awaited, NoPatchTo, Frames, QueuedFor
  <2> QED BY <2>1, <2>2, <2>3 DEF Resync
<1> QED
  <2>1. ASSUME NEW d \in Registered', NEW m \in Frames(d)' PROVE Fresh(d, m)'
    BY <1>1, <1>3, <1>4, <1>5, <2>1 DEF Fresh
  <2> QED BY <2>1, FreshAll

LEMMA NextOnce ==
    ASSUME TypeInv, Ordered, SentTo, Awaited, OnceOnly, [Next]_vars
    PROVE  OnceOnly'
<1>0. TypeOK /\ SendingHead
  BY DEF TypeInv
<1>1. CASE Calm
  <2>1. \A c \in Registered' : Frames(c)' = Frames(c)
    BY <1>1 DEF Calm, Frames, QueuedFor, queue
  <2> QED BY <1>1, <2>1, FreshStays, FreshAll DEF Calm
<1>2. ASSUME NEW r \in Requests, DispatchOk(r) \/ ScopeChange(r)
      PROVE  OnceOnly'
  <2>1. UNCHANGED <<clients, connecting, buffer, sending, todo, due, resyncAt, retried>>
    BY <1>2 DEF DispatchOk, ScopeChange, tables, seen, queue
  <2>2. pending' = pending \/ \E e \in Entry : e.msg.kind # "patch"
        /\ pending' = Append(pending, e)
    BY <1>0, <1>2, AnswerEntry
  <2>3. \A i \in DOMAIN pending' : (i \in DOMAIN pending
        /\ pending'[i] = pending[i]) \/ pending'[i].msg.kind # "patch"
    BY <1>0, <2>2, AppendElements DEF TypeOK, QueueType
  <2>4. ASSUME NEW c \in Registered', NEW m \in Frames(c)' PROVE Fresh(c, m)'
    <3>1. m \in Frames(c) \/ m.kind # "patch"
      BY <2>1, <2>3, <2>4 DEF Frames, QueuedFor
    <3> QED BY <2>1, <3>1 DEF Fresh, OnceOnly, Registered
  <2> QED BY <2>4, FreshAll
<1>3. ASSUME NEW r \in Requests, ScopeDrain(r) PROVE OnceOnly'
  <2>1. from[r] \in Clients /\ DrainStep(from[r])
    BY <1>0, <1>3 DEF ScopeDrain, TypeOK, StillType
  <2> QED BY <1>0, <2>1, DrainOnce
<1>4. ASSUME NEW c \in Clients, ConnectDrain(c) PROVE OnceOnly'
  BY <1>0, <1>4, DrainOnce DEF ConnectDrain
<1> QED
  BY <1>0, <1>1, <1>2, <1>3, <1>4, Moves, CommitOnce, FlushOnce, BroadcastOnce,
     RegisterOnce, SnapshotOnce

(* What a step takes off what is due is older than what it leaves. *)
LEMMA StepInOrder ==
    ASSUME LossInv, Roster, Drains, Buffered, Ordered, SentTo, [Next]_vars
    PROVE  \A c \in Clients : \A v \in due[c] \ due'[c],
           w \in due[c] \cap due'[c] : v < w
<1>0. TypeInv /\ TypeOK /\ SendingHead /\ NoLoss /\ SeenType
  BY DEF LossInv, TypeInv, TypeOK
<1>1. ASSUME \A c \in Clients : due[c] \subseteq due'[c] \/ due'[c] = {}
      PROVE  \A c \in Clients : \A v \in due[c] \ due'[c],
             w \in due[c] \cap due'[c] : v < w
  BY <1>1
<1>2. ASSUME NEW c \in Clients, NEW m, SafeSend(c, m),
             ASSUME c \notin dead, m.kind = "patch", NEW w \in due[c], w # m.version
             PROVE  m.version < w
      PROVE  \A d \in Clients : \A v \in due[d] \ due'[d],
             w \in due[d] \cap due'[d] : v < w
  <2>1. CASE c \in dead
    BY <1>1, <1>2, <2>1 DEF SafeSend, seen
  <2>2. CASE c \notin dead /\ m.kind = "patch"
    <3>1. due' = [due EXCEPT ![c] = @ \ {m.version}]
      BY <1>2, <2>2 DEF SafeSend, Deliver
    <3> QED BY <1>0, <1>2, <2>2, <3>1 DEF SeenType
  <2>3. CASE c \notin dead /\ m.kind # "patch"
    BY <1>1, <1>2, <2>3 DEF SafeSend, Deliver
  <2> QED BY <2>1, <2>2, <2>3
<1>3. ASSUME NEW c \in Clients, DrainStep(c), Draining(c)
      PROVE  \A d \in Clients : \A v \in due[d] \ due'[d],
             w \in due[d] \cap due'[d] : v < w
  <2>0. buffer[c] \in Seq(Message) /\ buffer[c] # <<>>
    BY <1>0, <1>3 DEF DrainStep, TypeOK, QueueType
  <2>1. SafeSend(c, buffer[c][1]) /\ 1 \in DOMAIN buffer[c]
        /\ Head(buffer[c]) = buffer[c][1]
    BY <1>3, <2>0, TailElements DEF DrainStep
  <2>2. conn[c] \in {"drain", "open"}
    BY <1>3 DEF Draining, Roster, Heard, ScopePast
  <2>3. ASSUME c \notin dead, buffer[c][1].kind = "patch", NEW w \in due[c],
               w # buffer[c][1].version
        PROVE  buffer[c][1].version < w
    <3>1. OnItsWay(c, w)
      BY <1>0, <2>2, <2>3 DEF Roster, Enrolled, Registered, NoLoss
    <3>2. CASE \E i \in DOMAIN buffer[c] : IsPatch(buffer[c][i], w)
      <4>1. PICK i \in DOMAIN buffer[c] : IsPatch(buffer[c][i], w)
        BY <3>2
      <4>2. 1 < i
        BY <2>0, <2>3, <4>1 DEF IsPatch
      <4>3. buffer[c][1].version <= w
        BY <2>1, <2>3, <4>1, <4>2 DEF Ordered, BufferRises, NotAfter, IsPatch
      <4> QED BY <1>0, <2>1, <2>3, <4>1, <4>3, VersionType DEF IsPatch
    <3>3. CASE \E i \in QueuedFor(c) : IsPatch(pending[i].msg, w)
      <4>1. PICK i \in QueuedFor(c) : IsPatch(pending[i].msg, w)
        BY <3>3
      <4>2. i \in DOMAIN pending /\ c \in pending[i].to
        BY <4>1 DEF QueuedFor
      <4>3. buffer[c][1].version <= w
        BY <2>1, <2>3, <4>1, <4>2 DEF Ordered, BufferFirst, NotAfter, IsPatch
      <4> QED BY <1>0, <2>1, <2>3, <4>1, <4>2, <4>3, VersionType DEF IsPatch
    <3> QED BY <3>1, <3>2, <3>3 DEF OnItsWay
  <2> QED BY <1>2, <2>1, <2>3
<1>4. ASSUME NEW c \in Clients, BroadcastTo(c)
      PROVE  \A d \in Clients : \A v \in due[d] \ due'[d],
             w \in due[d] \cap due'[d] : v < w
  <2>0. pending \in Seq(Entry) /\ pending # <<>> /\ sending /\ c \in todo
    BY <1>0, <1>4 DEF BroadcastTo, SendingHead, TypeOK, QueueType
  <2>1. SafeSend(c, pending[1].msg) /\ 1 \in DOMAIN pending
        /\ Head(pending) = pending[1]
    BY <1>4, <2>0, TailElements DEF BroadcastTo
  <2>2. ASSUME c \notin dead, pending[1].msg.kind = "patch", NEW w \in due[c],
               w # pending[1].msg.version
        PROVE  pending[1].msg.version < w
    <3>1. c \in clients
      BY <2>0, <2>2 DEF SentTo
    <3>2. OnItsWay(c, w)
      BY <1>0, <2>2, <3>1 DEF NoLoss
    <3>3. buffer[c] = <<>>
      <4> SUFFICES ASSUME buffer[c] # <<>> PROVE FALSE
        OBVIOUS
      <4>1. Draining(c)
        BY <3>1 DEF Buffered
      <4>2. ~sending
        BY <4>1, NotFlushing DEF Draining, Drains, FlushPcs
      <4> QED BY <2>0, <4>2
    <3>4. PICK i \in QueuedFor(c) : IsPatch(pending[i].msg, w)
      BY <3>2, <3>3 DEF OnItsWay
    <3>5. i \in DOMAIN pending /\ 1 < i
      BY <2>0, <2>2, <3>4 DEF QueuedFor, IsPatch
    <3>6. pending[1].msg.version <= w
      BY <2>1, <2>2, <3>4, <3>5 DEF Ordered, QueueRises, NotAfter, IsPatch
    <3> QED BY <1>0, <2>1, <2>2, <3>4, <3>5, <3>6, VersionType DEF IsPatch
  <2> QED BY <1>2, <2>1, <2>2
<1>5. CASE Calm
  BY <1>1, <1>5 DEF Calm
<1>6. ASSUME NEW q \in Projections, HostCommit(q) \/ RequestCommit(q)
      PROVE  \A c \in Clients : due[c] \subseteq due'[c]
  BY <1>6 DEF HostCommit, RequestCommit, OnDocChange
<1>7. ASSUME BeginBroadcast \/ EndBroadcast \/ SettledCancel
             \/ \E r \in Requests : DispatchOk(r) \/ ScopeChange(r)
      PROVE  \A c \in Clients : due[c] \subseteq due'[c]
  BY <1>7
     DEF BeginBroadcast, EndBroadcast, SettledCancel, CancelFlush, DispatchOk,
         ScopeChange, seen
<1>8. ASSUME \/ \E c \in Clients : ConnectPartial(c) \/ ConnectWhole(c)
             \/ \E r \in Requests : Resync(r) \/ ScopeFirst(r)
      PROVE  \A c \in Clients : due[c] \subseteq due'[c] \/ due'[c] = {}
  <2>0. due \in [Clients -> SUBSET (1..MaxVersion)]
        /\ from \in [Requests -> Clients]
    BY <1>0 DEF TypeOK, SeenType, StillType
  <2>1. ASSUME NEW c \in Clients, ConnectPartial(c) \/ ConnectWhole(c)
        PROVE  UNCHANGED due \/ due' = [due EXCEPT ![c] = {}]
    BY <2>1 DEF ConnectPartial, ConnectWhole, seen
  <2>2. ASSUME NEW r \in Requests, Resync(r) \/ ScopeFirst(r)
        PROVE  UNCHANGED due \/ due' = [due EXCEPT ![from[r]] = {}]
    BY <2>2 DEF Resync, ScopeFirst, seen
  <2>3. ASSUME NEW c \in Clients, UNCHANGED due \/ due' = [due EXCEPT ![c] = {}]
        PROVE  \A d \in Clients : due[d] \subseteq due'[d] \/ due'[d] = {}
    BY <2>0, <2>3
  <2>4. \A r \in Requests : from[r] \in Clients
    BY <2>0
  <2> QED BY <1>8, <2>1, <2>2, <2>3, <2>4
<1>9. ASSUME NEW c \in Clients, ConnectDrain(c)
      PROVE  \A d \in Clients : \A v \in due[d] \ due'[d],
             w \in due[d] \cap due'[d] : v < w
  BY <1>3, <1>9 DEF ConnectDrain, Draining
<1>10. ASSUME NEW r \in Requests, ScopeDrain(r)
      PROVE  \A d \in Clients : \A v \in due[d] \ due'[d],
             w \in due[d] \cap due'[d] : v < w
  BY <1>0, <1>3, <1>10 DEF ScopeDrain, Draining, TypeOK, StillType
<1> QED
  BY <1>1, <1>4, <1>5, <1>6, <1>7, <1>8, <1>9, <1>10, Moves

(* What SentOnce and SentInOrder rest on. *)
OrderInv == LossInv /\ Roster /\ Drains /\ Buffered /\ Ordered /\ SentTo /\ Awaited
   /\ OnceOnly

LEMMA OrderSafe == (Init => OrderInv) /\ (OrderInv /\ [Next]_vars => OrderInv')
<1>1. Init => OrderInv
  BY InitLossInv, InitRoster, InitDrains, InitOrdered, InitSentTo DEF OrderInv
<1>2. LossInv => TypeInv
  BY DEF LossInv
<1>3. OrderInv /\ [Next]_vars => OrderInv'
  BY <1>2, NextLossInv, NextRoster, NextDrains, NextBuffered, NextOrdered,
     NextSentTo, NextAwaited, NextOnce
     DEF OrderInv
<1> QED BY <1>1, <1>3

(* A client is sent the patch of a commit it already has only if that      *)
(* commit came with the snapshot of a rejection, or its broadcast was      *)
(* cancelled half way.                                                     *)
THEOREM SentOnce == Spec => []OnceOnly
<1>1. OrderInv => OnceOnly
  BY DEF OrderInv
<1> QED
  BY <1>1, OrderSafe, PTL DEF Spec

(* Commits reach a client in the order they were made. *)
THEOREM SentInOrder == Spec => InOrder
<1>1. OrderInv /\ [Next]_vars
      => [\A c \in Clients : \A v \in due[c] \ due'[c], w \in due[c] \cap due'[c] : v < w]_vars
  BY StepInOrder DEF OrderInv
<1> QED
  BY <1>1, OrderSafe, PTL DEF Spec, InOrder

-----------------------------------------------------------------------------
(* Answers.                                                                *)

(* The answer to a request is in the handshake buffer of its client; *)
InHand(r) == \E i \in DOMAIN buffer[from[r]] : buffer[from[r]][i].ref = r
(* or there, or on its way in the queue, or has arrived. *)
Replied(r) ==
    r \in answered \/ InHand(r)
       \/ \E i \in QueuedFor(from[r]) : pending[i].msg.ref = r

(* How far the answer to a request is, given how far its handler has come. *)
Reply(r) ==
    /\ rpc[r] \in {"ok", "ackFlush"} => Replied(r)
    /\ rpc[r] \in {"resync", "scopeSent", "scopePromote", "scopeDrain"}
       => r \in answered
    /\ rpc[r] = "dispatch" => from[r] \notin awaiting /\ (queued => Replied(r))
    /\ rpc[r] = "done" => r \in answered \/ InHand(r)

Replies ==
    /\ \A r \in Requests : rpc[r] = "dispatch" => request = r
    /\ \A r \in Requests \ Unlabelled : from[r] \notin dead => Reply(r)

LEMMA InitReplies == Init => Replies
BY DEF Init, Replies, Reply

(* What no step takes back. *)
LEMMA Kept ==
    ASSUME [Next]_vars
    PROVE  answered \subseteq answered' /\ dead \subseteq dead' /\ from' = from
<1> USE DEF sockets, still, seen
<1>1. CASE UNCHANGED vars
  BY <1>1 DEF vars
<1>2. ASSUME NEW c \in Clients, NEW m, SafeSend(c, m)
      PROVE  answered \subseteq answered'
  BY <1>2 DEF SafeSend, Deliver
<1>3. CASE FlushNext
  BY <1>2, <1>3
     DEF FlushNext, BeginBroadcast, EndBroadcast, BroadcastTo, TaskStart, TaskDone
<1>4. CASE SettledNext
  BY <1>4
     DEF SettledNext, SettledCall, SettledFlush, SettledReturn, SettledCancel,
         CancelFlush
<1>5. ASSUME NEW q \in Projections, HostCommit(q) \/ RequestCommit(q)
      PROVE  answered \subseteq answered' /\ dead \subseteq dead' /\ from' = from
  BY <1>5 DEF HostCommit, RequestCommit, OnDocChange
<1>6. CASE EnvironmentNext
  BY <1>5, <1>6
     DEF EnvironmentNext, ConnectStart, ConnectionLost, Disconnect, RefuseMessage,
         Dispatch,
     ScopeIgnored, ScopeReceive, SendError
<1>7. ASSUME NEW c \in Clients, ConnectNext(c)
      PROVE  answered \subseteq answered' /\ dead \subseteq dead' /\ from' = from
  BY <1>2, <1>7
     DEF ConnectNext, ConnectPartial, ConnectWhole, ConnectSnapshot, ConnectLock,
         ConnectPromote,
     ConnectDrain, DrainStep, ConnectDone
<1>8. ASSUME NEW r \in Requests, HandlerNext(r)
      PROVE  answered \subseteq answered' /\ dead \subseteq dead' /\ from' = from
  <2>1. CASE ScopeDrain(r)
    BY <2>1 DEF ScopeDrain, DrainStep, SafeSend, Deliver
  <2>2. CASE ~ScopeDrain(r)
    BY <1>8, <2>2
       DEF HandlerNext, RequestDone, RejectReply, SendError, Resync, ScopeEnter,
           ScopeGone, ScopeFirst,
       ScopeLock, ScopePromote, ScopeChange, ScopeDone
  <2> QED BY <2>1, <2>2
<1>9. CASE DispatchNext
  BY <1>5, <1>9
     DEF DispatchNext, DispatchOk, DispatchRejected, DispatchStepRejected,
         DispatchError, SendError
<1> QED
  BY <1>1, <1>3, <1>4, <1>6, <1>7, <1>8, <1>9 DEF Next, LoopNext

(* An answer that is on its way stays so until its client has it, or goes. *)
LEMMA RepliedStays ==
    ASSUME TypeInv, Roster, [Next]_vars,
           NEW r \in Requests \ Unlabelled, from[r] \notin dead', rpc[r] # "new"
    PROVE  /\ Replied(r) => Replied(r)'
           /\ r \in answered \/ InHand(r) => r \in answered' \/ InHand(r)'
<1>c. PICK c \in Clients : c = from[r]
  BY DEF TypeInv, TypeOK, StillType
<1>0. /\ c \in Clients /\ c = from[r] /\ r # NoRequest /\ pending \in Seq(Entry)
         /\ buffer \in [Clients -> Seq(Message)]
      /\ answered \subseteq answered' /\ from' = from /\ c \notin dead
         /\ c \in Registered
      /\ conn[c] \notin {"new", "hello"} /\ (sending => pending # <<>>)
  BY <1>c, Kept, SessionAssumption
     DEF TypeInv, TypeOK, QueueType, StillType, SendingHead, Roster, Heard, Enrolled
<1>1. ASSUME \A i \in DOMAIN buffer[c] : i \in DOMAIN buffer'[c]
             /\ buffer'[c][i] = buffer[c][i],
             \A i \in QueuedFor(c) : i \in QueuedFor(c)' /\ pending'[i] = pending[i]
      PROVE  /\ Replied(r) => Replied(r)'
             /\ r \in answered \/ InHand(r) => r \in answered' \/ InHand(r)'
  BY <1>0, <1>1 DEF Replied, InHand
<1>2. ASSUME UNCHANGED buffer, UNCHANGED <<sending, todo>>,
             \A i \in DOMAIN pending : i \in DOMAIN pending'
                /\ pending'[i] = pending[i]
      PROVE  /\ Replied(r) => Replied(r)'
             /\ r \in answered \/ InHand(r) => r \in answered' \/ InHand(r)'
  BY <1>1, <1>2 DEF QueuedFor
<1>3. ASSUME NEW q \in Projections, HostCommit(q) \/ RequestCommit(q)
      PROVE  /\ Replied(r) => Replied(r)'
             /\ r \in answered \/ InHand(r) => r \in answered' \/ InHand(r)'
  <2>1. OnDocChange(q) /\ UNCHANGED buffer /\ UNCHANGED <<sending, todo>>
    BY <1>3 DEF HostCommit, RequestCommit, OnDocChange
  <2>2. Len(q) \in Nat /\ TypeOK
    BY ProjectionType, LenProperties DEF TypeInv
  <2> QED BY <1>2, <2>1, <2>2, CommitQueue
<1>4. CASE BeginBroadcast
  <2>1. /\ pending' = pending /\ ~sending /\ pending # <<>>
           /\ todo' = clients \cap pending[1].to
        /\ buffer'[c] = IF c \in connecting \cap pending[1].to
           THEN Append(buffer[c], pending[1].msg) ELSE buffer[c]
        /\ 1 \in DOMAIN pending /\ pending[1] \in Entry
    <3>1. pending # <<>> /\ pending' = pending /\ ~sending
      BY <1>4 DEF BeginBroadcast
    <3>2. Head(pending) = pending[1] /\ 1 \in DOMAIN pending
          /\ Head(pending) \in Entry
      BY <1>0, <3>1, TailElements
    <3> QED BY <1>0, <1>4, <3>1, <3>2 DEF BeginBroadcast
  <2>2. buffer[c] \in Seq(Message) /\ pending[1].msg \in Message
    BY <1>0, <2>1 DEF Entry
  <2>3. \A i \in DOMAIN buffer[c] : i \in DOMAIN buffer'[c]
        /\ buffer'[c][i] = buffer[c][i]
    <3>1. CASE buffer'[c] = buffer[c]
      BY <3>1
    <3>2. CASE buffer'[c] = Append(buffer[c], pending[1].msg)
      BY <2>2, <3>2, AppendElements
    <3> QED BY <2>1, <3>1, <3>2
  <2>4. ASSUME \E i \in QueuedFor(c) : pending[i].msg.ref = r PROVE Replied(r)'
    <3>1. PICK i \in QueuedFor(c) : pending[i].msg.ref = r
      BY <2>4
    <3>2. CASE i # 1 \/ c \in clients
      <4>1. i \in DOMAIN pending /\ c \in pending[i].to /\ (i = 1 => c \in todo')
        BY <2>1, <3>1, <3>2 DEF QueuedFor
      <4>2. i \in QueuedFor(c)' /\ pending'[i] = pending[i]
        BY <2>1, <4>1 DEF QueuedFor
      <4> QED BY <1>0, <3>1, <4>2 DEF Replied, QueuedFor
    <3>3. CASE i = 1 /\ c \notin clients
      <4>1. c \in connecting \cap pending[1].to
        BY <1>0, <3>1, <3>3 DEF QueuedFor, Registered
      <4>2. Len(buffer[c]) + 1 \in DOMAIN buffer'[c]
            /\ buffer'[c][Len(buffer[c]) + 1] = pending[1].msg
        BY <2>1, <2>2, <4>1, AppendElements
      <4> QED BY <1>0, <3>1, <3>3, <4>2 DEF Replied, InHand
    <3> QED BY <3>2, <3>3
  <2>5. r \in answered \/ InHand(r) => r \in answered' \/ InHand(r)'
    BY <1>0, <2>3 DEF InHand
  <2> QED BY <1>0, <2>4, <2>5 DEF Replied
<1>5. CASE EndBroadcast
  <2>1. pending' = Tail(pending) /\ pending # <<>> /\ ~sending' /\ sending
        /\ todo = {} /\ buffer' = buffer
    BY <1>5 DEF EndBroadcast, TypeInv, SendingHead
  <2>2. \A i \in DOMAIN pending : i # 1 => i - 1 \in DOMAIN pending'
        /\ pending'[i - 1] = pending[i]
    BY <1>0, <2>1, TailElements
  <2>3. \A i \in QueuedFor(c) : i - 1 \in QueuedFor(c)'
        /\ pending'[i - 1] = pending[i]
    BY <2>1, <2>2 DEF QueuedFor
  <2>4. InHand(r) => InHand(r)'
    BY <1>0, <2>1 DEF InHand
  <2>5. ASSUME NEW i \in QueuedFor(c), pending[i].msg.ref = r
        PROVE  \E j \in QueuedFor(c)' : pending'[j].msg.ref = r
    BY <2>3, <2>5
  <2> QED BY <1>0, <2>4, <2>5 DEF Replied
<1>6. CASE SettledCancel
  <2>1. UNCHANGED <<pending, buffer>> /\ (UNCHANGED <<sending, todo>> \/ ~sending')
    BY <1>6 DEF SettledCancel, CancelFlush
  <2> QED BY <1>1, <2>1 DEF QueuedFor
<1>7. ASSUME NEW d \in Clients, BroadcastTo(d)
      PROVE  /\ Replied(r) => Replied(r)'
             /\ r \in answered \/ InHand(r) => r \in answered' \/ InHand(r)'
  <2>1. UNCHANGED <<buffer, pending, sending>> /\ todo' = todo \ {d}
        /\ SafeSend(d, pending[1].msg) /\ sending
    BY <1>0, <1>7, TailElements DEF BroadcastTo
  <2>2. CASE d # c
    BY <1>1, <2>1, <2>2 DEF QueuedFor
  <2>3. CASE d = c /\ pending[1].msg.ref # r
    BY <1>0, <2>1, <2>3 DEF QueuedFor, Replied, InHand
  <2>4. CASE d = c /\ pending[1].msg.ref = r
    BY <1>0, <2>1, <2>4 DEF SafeSend, Deliver, Replied
  <2> QED BY <2>2, <2>3, <2>4
<1>8. ASSUME NEW d \in Clients, DrainStep(d)
      PROVE  /\ Replied(r) => Replied(r)'
             /\ r \in answered \/ InHand(r) => r \in answered' \/ InHand(r)'
  <2>1. UNCHANGED queue /\ SafeSend(d, Head(buffer[d])) /\ buffer[d] # <<>>
        /\ buffer' = [buffer EXCEPT ![d] = Tail(@)]
    BY <1>8 DEF DrainStep
  <2>2. CASE d # c
    BY <1>0, <1>1, <2>1, <2>2 DEF QueuedFor, queue
  <2>3. CASE d = c
    <3>1. /\ Head(buffer[c]) = buffer[c][1]
          /\ \A i \in DOMAIN buffer[c] : i # 1 => i - 1 \in DOMAIN buffer'[c]
             /\ buffer'[c][i - 1] = buffer[c][i]
      <4>1. buffer[c] \in Seq(Message) /\ buffer'[c] = Tail(buffer[c])
            /\ buffer[c] # <<>>
        BY <1>0, <2>1, <2>3
      <4> QED BY <4>1, TailElements
    <3>2. r \in answered \/ InHand(r) => r \in answered' \/ InHand(r)'
      <4>1. CASE InHand(r)
        <5>1. PICK i \in DOMAIN buffer[c] : buffer[c][i].ref = r
          BY <1>0, <4>1 DEF InHand
        <5>2. CASE i = 1
          BY <1>0, <2>1, <2>3, <3>1, <5>1, <5>2 DEF SafeSend, Deliver
        <5>3. CASE i # 1
          BY <1>0, <3>1, <5>1, <5>3 DEF InHand
        <5> QED BY <5>2, <5>3
      <4> QED BY <1>0, <4>1
    <3>3. QueuedFor(c)' = QueuedFor(c) /\ pending' = pending
      BY <1>0, <2>1 DEF QueuedFor, queue
    <3> QED BY <1>0, <3>2, <3>3 DEF Replied
  <2> QED BY <2>2, <2>3
<1>9. ASSUME NEW d \in Clients, ConnectPartial(d) \/ ConnectWhole(d)
      PROVE  /\ Replied(r) => Replied(r)'
             /\ r \in answered \/ InHand(r) => r \in answered' \/ InHand(r)'
  <2>1. UNCHANGED queue /\ buffer' = [buffer EXCEPT ![d] = <<>>] /\ d # c
    BY <1>0, <1>9 DEF ConnectPartial, ConnectWhole
  <2> QED BY <1>0, <1>1, <2>1 DEF QueuedFor, queue
<1>10. ASSUME NEW s \in Requests, DispatchOk(s) \/ ScopeChange(s)
      PROVE  /\ Replied(r) => Replied(r)'
             /\ r \in answered \/ InHand(r) => r \in answered' \/ InHand(r)'
  <2>1. UNCHANGED buffer /\ UNCHANGED <<sending, todo>>
    BY <1>10 DEF DispatchOk, ScopeChange
  <2>2. \A i \in DOMAIN pending : i \in DOMAIN pending' /\ pending'[i] = pending[i]
    BY <1>0, <1>10, AnswerEntry, AppendElements DEF TypeInv
  <2> QED BY <1>2, <2>1, <2>2
<1>11. ASSUME NEW s \in Requests, Resync(s) \/ ScopeFirst(s)
      PROVE  /\ Replied(r) => Replied(r)'
             /\ r \in answered \/ InHand(r) => r \in answered' \/ InHand(r)'
  BY <1>2, <1>11 DEF Resync, ScopeFirst, queue
<1>12. CASE Calm
  BY <1>2, <1>12 DEF Calm, queue
<1>13. \A s \in Requests : from[s] \in Clients
  BY DEF TypeInv, TypeOK, StillType
<1> QED
  BY <1>3, <1>4, <1>5, <1>6, <1>7, <1>8, <1>9, <1>10, <1>11, <1>12, <1>13, Moves
     DEF ConnectDrain, ScopeDrain

(* A request that is answered needs nothing more. *)
LEMMA AnsweredReplies ==
    ASSUME NEW r \in Requests, r \in answered, rpc[r] # "dispatch"
    PROVE  Reply(r)
BY DEF Reply, Replied

(* The steps of the handlers: they answer a request, or queue its answer,  *)
(* or have answered it before.                                             *)
LEMMA CommitReply ==
    ASSUME TypeInv, Roster, Replies, NEW q \in Projections, RequestCommit(q)
    PROVE  Replies'
<1>0. /\ OnDocChange(q) /\ queued' = TRUE /\ TypeOK /\ SendingHead
         /\ request \in Requests
      /\ UNCHANGED <<buffer, sending, todo, request, rpc, from, dead, awaiting>>
  BY DEF RequestCommit, OnDocChange, TypeInv, TypeOK, StillType, tables, sockets
<1>2. Len(q) \in Nat /\ DOMAIN q = 1..Len(q) /\ Len(pending) \in Nat
  BY <1>0, ProjectionType, LenProperties DEF TypeOK, QueueType
<1>3. ASSUME NEW r \in Requests \ Unlabelled, from[r] \notin dead,
             rpc[r] = "dispatch"
      PROVE  Replied(r)'
  <2>0. r = request /\ from[r] \notin awaiting /\ Ref(r) = r
    BY <1>3 DEF Replies, Reply, Ref
  <2>1. from[r] \in Registered /\ view[from[r]] \in Nat
    BY <1>0, <1>3 DEF Roster, Heard, Enrolled, TypeOK, StillType, TablesType
  <2>2. from[r] \in Whole \/ from[r] \in Scoped
    BY <2>0, <2>1 DEF Whole, Scoped, Registered
  <2>3. CASE from[r] \in Whole
    <3>1. Len(pending) + 1 \in DOMAIN pending'
          /\ pending'[Len(pending) + 1] = WholeEntry
      BY <1>0, <1>2, CommitQueue
    <3>2. Len(pending) + 1 = 1 => ~sending
      BY <1>0, <1>2, EmptySeq DEF SendingHead, TypeOK, QueueType
    <3>3. WholeEntry.msg.ref = r /\ from[r] \in WholeEntry.to
      BY <1>0, <2>0, <2>3, SessionAssumption DEF WholeEntry, Patch
    <3>4. Len(pending) + 1 \in QueuedFor(from[r])'
      BY <1>0, <3>1, <3>2, <3>3 DEF QueuedFor
    <3> QED BY <3>1, <3>3, <3>4 DEF Replied
  <2>4. CASE from[r] \in Scoped
    <3>1. PICK i \in DOMAIN q : q[i] = from[r]
      BY <1>0, <2>0, <2>4, SessionAssumption DEF Projections
    <3> DEFINE n == Len(pending) + 1 + i
    <3>2. n \in DOMAIN pending' /\ n # 1 /\ pending'[n] = ScopedEntries(q)[i]
      BY <1>0, <1>2, <3>1, CommitQueue
    <3>3. ScopedEntries(q)[i].msg.ref = r /\ from[r] \in ScopedEntries(q)[i].to
      BY <1>0, <2>0, <3>1, SessionAssumption DEF ScopedEntries, Patch, ProjectedRef
    <3>4. n \in QueuedFor(from[r])'
      BY <1>0, <3>2, <3>3 DEF QueuedFor
    <3> HIDE DEF n
    <3> QED BY <3>2, <3>3, <3>4 DEF Replied
  <2> QED BY <2>2, <2>3, <2>4
<1>4. ASSUME NEW r \in Requests \ Unlabelled, from[r] \notin dead
      PROVE  Reply(r)'
  <2>1. Reply(r) /\ rpc'[r] = rpc[r]
    BY <1>0, <1>4 DEF Replies
  <2>2. [Next]_vars
    BY DEF Next, DispatchNext
  <2>3. rpc[r] # "new" => (Replied(r) => Replied(r)')
        /\ (r \in answered \/ InHand(r) => r \in answered' \/ InHand(r)')
    BY <1>0, <1>4, <2>2, RepliedStays
  <2>4. answered \subseteq answered'
    BY <2>2, Kept
  <2> QED BY <1>0, <1>3, <1>4, <2>1, <2>3, <2>4 DEF Reply
<1> QED BY <1>0, <1>4 DEF Replies

(* A step that moves no handler. *)
LEMMA StillReplies ==
    ASSUME TypeInv, Roster, Replies, [Next]_vars, UNCHANGED rpc,
           \/ UNCHANGED <<request, queued, awaiting>>
           \/ \A r \in Requests : rpc[r] # "dispatch"
    PROVE  Replies'
<1>1. ASSUME NEW r \in Requests \ Unlabelled, from'[r] \notin dead' PROVE Reply(r)'
  <2>1. from[r] \notin dead /\ from' = from /\ answered \subseteq answered'
    BY <1>1, Kept
  <2>2. Reply(r)
    BY <2>1 DEF Replies
  <2>3. rpc[r] # "new" => (Replied(r) => Replied(r)')
        /\ (r \in answered \/ InHand(r) => r \in answered' \/ InHand(r)')
    BY <1>1, <2>1, RepliedStays
  <2> QED BY <2>1, <2>2, <2>3 DEF Reply
<1> QED BY <1>1 DEF Replies

(* A step of the handler of one request. *)
LEMMA MovedReplies ==
    ASSUME TypeInv, Roster, Replies, [Next]_vars, NEW r \in Requests, NEW pc,
           Goto(r, pc),
           \/ UNCHANGED <<request, queued, awaiting>>
           \/ \A s \in Requests \ {r} : rpc[s] # "dispatch",
           pc = "dispatch" => request' = r,
           r \notin Unlabelled /\ from[r] \notin dead' => Reply(r)'
    PROVE  Replies'
<1>0. rpc' = [rpc EXCEPT ![r] = pc] /\ rpc \in [Requests -> RequestPcs]
  BY DEF Goto, TypeInv, TypeOK, HandlersType
<1>1. ASSUME NEW s \in Requests \ Unlabelled, from'[s] \notin dead' PROVE Reply(s)'
  <2>1. from[s] \notin dead /\ from' = from /\ answered \subseteq answered'
    BY <1>1, Kept
  <2>2. CASE s = r
    BY <1>1, <2>1, <2>2
  <2>3. CASE s # r
    <3>1. Reply(s) /\ rpc'[s] = rpc[s]
      BY <1>0, <2>1, <2>3 DEF Replies
    <3>2. rpc[s] # "new" => (Replied(s) => Replied(s)')
          /\ (s \in answered \/ InHand(s) => s \in answered' \/ InHand(s)')
      BY <1>1, <2>1, RepliedStays
    <3> QED BY <2>1, <2>3, <3>1, <3>2 DEF Reply
  <2> QED BY <2>2, <2>3
<1>2. \A s \in Requests : rpc'[s] = "dispatch" => request' = s
  BY <1>0 DEF Replies
<1> QED BY <1>1, <1>2 DEF Replies

(* The handlers of requests that commit or change nothing any more. *)
LEMMA EndReplies ==
    ASSUME TypeInv, Roster, Replies, [Next]_vars, NEW r \in Requests,
           \A s \in Requests \ {r} : rpc[s] # "dispatch",
           \/ RefuseMessage(r) \/ Dispatch(r) \/ DispatchRejected(r)
              \/ DispatchStepRejected(r)
           \/ DispatchError(r) \/ RequestDone(r) \/ RejectReply(r) \/ Resync(r)
    PROVE  Replies'
<1>0. rpc \in [Requests -> RequestPcs] /\ from' = from /\ dead \subseteq dead'
      /\ answered \subseteq answered'
  BY Kept DEF TypeInv, TypeOK, HandlersType
<1>1. ASSUME NEW pc, Goto(r, pc), pc = "dispatch" => request' = r,
             r \notin Unlabelled /\ from[r] \notin dead' => Reply(r)'
      PROVE  Replies'
  BY <1>1, MovedReplies
<1>2. ASSUME NEW pc, Goto(r, pc) PROVE rpc'[r] = pc
  BY <1>0, <1>2 DEF Goto
<1>3. CASE RefuseMessage(r)
  <2>1. Goto(r, "done")
        /\ (r \notin Unlabelled /\ from[r] \notin dead' => r \in answered')
    BY <1>0, <1>3, SessionAssumption DEF RefuseMessage, SendError, Ref
  <2> QED BY <1>1, <1>2, <2>1 DEF Reply
<1>4. CASE Dispatch(r)
  <2>1. Goto(r, "dispatch") /\ request' = r /\ ~queued' /\ from[r] \notin awaiting'
    BY <1>4 DEF Dispatch, tables
  <2> QED BY <1>0, <1>1, <1>2, <2>1 DEF Reply
<1>5. CASE DispatchRejected(r) \/ DispatchStepRejected(r)
  <2>1. PICK pc \in {"reject", "rejectStep"} : Goto(r, pc)
    BY <1>5 DEF DispatchRejected, DispatchStepRejected
  <2> QED BY <1>1, <1>2, <2>1 DEF Reply
<1>6. CASE DispatchError(r)
  <2>1. Goto(r, "done")
        /\ (r \notin Unlabelled /\ from[r] \notin dead' => r \in answered')
    BY <1>0, <1>6, SessionAssumption DEF DispatchError, SendError, Ref
  <2> QED BY <1>1, <1>2, <2>1 DEF Reply
<1>7. CASE RequestDone(r)
  <2>1. /\ Goto(r, "done") /\ rpc[r] = "ok" /\ pending = <<>>
        /\ UNCHANGED <<buffer, answered>>
    BY <1>7 DEF RequestDone, FlushOver, seen
  <2>2. r \notin Unlabelled /\ from[r] \notin dead' => r \in answered \/ InHand(r)
    BY <1>0, <2>1 DEF Replies, Reply, Replied, QueuedFor
  <2>3. r \in answered \/ InHand(r) => r \in answered' \/ InHand(r)'
    BY <1>0, <2>1 DEF InHand
  <2> QED BY <1>1, <1>2, <2>1, <2>2, <2>3 DEF Reply
<1>8. CASE RejectReply(r)
  <2>1. PICK pc \in {"resync", "done"} : Goto(r, pc)
    BY <1>8 DEF RejectReply
  <2>2. r \notin Unlabelled /\ from[r] \notin dead' => r \in answered'
    BY <1>0, <1>8, SessionAssumption DEF RejectReply, SendError, Ref
  <2> QED BY <1>1, <1>2, <2>1, <2>2 DEF Reply
<1>9. CASE Resync(r)
  <2>1. Goto(r, "done") /\ rpc[r] = "resync"
    BY <1>9 DEF Resync
  <2>2. r \notin Unlabelled /\ from[r] \notin dead' => r \in answered'
    BY <1>0, <2>1 DEF Replies, Reply
  <2> QED BY <1>1, <1>2, <2>1, <2>2 DEF Reply
<1> QED BY <1>3, <1>4, <1>5, <1>6, <1>7, <1>8, <1>9

LEMMA ScopeReplies ==
    ASSUME TypeInv, Roster, Replies, [Next]_vars, NEW r \in Requests,
           \A s \in Requests \ {r} : rpc[s] # "dispatch",
           \/ ScopeIgnored(r) \/ ScopeReceive(r) \/ ScopeEnter(r) \/ ScopeGone(r)
              \/ ScopeFirst(r)
           \/ ScopeLock(r) \/ ScopePromote(r) \/ ScopeDone(r)
    PROVE  Replies'
<1>0. rpc \in [Requests -> RequestPcs] /\ from' = from /\ dead \subseteq dead'
      /\ answered \subseteq answered'
  BY Kept DEF TypeInv, TypeOK, HandlersType
<1>1. ASSUME NEW pc, Goto(r, pc), pc # "dispatch",
             r \notin Unlabelled /\ from[r] \notin dead' => Reply(r)'
      PROVE  Replies'
  BY <1>1, MovedReplies
<1>2. ASSUME NEW pc, Goto(r, pc) PROVE rpc'[r] = pc
  BY <1>0, <1>2 DEF Goto
<1>3. ASSUME conn[from[r]] \notin {"new", "hello"}, ~Knows(from[r])
      PROVE  from[r] \in dead'
  BY <1>0, <1>3 DEF Roster, Enrolled, Registered, Knows, TypeInv, TypeOK, StillType
<1>4. rpc[r] # "new" => conn[from[r]] \notin {"new", "hello"}
  BY DEF Roster, Heard
<1>5. CASE ScopeIgnored(r)
  <2>1. Goto(r, "done") /\ from[r] \in dead'
    BY <1>3, <1>5 DEF ScopeIgnored, Receive
  <2> QED BY <1>1, <2>1
<1>6. CASE ScopeReceive(r)
  <2>1. Goto(r, "scopeLock")
    BY <1>6 DEF ScopeReceive
  <2> QED BY <1>1, <1>2, <2>1 DEF Reply
<1>7. CASE ScopeEnter(r)
  <2>1. CASE ~Knows(from[r]) /\ Goto(r, "done")
    BY <1>1, <1>3, <1>4, <1>7, <2>1 DEF ScopeEnter
  <2>2. CASE SendError(r) /\ Goto(r, "done")
    <3>1. r \notin Unlabelled /\ from[r] \notin dead' => r \in answered'
      BY <1>0, <2>2, SessionAssumption DEF SendError, Ref
    <3> QED BY <1>1, <1>2, <2>2, <3>1 DEF Reply
  <2>3. CASE Goto(r, "scopeFlush")
    BY <1>1, <1>2, <2>3 DEF Reply
  <2> QED BY <1>7, <2>1, <2>2, <2>3 DEF ScopeEnter
<1>8. CASE ScopeGone(r)
  <2>1. Goto(r, "done") /\ from[r] \in dead'
    BY <1>3, <1>4, <1>8 DEF ScopeGone
  <2> QED BY <1>1, <2>1
<1>9. CASE ScopeFirst(r)
  <2>1. PICK pc \in {"scopeSent", "done"} : Goto(r, pc)
    BY <1>9 DEF ScopeFirst
  <2>2. r \notin Unlabelled /\ from[r] \notin dead' => r \in answered'
    BY <1>0, <1>9, SessionAssumption DEF ScopeFirst, Ref
  <2> QED BY <1>1, <1>2, <2>1, <2>2 DEF Reply
<1>10. CASE ScopeLock(r) \/ ScopePromote(r)
  <2>1. PICK pc \in {"scopePromote", "scopeDrain", "done"} : Goto(r, pc)
        /\ rpc[r] \in {"scopeSent", "scopePromote"}
    BY <1>10 DEF ScopeLock, ScopePromote
  <2>2. r \notin Unlabelled /\ from[r] \notin dead' => r \in answered'
    BY <1>0, <2>1 DEF Replies, Reply
  <2> QED BY <1>1, <1>2, <2>1, <2>2 DEF Reply
<1>11. CASE ScopeDone(r)
  <2>1. /\ Goto(r, "done") /\ UNCHANGED <<buffer, answered>>
        /\ (rpc[r] = "ackFlush" /\ pending = <<>>) \/ rpc[r] = "scopeDrain"
    BY <1>11 DEF ScopeDone, FlushOver, seen
  <2>2. r \notin Unlabelled /\ from[r] \notin dead' => r \in answered \/ InHand(r)
    BY <1>0, <2>1 DEF Replies, Reply, Replied, QueuedFor
  <2>3. r \in answered \/ InHand(r) => r \in answered' \/ InHand(r)'
    BY <1>0, <2>1 DEF InHand
  <2> QED BY <1>1, <1>2, <2>1, <2>2, <2>3 DEF Reply
<1> QED BY <1>5, <1>6, <1>7, <1>8, <1>9, <1>10, <1>11

(* The answer, or the delta of a view, is queued. *)
LEMMA QueueReplies ==
    ASSUME TypeInv, Roster, Replies, [Next]_vars, NEW r \in Requests,
           \A s \in Requests \ {r} : rpc[s] # "dispatch",
           DispatchOk(r) \/ ScopeChange(r)
    PROVE  Replies'
<1>0. /\ rpc \in [Requests -> RequestPcs] /\ from' = from /\ dead \subseteq dead'
      /\ pending \in Seq(Entry) /\ from[r] \in Clients /\ sending' = sending
         /\ TypeOK
      /\ sending => pending # <<>>
  BY Kept
     DEF TypeInv, TypeOK, HandlersType, QueueType, StillType, SendingHead,
         DispatchOk, ScopeChange
<1>1. PICK pc \in {"ok", "ackFlush"} : Goto(r, pc) /\ rpc'[r] = pc
  BY <1>0 DEF DispatchOk, ScopeChange, Goto
<1>2. ASSUME r \notin Unlabelled, from[r] \notin dead' PROVE Replied(r)'
  <2>1. CASE UNCHANGED pending
    <3>1. DispatchOk(r) /\ queued
      <4>1. pending # Append(pending, [msg |-> Answer(Ref(r)), to |-> {from[r]}])
        BY <1>0, FrameType, AppendElements DEF Entry
      <4>2. pending # Append(pending, [msg |-> ScopeAck(Ref(r), view[from[r]] + 1), to |-> {from[r]}])
        BY <1>0, AppendElements
      <4> QED BY <1>2, <2>1, <4>1, <4>2 DEF DispatchOk, ScopeChange
    <3>2. rpc[r] = "dispatch"
      BY <3>1, SessionAssumption DEF DispatchOk, EndDispatch, Roster
    <3>3. Replied(r)
      BY <1>0, <1>2, <3>1, <3>2 DEF Replies, Reply
    <3> QED BY <1>0, <1>2, <3>2, <3>3, RepliedStays
  <2>2. CASE \E e \in Entry : e.msg.ref = r /\ e.to = {from[r]}
             /\ pending' = Append(pending, e)
    <3>1. PICK e \in Entry : e.msg.ref = r /\ e.to = {from[r]}
          /\ pending' = Append(pending, e)
      BY <2>2
    <3>2. /\ Len(pending) \in Nat /\ Len(pending) + 1 \in DOMAIN pending'
          /\ pending'[Len(pending) + 1] = e /\ (sending => Len(pending) # 0)
      BY <1>0, <3>1, AppendElements, EmptySeq
    <3>3. Len(pending) + 1 \in QueuedFor(from[r])'
      BY <1>0, <3>1, <3>2 DEF QueuedFor
    <3> QED BY <3>1, <3>2, <3>3 DEF Replied
  <2>3. Ref(r) = r /\ view[from[r]] + 1 \in Nat /\ r \in Requests \cup {NoRequest}
    <3>1. view[from[r]] \in Nat
      BY <1>0 DEF TypeOK, TablesType
    <3> QED BY <1>2, <3>1 DEF Ref
  <2>4. /\ [msg |-> Answer(r), to |-> {from[r]}] \in Entry
        /\ Answer(r).ref = r
    BY <1>0, <2>3, FrameType DEF Entry, Answer
  <2>5. /\ [msg |-> ScopeAck(r, view[from[r]] + 1), to |-> {from[r]}] \in Entry
        /\ ScopeAck(r, view[from[r]] + 1).ref = r
    <3>1. ScopeAck(r, view[from[r]] + 1) \in Message
      BY <1>0, <2>3, FrameType
    <3> QED BY <1>0, <3>1 DEF Entry, ScopeAck
  <2> QED BY <2>1, <2>2, <2>3, <2>4, <2>5 DEF DispatchOk, ScopeChange
<1> QED BY <1>0, <1>1, <1>2, MovedReplies DEF Reply

LEMMA NextReplies ==
    ASSUME TypeInv, Roster, Replies, [Next]_vars
    PROVE  Replies'
<1>1. CASE UNCHANGED vars
  BY <1>1, StillReplies DEF vars, still, tables
<1>2. CASE LoopNext
  <2>0. \A s \in Requests : rpc[s] # "dispatch"
    BY <1>2, SessionAssumption DEF LoopNext, Idle, Replies
  <2>1. CASE FlushNext \/ SettledNext
    <3>1. UNCHANGED rpc
      BY <2>1
         DEF FlushNext, BeginBroadcast, EndBroadcast, BroadcastTo, TaskStart,
             TaskDone,
         SettledNext, SettledCall, SettledFlush, SettledReturn, SettledCancel,
            CancelFlush
    <3> QED BY <2>0, <3>1, StillReplies
  <2>2. ASSUME NEW c \in Clients, ConnectNext(c) \/ ConnectStart(c)
               \/ ConnectionLost(c) \/ Disconnect(c)
        PROVE  Replies'
    <3>1. UNCHANGED rpc
      BY <2>2
         DEF ConnectNext, ConnectPartial, ConnectWhole, ConnectSnapshot,
             ConnectLock, ConnectPromote,
         ConnectDrain, DrainStep, ConnectDone, ConnectStart, ConnectionLost,
            Disconnect
    <3> QED BY <2>0, <3>1, StillReplies
  <2>3. ASSUME NEW q \in Projections, HostCommit(q) PROVE Replies'
    <3>1. UNCHANGED rpc
      BY <2>3 DEF HostCommit, OnDocChange
    <3> QED BY <2>0, <3>1, StillReplies
  <2>4. ASSUME NEW r \in Requests, ScopeDrain(r) PROVE Replies'
    <3>1. UNCHANGED rpc
      BY <2>4 DEF ScopeDrain, DrainStep
    <3> QED BY <2>0, <3>1, StillReplies
  <2> QED BY <1>2, <2>0, <2>1, <2>2, <2>3, <2>4, EndReplies, ScopeReplies,
             QueueReplies
          DEF LoopNext, EnvironmentNext, HandlerNext
<1>3. CASE DispatchNext
  <2>1. ASSUME NEW r \in Requests, EndDispatch(r)
        PROVE  \A s \in Requests \ {r} : rpc[s] # "dispatch"
    BY <2>1 DEF EndDispatch, Replies
  <2>2. ASSUME NEW r \in Requests, DispatchOk(r) \/ DispatchRejected(r)
               \/ DispatchStepRejected(r) \/ DispatchError(r)
        PROVE  Replies'
    <3>1. EndDispatch(r)
      BY <2>2 DEF DispatchOk, DispatchRejected, DispatchStepRejected, DispatchError
    <3> QED BY <2>1, <2>2, <3>1, EndReplies, QueueReplies
  <2> QED BY <1>3, <2>2, CommitReply DEF DispatchNext
<1> QED BY <1>1, <1>2, <1>3 DEF Next

(* A request that carries a ref has been answered when its handler ends,   *)
(* or its answer waits in the handshake buffer of its client.              *)
THEOREM AllAnswered == Spec => []Answered
<1>1. Replies => Answered
  BY DEF Replies, Reply, InHand, Answered
<1>2. TypeInv /\ Roster /\ Replies /\ [Next]_vars => TypeInv' /\ Roster' /\ Replies'
  BY NextTypeInv, NextRoster, NextReplies
<1> QED
  BY <1>1, <1>2, InitTypeInv, InitRoster, InitReplies, PTL DEF Spec

-----------------------------------------------------------------------------
(* The views patches are projected onto, with a transport that runs one    *)
(* callback of a client at a time.                                         *)

(* A request is served on an open connection, by itself; *)
Alone ==
    /\ \A r \in Requests : Active(r) => conn[from[r]] = "open"
    /\ \A r, s \in Requests : Active(r) /\ Active(s) /\ from[r] = from[s] => r = s

(* one that asks for a scope comes from a client that is past its          *)
(* handshake, or that has not set a scope before;                          *)
Entered ==
    \A r \in Requests :
        rpc[r] = "scopeFlush" /\ from[r] \in Registered => from[r] \in clients \cup awaiting

(* a connection starts without a view. *)
Unheld == \A c \in Clients : conn[c] \in {"new", "hello"} => held[c] = 0

(* A delta is queued for a client that is connected, and whose request is  *)
(* still being served.                                                     *)
AckFor(c, i) == c \in pending[i].to /\ pending[i].msg.kind = "ack"
Changing(c)  == \E r \in Requests : from[r] = c /\ rpc[r] = "ackFlush"
Deltas ==
    \A i \in DOMAIN pending : \A c \in Clients :
        AckFor(c, i) => Changing(c) /\ c \notin connecting

Turns == Alone /\ Entered /\ Unheld /\ Deltas

(* m is for a client that holds the view e. *)
Fits(c, m, e) == m.kind = "patch" /\ m.version > resyncAt[c] => m.view = e

(* What waits in its buffer is for the view the client holds; *)
BufferFits(c) ==
    \A i \in DOMAIN buffer[c] :
        buffer[c][i].kind # "ack" /\ Fits(c, buffer[c][i], held[c])
(* what is queued is for that, too, or behind a delta for the view that    *)
(* this one leads to, which is the one the session has of the client.      *)
QueueFits(c) ==
    \A i \in DOMAIN pending : c \in pending[i].to =>
        /\ pending[i].msg.kind = "ack" => pending[i].msg.view = view[c]
        /\ (\A j \in 1..(i - 1) : ~AckFor(c, j)) => Fits(c, pending[i].msg, held[c])
        /\ (\E j \in 1..(i - 1) : AckFor(c, j)) => Fits(c, pending[i].msg, view[c])
(* The two views are the same when no delta is queued, and when the only   *)
(* one has been sent.                                                      *)
NoDelta(c)   == (\A i \in DOMAIN pending : ~AckFor(c, i)) => held[c] = view[c]
DeltaSent(c) == sending /\ AckFor(c, 1) /\ c \notin todo => held[c] = view[c]

Abreast(c) == BufferFits(c) /\ QueueFits(c) /\ NoDelta(c) /\ DeltaSent(c)

ViewInv == OrderInv /\ Turns /\ \A c \in Registered \ dead : Abreast(c)

-----------------------------------------------------------------------------
(* What a step may do to a handler, to the tables and to a view.           *)

(* One handler moves at a time, and a request that starts is handed over.  *)
LEMMA OneMoves ==
    ASSUME TypeInv, Roster, [Next]_vars
    PROVE  \/ rpc' = rpc
           \/ \E r \in Requests : /\ Active(r) \/ Receive(r)
                                  /\ \A s \in Requests \ {r} : rpc'[s] = rpc[s]
<1>0. rpc \in [Requests -> RequestPcs] /\ (request # NoRequest => rpc[request] = "dispatch")
  BY DEF TypeInv, TypeOK, HandlersType, Roster
<1>1. CASE UNCHANGED vars
  BY <1>1 DEF vars
<1>2. CASE FlushNext \/ SettledNext
  BY <1>2
     DEF FlushNext, SettledNext, BeginBroadcast, BroadcastTo, EndBroadcast, TaskStart,
         TaskDone, SettledCall, SettledFlush, SettledReturn, SettledCancel, CancelFlush
<1>3. ASSUME NEW q \in Projections, HostCommit(q) \/ RequestCommit(q) PROVE rpc' = rpc
  BY <1>3 DEF HostCommit, RequestCommit, OnDocChange
<1>4. ASSUME NEW c \in Clients,
             ConnectStart(c) \/ ConnectionLost(c) \/ Disconnect(c) \/ ConnectNext(c)
      PROVE  rpc' = rpc
  BY <1>4
     DEF ConnectStart, ConnectionLost, Disconnect, ConnectNext, ConnectPartial,
         ConnectWhole, ConnectSnapshot, ConnectLock, ConnectPromote, ConnectDrain,
         DrainStep, ConnectDone
<1>5. ASSUME NEW r \in Requests, NEW pc, Goto(r, pc)
      PROVE  \A s \in Requests \ {r} : rpc'[s] = rpc[s]
  BY <1>0, <1>5 DEF Goto
<1>6. ASSUME NEW r \in Requests,
             RefuseMessage(r) \/ Dispatch(r) \/ ScopeIgnored(r) \/ ScopeReceive(r)
      PROVE  Receive(r) /\ \A s \in Requests \ {r} : rpc'[s] = rpc[s]
  BY <1>5, <1>6 DEF RefuseMessage, Dispatch, ScopeIgnored, ScopeReceive
<1>7. ASSUME NEW r \in Requests,
             DispatchOk(r) \/ DispatchRejected(r) \/ DispatchStepRejected(r) \/ DispatchError(r)
      PROVE  Active(r) /\ \A s \in Requests \ {r} : rpc'[s] = rpc[s]
  <2>1. Active(r)
    BY <1>0, <1>7
       DEF DispatchOk, DispatchRejected, DispatchStepRejected, DispatchError, EndDispatch,
           Active
  <2> QED
    BY <1>5, <1>7, <2>1
       DEF DispatchOk, DispatchRejected, DispatchStepRejected, DispatchError
<1>8. ASSUME NEW r \in Requests, HandlerNext(r)
      PROVE  Active(r) /\ \A s \in Requests \ {r} : rpc'[s] = rpc[s]
  <2>1. CASE ScopeDrain(r)
    BY <2>1 DEF ScopeDrain, DrainStep, Active
  <2>2. CASE RequestDone(r) \/ RejectReply(r) \/ Resync(r) \/ ScopeEnter(r)
    BY <1>5, <2>2 DEF RequestDone, RejectReply, Resync, ScopeEnter, Active
  <2>3. CASE ScopeGone(r) \/ ScopeFirst(r) \/ ScopeLock(r) \/ ScopePromote(r)
             \/ ScopeChange(r) \/ ScopeDone(r)
    BY <1>5, <2>3
       DEF ScopeGone, ScopeFirst, ScopeLock, ScopePromote, ScopeChange, ScopeDone, Active
  <2> QED BY <1>8, <2>1, <2>2, <2>3 DEF HandlerNext
<1> QED
  BY <1>1, <1>2, <1>3, <1>4, <1>6, <1>7, <1>8
     DEF Next, LoopNext, EnvironmentNext, DispatchNext

(* A connection does not start again, and an open one stays open. *)
LEMMA ConnMoves ==
    ASSUME TypeInv, [Next]_vars, NEW c \in Clients
    PROVE  /\ conn[c] = "open" => conn'[c] = "open"
           /\ conn'[c] \in {"new", "hello"} => conn[c] \in {"new", "hello"}
<1>0. conn \in [Clients -> ConnPcs]
  BY DEF TypeInv, TypeOK, HandlersType
<1>1. CASE UNCHANGED conn
  BY <1>1
<1>2. ASSUME NEW d \in Clients, ConnectStart(d) \/ ConnectNext(d)
      PROVE  /\ conn[c] = "open" => conn'[c] = "open"
             /\ conn'[c] \in {"new", "hello"} => conn[c] \in {"new", "hello"}
  BY <1>0, <1>2
     DEF ConnectStart, ConnectNext, ConnectPartial, ConnectWhole, ConnectSnapshot,
         ConnectLock, ConnectPromote, ConnectDrain, DrainStep, ConnectDone
<1>3. CASE FlushNext \/ SettledNext
  BY <1>1, <1>3
     DEF FlushNext, SettledNext, BeginBroadcast, BroadcastTo, EndBroadcast, TaskStart,
         TaskDone, SettledCall, SettledFlush, SettledReturn, SettledCancel, CancelFlush
<1>4. ASSUME NEW q \in Projections, HostCommit(q) \/ RequestCommit(q) PROVE UNCHANGED conn
  BY <1>4 DEF HostCommit, RequestCommit, OnDocChange
<1>5. ASSUME NEW d \in Clients, ConnectionLost(d) \/ Disconnect(d) PROVE UNCHANGED conn
  BY <1>5 DEF ConnectionLost, Disconnect
<1>6. ASSUME NEW r \in Requests,
             \/ RefuseMessage(r) \/ Dispatch(r) \/ ScopeIgnored(r) \/ ScopeReceive(r)
             \/ DispatchOk(r) \/ DispatchRejected(r) \/ DispatchStepRejected(r)
                \/ DispatchError(r)
             \/ HandlerNext(r)
      PROVE  UNCHANGED conn
  <2>1. CASE HandlerNext(r)
    BY <2>1
       DEF HandlerNext, RequestDone, RejectReply, Resync, ScopeEnter, ScopeGone,
           ScopeFirst, ScopeLock, ScopePromote, ScopeDrain, DrainStep, ScopeChange,
           ScopeDone
  <2>2. CASE ~HandlerNext(r)
    BY <1>6, <2>2
       DEF RefuseMessage, Dispatch, ScopeIgnored, ScopeReceive, DispatchOk,
           DispatchRejected, DispatchStepRejected, DispatchError
  <2> QED BY <2>1, <2>2
<1>7. CASE UNCHANGED vars
  BY <1>1, <1>7 DEF vars
<1> QED
  BY <1>1, <1>2, <1>3, <1>4, <1>5, <1>6, <1>7
     DEF Next, LoopNext, EnvironmentNext, DispatchNext

(* A request that waits for its flush goes on once the queue is empty, and *)
(* comes to wait only from a client that is past its handshake.            *)
LEMMA ScopeMoves ==
    ASSUME TypeInv, Roster, [Next]_vars, NEW r \in Requests
    PROVE  /\ rpc[r] = "ackFlush" => rpc'[r] = "ackFlush" \/ pending' = <<>>
           /\ rpc'[r] = "scopeFlush" =>
                 \/ rpc[r] = "scopeFlush" /\ ~ScopeFirst(r)
                 \/ from[r] \in clients \cup awaiting /\ UNCHANGED tables
<1>0. rpc \in [Requests -> RequestPcs] /\ (request # NoRequest => rpc[request] = "dispatch")
  BY DEF TypeInv, TypeOK, HandlersType, Roster
<1>1. CASE rpc' = rpc
  <2>1. ~ScopeFirst(r)
    BY <1>0, <1>1 DEF ScopeFirst, Goto
  <2> QED BY <1>1, <2>1
<1>2. ASSUME NEW s \in Requests, HandlerNext(s)
      PROVE  /\ rpc[r] = "ackFlush" => rpc'[r] = "ackFlush" \/ pending' = <<>>
             /\ rpc'[r] = "scopeFlush" =>
                   \/ rpc[r] = "scopeFlush" /\ ~ScopeFirst(r)
                   \/ from[r] \in clients \cup awaiting /\ UNCHANGED tables
  <2>1. rpc'[r] = "scopeFlush" => ~ScopeFirst(r)
    BY <1>0 DEF ScopeFirst, Goto
  <2>2. CASE ScopeDone(s)
    BY <1>0, <2>1, <2>2 DEF ScopeDone, FlushOver, Goto, queue
  <2>3. CASE ScopeEnter(s)
    BY <1>0, <2>1, <2>3 DEF ScopeEnter, Goto
  <2>4. CASE ScopeDrain(s)
    BY <2>1, <2>4 DEF ScopeDrain, DrainStep
  <2>5. CASE RequestDone(s) \/ RejectReply(s) \/ Resync(s)
    BY <1>0, <2>1, <2>5 DEF RequestDone, RejectReply, Resync, Goto
  <2>6. CASE ScopeGone(s) \/ ScopeFirst(s) \/ ScopeLock(s) \/ ScopePromote(s)
             \/ ScopeChange(s)
    BY <1>0, <2>1, <2>6
       DEF ScopeGone, ScopeFirst, ScopeLock, ScopePromote, ScopeChange, Goto
  <2> QED BY <1>2, <2>2, <2>3, <2>4, <2>5, <2>6 DEF HandlerNext
<1>3. ASSUME NEW s \in Requests,
             \/ RefuseMessage(s) \/ Dispatch(s) \/ ScopeIgnored(s) \/ ScopeReceive(s)
             \/ DispatchOk(s) \/ DispatchRejected(s) \/ DispatchStepRejected(s)
                \/ DispatchError(s)
      PROVE  /\ rpc[r] = "ackFlush" => rpc'[r] = "ackFlush"
             /\ rpc'[r] = "scopeFlush" => rpc[r] = "scopeFlush" /\ ~ScopeFirst(r)
  <2>1. rpc[s] \in {"new", "dispatch"}
    BY <1>0, <1>3
       DEF RefuseMessage, Dispatch, ScopeIgnored, ScopeReceive, Receive, DispatchOk,
           DispatchRejected, DispatchStepRejected, DispatchError, EndDispatch
  <2>2. PICK pc \in {"done", "dispatch", "scopeLock", "ok", "reject", "rejectStep"} : Goto(s, pc)
    BY <1>3
       DEF RefuseMessage, Dispatch, ScopeIgnored, ScopeReceive, DispatchOk,
           DispatchRejected, DispatchStepRejected, DispatchError
  <2>3. rpc'[r] = "scopeFlush" => ~ScopeFirst(r)
    BY <1>0 DEF ScopeFirst, Goto
  <2> QED BY <1>0, <2>1, <2>2, <2>3 DEF Goto
<1>4. CASE FlushNext \/ SettledNext
  BY <1>1, <1>4
     DEF FlushNext, SettledNext, BeginBroadcast, BroadcastTo, EndBroadcast, TaskStart,
         TaskDone, SettledCall, SettledFlush, SettledReturn, SettledCancel, CancelFlush
<1>5. ASSUME NEW q \in Projections, HostCommit(q) \/ RequestCommit(q) PROVE rpc' = rpc
  BY <1>5 DEF HostCommit, RequestCommit, OnDocChange
<1>6. ASSUME NEW c \in Clients,
             ConnectStart(c) \/ ConnectionLost(c) \/ Disconnect(c) \/ ConnectNext(c)
      PROVE  rpc' = rpc
  BY <1>6
     DEF ConnectStart, ConnectionLost, Disconnect, ConnectNext, ConnectPartial,
         ConnectWhole, ConnectSnapshot, ConnectLock, ConnectPromote, ConnectDrain,
         DrainStep, ConnectDone
<1>7. CASE UNCHANGED vars
  BY <1>1, <1>7 DEF vars
<1> QED
  BY <1>1, <1>2, <1>3, <1>4, <1>5, <1>6, <1>7
     DEF Next, LoopNext, EnvironmentNext, DispatchNext

(* The tables a client that stays is in. *)
LEMMA TableMoves ==
    ASSUME TypeInv, Roster, [Next]_vars, NEW c \in Clients, c \in Registered'
    PROVE  /\ c \in Registered \/ conn[c] = "hello"
           /\ c \in clients => c \in clients'
           /\ c \in awaiting =>
                 c \in awaiting' \/ \E r \in Requests : from[r] = c /\ ScopeFirst(r)
           /\ c \in connecting' => c \in connecting \/ conn[c] = "hello"
<1> USE DEF Registered, tables, Forget
<1>0. \A r \in Requests : from[r] \in Clients
  BY DEF TypeInv, TypeOK, StillType
<1>1. CASE UNCHANGED <<clients, connecting, awaiting>>
  BY <1>1
<1>2. ASSUME NEW d \in Clients, NEW m, SafeSend(d, m)
      PROVE  /\ c \in Registered /\ (c \in clients => c \in clients')
             /\ c \in awaiting => c \in awaiting'
             /\ c \in connecting' => c \in connecting
  BY <1>2 DEF SafeSend
<1>3. CASE FlushNext \/ SettledNext
  BY <1>1, <1>2, <1>3
     DEF FlushNext, SettledNext, BeginBroadcast, BroadcastTo, EndBroadcast, TaskStart,
         TaskDone, SettledCall, SettledFlush, SettledReturn, SettledCancel, CancelFlush
<1>4. ASSUME NEW q \in Projections, HostCommit(q) \/ RequestCommit(q)
      PROVE  UNCHANGED <<clients, connecting, awaiting>>
  BY <1>4 DEF HostCommit, RequestCommit, OnDocChange
<1>5. ASSUME NEW d \in Clients, ConnectionLost(d) \/ Disconnect(d) \/ ConnectStart(d)
      PROVE  /\ c \in Registered /\ (c \in clients => c \in clients')
             /\ c \in awaiting => c \in awaiting'
             /\ c \in connecting' => c \in connecting
  BY <1>5 DEF ConnectionLost, Disconnect, ConnectStart
<1>6. ASSUME NEW d \in Clients, ConnectNext(d)
      PROVE  /\ c \in Registered \/ conn[c] = "hello"
             /\ c \in clients => c \in clients'
             /\ c \in awaiting => c \in awaiting'
             /\ c \in connecting' => c \in connecting \/ conn[c] = "hello"
  <2>1. CASE ConnectPartial(d) \/ ConnectWhole(d)
    BY <1>6, <2>1 DEF ConnectPartial, ConnectWhole
  <2>2. CASE ConnectDrain(d)
    BY <1>2, <2>2 DEF ConnectDrain, DrainStep
  <2>3. CASE ConnectSnapshot(d) \/ ConnectLock(d) \/ ConnectPromote(d) \/ ConnectDone(d)
    BY <2>3 DEF ConnectSnapshot, ConnectLock, ConnectPromote, Promote, ConnectDone
  <2> QED BY <1>6, <2>1, <2>2, <2>3 DEF ConnectNext
<1>7. ASSUME NEW r \in Requests, HandlerNext(r)
      PROVE  /\ c \in Registered /\ (c \in clients => c \in clients')
             /\ c \in awaiting => c \in awaiting' \/ (from[r] = c /\ ScopeFirst(r))
             /\ c \in connecting' => c \in connecting
  <2>1. CASE ScopeDrain(r)
    BY <1>0, <1>2, <2>1 DEF ScopeDrain, DrainStep
  <2>2. CASE ScopeFirst(r)
    BY <1>0, <2>2 DEF ScopeFirst
  <2>3. CASE ~ScopeDrain(r) /\ ~ScopeFirst(r)
    BY <1>0, <1>7, <2>3
       DEF HandlerNext, RequestDone, RejectReply, Resync, ScopeEnter, ScopeGone,
           ScopeLock, ScopePromote, Promote, ScopeChange, ScopeDone
  <2> QED BY <2>1, <2>2, <2>3
<1>8. ASSUME NEW r \in Requests,
             \/ RefuseMessage(r) \/ Dispatch(r) \/ ScopeIgnored(r) \/ ScopeReceive(r)
             \/ DispatchOk(r) \/ DispatchRejected(r) \/ DispatchStepRejected(r)
                \/ DispatchError(r)
      PROVE  UNCHANGED <<clients, connecting, awaiting>>
  BY <1>8
     DEF RefuseMessage, Dispatch, ScopeIgnored, ScopeReceive, DispatchOk,
         DispatchRejected, DispatchStepRejected, DispatchError
<1>9. CASE UNCHANGED vars
  BY <1>1, <1>9 DEF vars
<1> QED
  BY <1>1, <1>3, <1>4, <1>5, <1>6, <1>7, <1>8, <1>9
     DEF Next, LoopNext, EnvironmentNext, DispatchNext

(* The view of a client that stays changes with its scope or with the      *)
(* snapshot of a rejection, and what the client holds with what it is      *)
(* sent.                                                                   *)
Resend(r) == Resync(r) \/ ScopeFirst(r)

LEMMA ViewMoves ==
    ASSUME TypeInv, [Next]_vars
    PROVE  /\ dead \subseteq dead' /\ from' = from
           /\ \A c \in Registered' \cap Clients :
                 view'[c] = view[c] \/ \E r \in Requests : Resend(r) \/ ScopeChange(r)
           /\ \/ held' = held
              \/ \E r \in Requests : Resend(r) \/ ScopeDrain(r)
              \/ \E c \in Clients : BroadcastTo(c) \/ ConnectDrain(c)
<1> USE DEF Registered, tables, seen, Resend
<1>0. view \in [Clients -> Nat] /\ \A r \in Requests : from[r] \in Clients
  BY DEF TypeInv, TypeOK, TablesType, StillType
<1>a. ASSUME NEW d \in Clients, Forget(d)
      PROVE  \A c \in Registered' \cap Clients : view'[c] = view[c]
  BY <1>0, <1>a DEF Forget
<1>b. ASSUME NEW d \in Clients, NEW m, SafeSend(d, m)
      PROVE  \A c \in Registered' \cap Clients : view'[c] = view[c]
  BY <1>a, <1>b DEF SafeSend
<1>1. dead \subseteq dead' /\ from' = from
  BY Kept
<1>2. CASE UNCHANGED vars
  BY <1>1, <1>2 DEF vars
<1>3. CASE FlushNext \/ SettledNext
  <2>1. ASSUME NEW c \in Clients, BroadcastTo(c)
        PROVE  \A d \in Registered' \cap Clients : view'[d] = view[d]
    BY <1>b, <2>1 DEF BroadcastTo
  <2>2. (\E c \in Clients : BroadcastTo(c)) \/ (held' = held /\ view' = view)
    BY <1>3
       DEF FlushNext, SettledNext, BeginBroadcast, EndBroadcast, TaskStart,
           TaskDone, SettledCall, SettledFlush, SettledReturn, SettledCancel, CancelFlush
  <2> QED BY <1>1, <2>1, <2>2
<1>4. ASSUME NEW q \in Projections, HostCommit(q) \/ RequestCommit(q)
      PROVE  view' = view /\ held' = held
  BY <1>4 DEF HostCommit, RequestCommit, OnDocChange
<1>5. ASSUME NEW c \in Clients, ConnectionLost(c) \/ Disconnect(c) \/ ConnectStart(c)
      PROVE  held' = held /\ \A d \in Registered' \cap Clients : view'[d] = view[d]
  BY <1>a, <1>5 DEF ConnectionLost, Disconnect, ConnectStart
<1>6. ASSUME NEW c \in Clients, ConnectNext(c)
      PROVE  /\ held' = held \/ ConnectDrain(c)
             /\ \A d \in Registered' \cap Clients : view'[d] = view[d]
  <2>1. CASE ConnectPartial(c) \/ ConnectWhole(c)
    BY <1>a, <2>1 DEF ConnectPartial, ConnectWhole
  <2>2. CASE ConnectDrain(c)
    BY <1>b, <2>2 DEF ConnectDrain, DrainStep
  <2>3. CASE ConnectSnapshot(c) \/ ConnectLock(c) \/ ConnectPromote(c) \/ ConnectDone(c)
    BY <2>3 DEF ConnectSnapshot, ConnectLock, ConnectPromote, Promote, ConnectDone
  <2> QED BY <1>6, <2>1, <2>2, <2>3 DEF ConnectNext
<1>7. ASSUME NEW r \in Requests, HandlerNext(r)
      PROVE  /\ held' = held \/ Resend(r) \/ ScopeDrain(r)
             /\ \A d \in Registered' \cap Clients :
                   view'[d] = view[d] \/ Resend(r) \/ ScopeChange(r)
  <2>1. CASE ScopeDrain(r)
    BY <1>0, <1>b, <2>1 DEF ScopeDrain, DrainStep
  <2>2. CASE Resend(r)
    BY <2>2
  <2>3. CASE ~ScopeDrain(r) /\ ~Resend(r)
    BY <1>7, <2>3
       DEF HandlerNext, RequestDone, RejectReply, SendError, ScopeEnter, ScopeGone,
           ScopeLock, ScopePromote, Promote, ScopeChange, ScopeDone
  <2> QED BY <2>1, <2>2, <2>3
<1>8. ASSUME NEW r \in Requests,
             \/ RefuseMessage(r) \/ Dispatch(r) \/ ScopeIgnored(r) \/ ScopeReceive(r)
             \/ DispatchOk(r) \/ DispatchRejected(r) \/ DispatchStepRejected(r)
                \/ DispatchError(r)
      PROVE  view' = view /\ held' = held
  BY <1>8
     DEF RefuseMessage, Dispatch, ScopeIgnored, ScopeReceive, DispatchOk,
         DispatchRejected, DispatchStepRejected, DispatchError, SendError
<1> QED
  BY <1>0, <1>1, <1>2, <1>3, <1>4, <1>5, <1>6, <1>7, <1>8
     DEF Next, LoopNext, EnvironmentNext, DispatchNext

-----------------------------------------------------------------------------
(* Each part of Turns is kept.                                             *)

LEMMA InitTurns == Init => Turns
<1> SUFFICES ASSUME Init PROVE Turns
  OBVIOUS
<1>1. pending = <<>> /\ \A r \in Requests : rpc[r] = "new"
  BY DEF Init
<1>2. Alone /\ Entered
  BY <1>1 DEF Alone, Entered, Active
<1>3. Unheld
  BY DEF Init, Unheld
<1>4. Deltas
  BY <1>1 DEF Deltas
<1> QED
  BY <1>2, <1>3, <1>4 DEF Turns

LEMMA NextAlone ==
    ASSUME "overlap" \notin Features, TypeInv, Roster, Alone, [Next]_vars
    PROVE  Alone'
<1>0. from' = from /\ \A r \in Requests : from[r] \in Clients
  BY Kept DEF TypeInv, TypeOK, StillType
<1>1. ASSUME NEW r \in Requests, conn[from[r]] = "open"
      PROVE  conn'[from'[r]] = "open"
  BY <1>0, <1>1, ConnMoves
<1>2. CASE rpc' = rpc
  BY <1>0, <1>1, <1>2 DEF Alone, Active
<1>3. ASSUME NEW r \in Requests, Active(r) \/ Receive(r),
             \A s \in Requests \ {r} : rpc'[s] = rpc[s]
      PROVE  Alone'
  <2>1. conn[from[r]] = "open"
        /\ \A s \in Requests : Active(s) /\ from[s] = from[r] => s = r
    <3>1. CASE Active(r)
      BY <3>1 DEF Alone
    <3>2. CASE Receive(r)
      BY <3>2 DEF Receive, Active
    <3> QED BY <1>3, <3>1, <3>2
  <2>2. \A s \in Requests \ {r} : Active(s)' <=> Active(s)
    BY <1>3 DEF Active
  <2>3. \A s \in Requests : Active(s)' => conn'[from'[s]] = "open"
    BY <1>1, <2>1, <2>2 DEF Alone
  <2>4. ASSUME NEW s \in Requests, NEW t \in Requests, Active(s)', Active(t)',
               from'[s] = from'[t]
        PROVE  s = t
    BY <1>0, <2>1, <2>2, <2>4 DEF Alone
  <2> QED BY <2>3, <2>4 DEF Alone
<1> QED
  BY <1>2, <1>3, OneMoves

LEMMA NextEntered ==
    ASSUME TypeInv, Roster, Alone, Entered, [Next]_vars
    PROVE  Entered'
<1> SUFFICES ASSUME NEW r \in Requests, rpc'[r] = "scopeFlush", from'[r] \in Registered'
             PROVE  from'[r] \in clients' \cup awaiting'
  BY DEF Entered
<1>0. from' = from /\ from[r] \in Clients
  BY Kept DEF TypeInv, TypeOK, StillType
<1>1. CASE from[r] \in clients \cup awaiting /\ UNCHANGED tables
  BY <1>0, <1>1 DEF tables
<1>2. CASE rpc[r] = "scopeFlush" /\ ~ScopeFirst(r)
  <2>1. Active(r) /\ conn[from[r]] = "open"
    BY <1>2 DEF Alone, Active
  <2>2. from[r] \in Registered
    BY <1>0, <2>1, TableMoves
  <2>3. from[r] \in clients \cup awaiting
    BY <1>2, <2>2 DEF Entered
  <2>4. CASE from[r] \in clients
    BY <1>0, <2>4, TableMoves
  <2>5. CASE from[r] \in awaiting
    <3>1. ASSUME NEW s \in Requests, from[s] = from[r], ScopeFirst(s)
          PROVE  FALSE
      <4>1. Active(s)
        BY <3>1 DEF ScopeFirst, Active
      <4> QED BY <1>2, <2>1, <3>1, <4>1 DEF Alone
    <3> QED BY <1>0, <2>5, <3>1, TableMoves
  <2> QED BY <2>3, <2>4, <2>5
<1> QED
  BY <1>1, <1>2, ScopeMoves

(* Nothing is sent to a connection that has just started. *)
LEMMA NextUnheld ==
    ASSUME TypeInv, Roster, SentTo, Unheld, [Next]_vars
    PROVE  Unheld'
<1> SUFFICES ASSUME NEW c \in Clients, conn'[c] \in {"new", "hello"}
             PROVE  held'[c] = 0
  BY DEF Unheld
<1>0. /\ conn[c] \in {"new", "hello"} /\ held[c] = 0 /\ c \notin clients
         /\ held \in [Clients -> Nat] /\ pending \in Seq(Entry)
      /\ \A r \in Requests : from[r] \in Clients
  BY ConnMoves
     DEF Unheld, Roster, Enrolled, TypeInv, TypeOK, SeenType, StillType, QueueType
<1>1. CASE held' = held
  BY <1>0, <1>1
<1>2. ASSUME NEW r \in Requests, Resend(r) PROVE held'[c] = 0
  <2>1. rpc[r] # "new"
    BY <1>2 DEF Resend, Resync, ScopeFirst
  <2>2. from[r] # c
    BY <1>0, <2>1 DEF Roster, Heard
  <2> QED BY <1>0, <1>2, <2>2 DEF Resend, Resync, ScopeFirst, Forget, seen
<1>3. ASSUME NEW d \in Clients, NEW m, SafeSend(d, m), d \in dead \/ d # c
      PROVE  held'[c] = 0
  BY <1>0, <1>3 DEF SafeSend, Deliver, seen
<1>4. ASSUME NEW d \in Clients, BroadcastTo(d) PROVE held'[c] = 0
  <2>1. d \in dead \/ d \in clients
    BY <1>4 DEF BroadcastTo, SentTo
  <2>2. d \in dead \/ d # c
    BY <1>0, <2>1
  <2>3. SafeSend(d, Head(pending).msg)
    BY <1>4 DEF BroadcastTo
  <2> QED BY <1>3, <2>2, <2>3
<1>5. ASSUME NEW d \in Clients, ConnectDrain(d) PROVE held'[c] = 0
  <2>1. SafeSend(d, Head(buffer[d])) /\ conn[d] = "drain"
    BY <1>5 DEF ConnectDrain, DrainStep
  <2> QED BY <1>0, <1>3, <2>1
<1>6. ASSUME NEW r \in Requests, ScopeDrain(r) PROVE held'[c] = 0
  <2>1. SafeSend(from[r], Head(buffer[from[r]])) /\ rpc[r] = "scopeDrain"
    BY <1>6 DEF ScopeDrain, DrainStep
  <2>2. from[r] # c
    BY <1>0, <2>1 DEF Roster, Heard
  <2> QED BY <1>0, <1>3, <2>1, <2>2
<1> QED
  BY <1>1, <1>2, <1>4, <1>5, <1>6, ViewMoves

(* Nothing but a change of scope queues a delta. *)
LEMMA QueueMoves ==
    ASSUME TypeInv, [Next]_vars, NEW i \in DOMAIN pending'
    PROVE  \/ pending'[i].msg.kind # "ack"
           \/ \E j \in DOMAIN pending : pending'[i] = pending[j]
           \/ \E r \in Requests : ScopeChange(r) /\ pending'[i].to = {from[r]}
<1>0. pending \in Seq(Entry) /\ Len(pending) \in Nat /\ DOMAIN pending = 1..Len(pending)
      /\ TypeOK
  BY LenProperties DEF TypeInv, TypeOK, QueueType
<1>1. CASE pending' = pending
  BY <1>1
<1>2. ASSUME NEW q \in Projections, HostCommit(q) \/ RequestCommit(q)
      PROVE  pending'[i].msg.kind # "ack" \/ \E j \in DOMAIN pending : pending'[i] = pending[j]
  <2>1. OnDocChange(q)
    BY <1>2 DEF HostCommit, RequestCommit
  <2>2. Len(q) \in Nat /\ DOMAIN q = 1..Len(q)
    BY <1>0, ProjectionType, LenProperties
  <2>3. CASE i \in 1..Len(pending)
    BY <1>0, <2>1, <2>2, <2>3, CommitQueue
  <2>4. CASE i = Len(pending) + 1
    BY <1>0, <2>1, <2>2, <2>4, CommitQueue DEF WholeEntry, Patch
  <2>5. CASE i \in (Len(pending) + 2)..(Len(pending) + 1 + Len(q))
    <3>1. i - (Len(pending) + 1) \in DOMAIN q
          /\ pending'[i] = ScopedEntries(q)[i - (Len(pending) + 1)]
      BY <1>0, <2>1, <2>2, <2>5, CommitQueue
    <3> QED BY <3>1 DEF ScopedEntries, Patch
  <2> QED BY <1>0, <2>1, <2>2, <2>3, <2>4, <2>5, CommitQueue
<1>3. CASE EndBroadcast
  BY <1>0, <1>3, TailElements DEF EndBroadcast, TypeInv, SendingHead
<1>4. ASSUME NEW r \in Requests, DispatchOk(r), pending' # pending
      PROVE  pending'[i].msg.kind # "ack" \/ \E j \in DOMAIN pending : pending'[i] = pending[j]
  <2> DEFINE e == [msg |-> Answer(Ref(r)), to |-> {from[r]}]
  <2>1. pending' = Append(pending, e) /\ e.msg.kind = "answer"
    BY <1>4 DEF DispatchOk, Answer
  <2> HIDE DEF e
  <2>2. pending \in Seq(Entry \cup {e})
    BY <1>0, SeqMonotonic
  <2> QED BY <2>1, <2>2, AppendElements
<1>5. ASSUME NEW r \in Requests, ScopeChange(r)
      PROVE  pending'[i].to = {from[r]} \/ \E j \in DOMAIN pending : pending'[i] = pending[j]
  <2> DEFINE e == [msg |-> ScopeAck(Ref(r), view[from[r]] + 1), to |-> {from[r]}]
  <2>1. pending' = Append(pending, e) /\ e.to = {from[r]}
    BY <1>5 DEF ScopeChange
  <2> HIDE DEF e
  <2>2. pending \in Seq(Entry \cup {e})
    BY <1>0, SeqMonotonic
  <2> QED BY <2>1, <2>2, AppendElements
<1>6. CASE BeginBroadcast \/ SettledCancel
  BY <1>1, <1>6 DEF BeginBroadcast, SettledCancel, CancelFlush
<1>7. ASSUME NEW c \in Clients,
             BroadcastTo(c) \/ ConnectDrain(c) \/ ConnectPartial(c) \/ ConnectWhole(c)
      PROVE  pending' = pending
  BY <1>7
     DEF BroadcastTo, ConnectDrain, DrainStep, ConnectPartial, ConnectWhole, queue
<1>8. ASSUME NEW r \in Requests, ScopeDrain(r) \/ Resync(r) \/ ScopeFirst(r)
      PROVE  pending' = pending
  BY <1>8 DEF ScopeDrain, DrainStep, Resync, ScopeFirst, queue
<1>9. CASE Calm
  BY <1>1, <1>9 DEF Calm, queue
<1> QED
  BY <1>1, <1>2, <1>3, <1>4, <1>5, <1>6, <1>7, <1>8, <1>9, Moves

LEMMA NextDeltas ==
    ASSUME TypeInv, Roster, Alone, Entered, Deltas, [Next]_vars
    PROVE  Deltas'
<1> SUFFICES ASSUME NEW i \in DOMAIN pending', NEW c \in Clients, AckFor(c, i)'
             PROVE  Changing(c)' /\ c \notin connecting'
  BY DEF Deltas
<1>0. from' = from /\ pending' # <<>> /\ \A r \in Requests : from[r] \in Clients
  BY Kept DEF TypeInv, TypeOK, StillType
<1>1. ASSUME Changing(c), c \notin connecting
      PROVE  Changing(c)' /\ c \notin connecting'
  <2>1. PICK r \in Requests : from[r] = c /\ rpc[r] = "ackFlush"
    BY <1>1 DEF Changing
  <2>2. conn[c] = "open" /\ rpc'[r] = "ackFlush"
    BY <1>0, <2>1, ScopeMoves DEF Alone, Active
  <2>3. c \notin connecting'
    <3>1. CASE c \in Registered'
      BY <1>1, <2>2, <3>1, TableMoves
    <3>2. CASE c \notin Registered'
      BY <3>2 DEF Registered
    <3> QED BY <3>1, <3>2
  <2> QED BY <1>0, <2>1, <2>2, <2>3 DEF Changing
<1>2. ASSUME NEW j \in DOMAIN pending, pending'[i] = pending[j]
      PROVE  Changing(c)' /\ c \notin connecting'
  BY <1>1, <1>2 DEF Deltas, AckFor
<1>3. ASSUME NEW r \in Requests, ScopeChange(r), pending'[i].to = {from[r]}
      PROVE  Changing(c)' /\ c \notin connecting'
  <2>1. c = from[r]
    BY <1>3 DEF AckFor
  <2>2. rpc'[r] = "ackFlush" /\ connecting' = connecting
    BY <1>3 DEF ScopeChange, Goto, TypeInv, TypeOK, HandlersType
  <2>3. c \in clients
    BY <1>3, <2>1 DEF ScopeChange, Knows, Entered, Registered
  <2>4. c \notin connecting
    BY <2>3 DEF Roster, Enrolled
  <2> QED BY <1>0, <2>1, <2>2, <2>4 DEF Changing
<1> QED
  BY <1>2, <1>3, QueueMoves DEF AckFor

LEMMA NextTurns ==
    ASSUME "overlap" \notin Features, OrderInv, Turns, [Next]_vars
    PROVE  Turns'
<1>1. TypeInv /\ Roster /\ SentTo
  BY DEF OrderInv, LossInv
<1> QED
  BY <1>1, NextAlone, NextEntered, NextUnheld, NextDeltas DEF Turns

-----------------------------------------------------------------------------
(* A client and the session agree on its view, step by step.               *)

LEMMA InitAbreast == Init => \A c \in Registered \ dead : Abreast(c)
BY DEF Init, Registered

(* What is fitting for an unchanged client. *)
LEMMA SameFits ==
    ASSUME NEW c, held'[c] = held[c], view'[c] = view[c], resyncAt'[c] = resyncAt[c]
    PROVE  /\ \A m : Fits(c, m, held[c]) => Fits(c, m, held[c])'
           /\ \A m : Fits(c, m, view[c]) => Fits(c, m, view[c])'
BY DEF Fits

(* A step that does nothing to the client, its buffer or the queue. *)
LEMMA CalmAbreast ==
    ASSUME NEW c, Abreast(c), buffer'[c] = buffer[c], pending' = pending,
           held'[c] = held[c], view'[c] = view[c], resyncAt'[c] = resyncAt[c],
           sending' => sending /\ (c \notin todo' => c \notin todo)
    PROVE  Abreast(c)'
<1>1. BufferFits(c)'
  BY DEF Abreast, BufferFits, Fits
<1>2. \A i : AckFor(c, i)' <=> AckFor(c, i)
  BY DEF AckFor
<1>3. QueueFits(c)'
  BY <1>2 DEF Abreast, QueueFits, Fits
<1>4. NoDelta(c)' /\ DeltaSent(c)'
  BY <1>2 DEF Abreast, NoDelta, DeltaSent
<1> QED BY <1>1, <1>3, <1>4 DEF Abreast

(* A step that queues at the end what is for the client's view and is no   *)
(* delta.                                                                  *)
LEMMA GrownAbreast ==
    ASSUME NEW c, Abreast(c), UNCHANGED <<buffer, held, view, resyncAt, sending, todo>>,
           NEW n \in Nat, NEW k \in Nat, DOMAIN pending = 1..n, DOMAIN pending' = 1..(n + k),
           sending => n > 0,
           \A i \in 1..n : pending'[i] = pending[i],
           \A i \in (n + 1)..(n + k) : c \in pending'[i].to =>
               pending'[i].msg.kind # "ack" /\ Fits(c, pending'[i].msg, view[c])
    PROVE  Abreast(c)'
<1>1. BufferFits(c)'
  BY DEF Abreast, BufferFits, Fits
<1>2. \A i \in 1..n : AckFor(c, i)' <=> AckFor(c, i)
  BY DEF AckFor
<1>3. \A i \in (n + 1)..(n + k) : ~AckFor(c, i)'
  BY DEF AckFor
<1>4. NoDelta(c)'
  BY <1>2 DEF Abreast, NoDelta
<1>5. DeltaSent(c)'
  <2> SUFFICES ASSUME sending', AckFor(c, 1)', c \notin todo' PROVE held'[c] = view'[c]
    BY DEF DeltaSent
  <2>1. AckFor(c, 1)
    BY <1>2
  <2> QED BY <2>1 DEF Abreast, DeltaSent
<1>6. QueueFits(c)'
  <2> SUFFICES ASSUME NEW i \in 1..(n + k), c \in pending'[i].to
               PROVE  /\ pending'[i].msg.kind = "ack" => pending'[i].msg.view = view[c]
                      /\ (\A j \in 1..(i - 1) : ~AckFor(c, j)') => Fits(c, pending'[i].msg, held[c])
                      /\ (\E j \in 1..(i - 1) : AckFor(c, j)') => Fits(c, pending'[i].msg, view[c])
    BY DEF QueueFits, Fits
  <2>1. CASE i \in 1..n
    <3>1. \A j \in 1..(i - 1) : AckFor(c, j)' <=> AckFor(c, j)
      BY <1>2, <2>1
    <3>2. pending'[i] = pending[i] /\ i \in DOMAIN pending
      BY <2>1
    <3> QED BY <3>1, <3>2 DEF Abreast, QueueFits
  <2>2. CASE i \in (n + 1)..(n + k)
    <3>1. pending'[i].msg.kind # "ack" /\ Fits(c, pending'[i].msg, view[c])
      BY <2>2
    <3>2. ASSUME \A j \in 1..(i - 1) : ~AckFor(c, j)' PROVE held[c] = view[c]
      <4>1. \A j \in 1..n : j \in 1..(i - 1)
        BY <2>2
      <4>2. \A j \in DOMAIN pending : ~AckFor(c, j)
        BY <1>2, <3>2, <4>1
      <4> QED BY <4>2 DEF Abreast, NoDelta
    <3> QED BY <3>1, <3>2
  <2> QED BY <2>1, <2>2
<1> QED BY <1>1, <1>4, <1>5, <1>6 DEF Abreast

LEMMA CommitAbreast ==
    ASSUME TypeInv, NEW c \in Registered, Abreast(c), NEW q \in Projections,
           OnDocChange(q)
    PROVE  Abreast(c)'
<1>1. /\ UNCHANGED <<buffer, held, view, resyncAt, sending, todo>> /\ TypeOK
      /\ Len(q) \in Nat /\ DOMAIN q = 1..Len(q) /\ Len(pending) \in Nat
      /\ Len(q) + 1 \in Nat
  BY ProjectionType, LenProperties, CommitQueue DEF OnDocChange, tables, TypeInv
<1>2. /\ DOMAIN pending = 1..Len(pending) /\ DOMAIN pending' = 1..(Len(pending) + (Len(q) + 1))
      /\ \A i \in 1..Len(pending) : pending'[i] = pending[i]
      /\ sending => Len(pending) > 0
  <2>1. sending => Len(pending) > 0
    BY <1>1, EmptySeq DEF TypeInv, SendingHead, TypeOK, QueueType
  <2> QED BY <1>1, <2>1, CommitQueue
<1>3. ASSUME NEW i \in (Len(pending) + 1)..(Len(pending) + (Len(q) + 1)), c \in pending'[i].to
      PROVE  pending'[i].msg.kind # "ack" /\ Fits(c, pending'[i].msg, view[c])
  <2>1. CASE i = Len(pending) + 1
    <3>1. pending'[i] = WholeEntry
      BY <1>1, <2>1, CommitQueue
    <3> QED BY <1>3, <3>1 DEF WholeEntry, Whole, Patch, Fits
  <2>2. CASE i # Len(pending) + 1
    <3>1. i - (Len(pending) + 1) \in DOMAIN q
          /\ pending'[i] = ScopedEntries(q)[i - (Len(pending) + 1)]
      BY <1>1, <2>2, CommitQueue
    <3> QED BY <1>3, <3>1 DEF ScopedEntries, Patch, Fits
  <2> QED BY <2>1, <2>2
<1> QED
  BY <1>1, <1>2, <1>3, GrownAbreast

LEMMA BeginAbreast ==
    ASSUME TypeInv, Deltas, NEW c \in Registered, Abreast(c), BeginBroadcast
    PROVE  Abreast(c)'
<1>0. /\ UNCHANGED <<pending, held, view, resyncAt>> /\ pending # <<>> /\ c \in Clients
      /\ pending \in Seq(Entry) /\ buffer \in [Clients -> Seq(Message)]
      /\ todo' = clients \cap Head(pending).to
      /\ buffer'[c] = IF c \in connecting \cap Head(pending).to
                        THEN Append(buffer[c], Head(pending).msg) ELSE buffer[c]
  BY DEF BeginBroadcast, tables, seen, TypeInv, TypeOK, QueueType, TablesType, Registered
<1>1. 1 \in DOMAIN pending /\ Head(pending) = pending[1] /\ pending[1] \in Entry
  BY <1>0, TailElements
<1>2. \A i : AckFor(c, i)' <=> AckFor(c, i)
  BY <1>0 DEF AckFor
<1>3. QueueFits(c)' /\ NoDelta(c)'
  BY <1>0, <1>2 DEF Abreast, QueueFits, NoDelta, Fits
<1>4. DeltaSent(c)'
  <2> SUFFICES ASSUME AckFor(c, 1), c \notin todo' PROVE FALSE
    BY <1>2 DEF DeltaSent
  <2>1. c \notin connecting
    BY <1>0, <1>1 DEF Deltas
  <2>2. c \in clients /\ c \in pending[1].to
    BY <2>1 DEF Registered, AckFor
  <2> QED BY <1>0, <1>1, <2>2
<1>5. BufferFits(c)'
  <2>1. CASE buffer'[c] = buffer[c]
    BY <1>0, <2>1 DEF Abreast, BufferFits, Fits
  <2>2. CASE c \in connecting \cap pending[1].to
    <3>1. pending[1].msg.kind # "ack"
      BY <1>0, <1>1, <2>2 DEF Deltas, AckFor
    <3>2. \A j \in 1..(1 - 1) : ~AckFor(c, j)
      OBVIOUS
    <3>3. Fits(c, pending[1].msg, held[c])
      BY <1>1, <2>2, <3>2 DEF Abreast, QueueFits
    <3>4. pending[1].msg \in Message /\ buffer[c] \in Seq(Message)
      BY <1>0, <1>1 DEF Entry
    <3>5. \A i \in DOMAIN buffer'[c] :
             buffer'[c][i] = pending[1].msg \/ (i \in DOMAIN buffer[c] /\ buffer'[c][i] = buffer[c][i])
      BY <1>0, <1>1, <2>2, <3>4, AppendElements
    <3> QED BY <1>0, <3>1, <3>3, <3>5 DEF Abreast, BufferFits, Fits
  <2> QED BY <1>0, <1>1, <2>1, <2>2
<1> QED BY <1>3, <1>4, <1>5 DEF Abreast

LEMMA EndAbreast ==
    ASSUME TypeInv, NEW c, Abreast(c), EndBroadcast
    PROVE  Abreast(c)'
<1>0. /\ UNCHANGED <<buffer, held, view, resyncAt>> /\ pending # <<>> /\ sending /\ ~sending'
      /\ pending \in Seq(Entry) /\ pending' = Tail(pending) /\ c \notin todo
  BY DEF EndBroadcast, tables, seen, TypeInv, TypeOK, QueueType, SendingHead
<1>1. /\ Len(pending) \in Nat \ {0} /\ DOMAIN pending = 1..Len(pending)
      /\ DOMAIN pending' = 1..(Len(pending) - 1)
      /\ \A i \in 1..(Len(pending) - 1) : pending'[i] = pending[i + 1]
  BY <1>0, TailElements
<1>2. \A i \in 1..(Len(pending) - 1) : AckFor(c, i)' <=> AckFor(c, i + 1)
  BY <1>1 DEF AckFor
<1>3. AckFor(c, 1) => held[c] = view[c]
  BY <1>0 DEF Abreast, DeltaSent
<1>4. BufferFits(c)' /\ DeltaSent(c)'
  BY <1>0 DEF Abreast, BufferFits, DeltaSent, Fits
<1>5. NoDelta(c)'
  <2> SUFFICES ASSUME \A i \in DOMAIN pending' : ~AckFor(c, i)', ~AckFor(c, 1)
               PROVE  held[c] = view[c]
    BY <1>0, <1>3 DEF NoDelta
  <2>1. ASSUME NEW i \in DOMAIN pending PROVE ~AckFor(c, i)
    <3>1. CASE i = 1
      BY <3>1
    <3>2. CASE i # 1
      <4>1. i - 1 \in 1..(Len(pending) - 1) /\ (i - 1) + 1 = i
        BY <1>1, <3>2
      <4>2. ~AckFor(c, i - 1)'
        BY <1>1, <4>1
      <4> QED BY <1>2, <4>1, <4>2
    <3> QED BY <3>1, <3>2
  <2> QED BY <2>1 DEF Abreast, NoDelta
<1>6. QueueFits(c)'
  <2> SUFFICES ASSUME NEW i \in 1..(Len(pending) - 1), c \in pending[i + 1].to
               PROVE  /\ pending[i + 1].msg.kind = "ack" => pending[i + 1].msg.view = view[c]
                      /\ (\A j \in 1..(i - 1) : ~AckFor(c, j)') => Fits(c, pending[i + 1].msg, held[c])
                      /\ (\E j \in 1..(i - 1) : AckFor(c, j)') => Fits(c, pending[i + 1].msg, view[c])
    BY <1>0, <1>1 DEF QueueFits, Fits
  <2>1. /\ pending[i + 1].msg.kind = "ack" => pending[i + 1].msg.view = view[c]
        /\ (\A j \in 1..i : ~AckFor(c, j)) => Fits(c, pending[i + 1].msg, held[c])
        /\ (\E j \in 1..i : AckFor(c, j)) => Fits(c, pending[i + 1].msg, view[c])
    <3>1. i + 1 \in DOMAIN pending /\ (i + 1) - 1 = i
      BY <1>1
    <3> QED BY <3>1 DEF Abreast, QueueFits
  <2>2. ASSUME NEW j \in 1..(i - 1), AckFor(c, j)' PROVE \E k \in 1..i : AckFor(c, k)
    BY <1>1, <1>2, <2>2
  <2>3. ASSUME NEW k \in 1..i, AckFor(c, k), k # 1 PROVE \E j \in 1..(i - 1) : AckFor(c, j)'
    <3>1. k - 1 \in 1..(i - 1) /\ k - 1 \in 1..(Len(pending) - 1) /\ (k - 1) + 1 = k
      BY <1>1, <2>3
    <3> QED BY <1>2, <2>3, <3>1
  <2>4. CASE AckFor(c, 1)
    <3>1. \E k \in 1..i : AckFor(c, k)
      BY <2>4
    <3> QED BY <1>3, <2>1, <2>4, <3>1
  <2>5. CASE ~AckFor(c, 1)
    BY <2>1, <2>2, <2>3, <2>5
  <2> QED BY <2>4, <2>5
<1> QED BY <1>4, <1>5, <1>6 DEF Abreast

(* A frame that is no delta, or goes to another client, leaves the view of *)
(* the client as it is.                                                    *)
LEMMA SendView ==
    ASSUME TypeInv, NEW c \in Registered', c \in Clients, c \notin dead, NEW d \in Clients,
           NEW m, SafeSend(d, m)
    PROVE  /\ view'[c] = view[c] /\ resyncAt' = resyncAt
           /\ d # c \/ m.kind # "ack" => held'[c] = held[c]
           /\ d = c /\ m.kind = "ack" => held'[c] = m.view
<1>0. view \in [Clients -> Nat] /\ held \in [Clients -> Nat]
  BY DEF TypeInv, TypeOK, TablesType, SeenType
<1>1. CASE d \in dead
  <2>1. d # c
    BY <1>1
  <2> QED BY <1>0, <1>1, <2>1 DEF SafeSend, Forget, seen
<1>2. CASE d \notin dead
  BY <1>0, <1>2 DEF SafeSend, Deliver, tables
<1> QED BY <1>1, <1>2

LEMMA BroadcastAbreast ==
    ASSUME TypeInv, Roster, Buffered, SentTo, Turns, NEW c \in Registered', c \in Clients,
           c \notin dead, Abreast(c), NEW d \in Clients, BroadcastTo(d)
    PROVE  Abreast(c)'
<1>0. /\ UNCHANGED <<buffer, pending, sending>> /\ sending /\ todo' = todo \ {d} /\ d \in todo
      /\ SafeSend(d, Head(pending).msg) /\ pending # <<>> /\ pending \in Seq(Entry)
  BY DEF BroadcastTo, TypeInv, TypeOK, QueueType, SendingHead
<1>1. Head(pending) = pending[1] /\ 1 \in DOMAIN pending
  BY <1>0, TailElements
<1>2. /\ view'[c] = view[c] /\ resyncAt'[c] = resyncAt[c]
      /\ d # c \/ pending[1].msg.kind # "ack" => held'[c] = held[c]
      /\ d = c /\ pending[1].msg.kind = "ack" => held'[c] = pending[1].msg.view
  BY <1>0, <1>1, SendView
<1>3. CASE d # c
  <2>1. c \notin todo' => c \notin todo
    BY <1>0, <1>3
  <2> QED BY <1>0, <1>2, <1>3, <2>1, CalmAbreast
<1>4. CASE d = c /\ pending[1].msg.kind # "ack"
  <2>1. \A i : AckFor(c, i)' <=> AckFor(c, i)
    BY <1>0 DEF AckFor
  <2>2. BufferFits(c)' /\ QueueFits(c)' /\ NoDelta(c)'
    BY <1>0, <1>2, <1>4, <2>1 DEF Abreast, BufferFits, QueueFits, NoDelta, Fits
  <2>3. DeltaSent(c)'
    BY <1>4, <2>1 DEF DeltaSent, AckFor
  <2> QED BY <2>2, <2>3 DEF Abreast
<1>5. CASE d = c /\ pending[1].msg.kind = "ack"
  <2>1. c \in clients /\ AckFor(c, 1)
    BY <1>0, <1>1, <1>5 DEF SentTo, AckFor
  <2>2. PICK r \in Requests : from[r] = c /\ rpc[r] = "ackFlush"
    BY <1>1, <2>1 DEF Turns, Deltas, Changing
  <2>3. buffer[c] = <<>>
    <3>1. conn[c] = "open" /\ \A s \in Requests : from[s] = c /\ Active(s) => s = r
      BY <2>2 DEF Turns, Alone, Active
    <3>2. ~Draining(c)
      BY <2>2, <3>1 DEF Draining, Active
    <3> QED BY <2>1, <3>2 DEF Buffered
  <2>4. held'[c] = view'[c] /\ pending[1].msg.view = view[c]
    BY <1>1, <1>2, <1>5, <2>1 DEF Abreast, QueueFits, AckFor
  <2>5. \A i : AckFor(c, i)' <=> AckFor(c, i)
    BY <1>0 DEF AckFor
  <2>6. BufferFits(c)'
    BY <1>0, <2>3 DEF BufferFits
  <2>7. NoDelta(c)' /\ DeltaSent(c)'
    BY <2>4 DEF NoDelta, DeltaSent
  <2>8. QueueFits(c)'
    <3> SUFFICES ASSUME NEW i \in DOMAIN pending, c \in pending[i].to
                 PROVE  /\ pending[i].msg.kind = "ack" => pending[i].msg.view = view[c]
                        /\ Fits(c, pending[i].msg, view[c])
      BY <1>0, <1>2, <2>4 DEF QueueFits, Fits
    <3>1. CASE i = 1
      BY <1>5, <2>4, <3>1 DEF Fits
    <3>2. CASE i # 1
      <4>1. 1 \in 1..(i - 1)
        BY <1>0, <3>2
      <4>2. \E j \in 1..(i - 1) : AckFor(c, j)
        BY <2>1, <4>1
      <4> QED BY <4>2 DEF Abreast, QueueFits
    <3> QED BY <3>1, <3>2
  <2> QED BY <2>6, <2>7, <2>8 DEF Abreast
<1> QED BY <1>3, <1>4, <1>5

LEMMA DrainAbreast ==
    ASSUME TypeInv, NEW c \in Registered', c \in Clients, c \notin dead, Abreast(c),
           NEW d \in Clients, DrainStep(d)
    PROVE  Abreast(c)'
<1>0. /\ UNCHANGED <<pending, sending, todo>> /\ buffer[d] # <<>>
      /\ SafeSend(d, Head(buffer[d])) /\ buffer' = [buffer EXCEPT ![d] = Tail(@)]
      /\ buffer \in [Clients -> Seq(Message)]
  BY DEF DrainStep, queue, TypeInv, TypeOK, QueueType
<1>1. CASE d # c
  <2>1. buffer'[c] = buffer[c]
    BY <1>0, <1>1
  <2>2. view'[c] = view[c] /\ resyncAt'[c] = resyncAt[c] /\ held'[c] = held[c]
    BY <1>0, <1>1, SendView
  <2> QED BY <1>0, <2>1, <2>2, CalmAbreast
<1>2. CASE d = c
  <2>0. buffer[c] \in Seq(Message) /\ buffer[c] # <<>> /\ buffer'[c] = Tail(buffer[c])
    BY <1>0, <1>2
  <2>1. /\ Head(buffer[c]) = buffer[c][1] /\ 1 \in DOMAIN buffer[c]
        /\ \A i \in DOMAIN buffer'[c] : i + 1 \in DOMAIN buffer[c] /\ buffer'[c][i] = buffer[c][i + 1]
    BY <2>0, TailElements
  <2>2. Head(buffer[c]).kind # "ack"
    BY <2>1 DEF Abreast, BufferFits
  <2>3. view'[c] = view[c] /\ resyncAt'[c] = resyncAt[c] /\ held'[c] = held[c]
    BY <1>0, <1>2, <2>2, SendView
  <2>4. BufferFits(c)'
    BY <2>1, <2>3 DEF Abreast, BufferFits, Fits
  <2>5. \A i : AckFor(c, i)' <=> AckFor(c, i)
    BY <1>0 DEF AckFor
  <2>6. QueueFits(c)' /\ NoDelta(c)' /\ DeltaSent(c)'
    BY <1>0, <2>3, <2>5 DEF Abreast, QueueFits, NoDelta, DeltaSent, Fits
  <2> QED BY <2>4, <2>6 DEF Abreast
<1> QED BY <1>1, <1>2

(* Nothing is on its way to a connection that registers. *)
LEMMA RegisterAbreast ==
    ASSUME TypeInv, Roster, Unheld, NEW c \in Clients, ConnectPartial(c) \/ ConnectWhole(c)
    PROVE  Abreast(c)'
<1>0. /\ pending' = <<>> /\ buffer'[c] = <<>> /\ ~sending' /\ held' = held
      /\ conn[c] = "hello" /\ (view'[c] = view[c] \/ view'[c] = 0)
  BY DEF ConnectPartial, ConnectWhole, FlushOver, queue, seen, TypeInv, TypeOK, QueueType,
         TablesType, Forget
<1>1. held'[c] = 0 /\ view'[c] = 0
  BY <1>0 DEF Unheld, Roster, Enrolled
<1>2. BufferFits(c)' /\ QueueFits(c)' /\ NoDelta(c)' /\ DeltaSent(c)'
  BY <1>0, <1>1 DEF BufferFits, QueueFits, NoDelta, DeltaSent
<1> QED BY <1>2 DEF Abreast

LEMMA AnswerAbreast ==
    ASSUME TypeInv, NEW c, Abreast(c), NEW r \in Requests, DispatchOk(r)
    PROVE  Abreast(c)'
<1>0. /\ UNCHANGED <<buffer, held, view, resyncAt, sending, todo>> /\ pending \in Seq(Entry)
      /\ sending => pending # <<>>
  BY DEF DispatchOk, tables, seen, TypeInv, TypeOK, QueueType, SendingHead
<1>1. CASE pending' = pending
  BY <1>0, <1>1, CalmAbreast
<1>2. CASE pending' # pending
  <2> DEFINE e == [msg |-> Answer(Ref(r)), to |-> {from[r]}]
  <2>1. pending' = Append(pending, e) /\ e.msg.kind = "answer"
    BY <1>2 DEF DispatchOk, Answer
  <2> HIDE DEF e
  <2>2. pending \in Seq(Entry \cup {e})
    BY <1>0, SeqMonotonic
  <2>3. /\ Len(pending) \in Nat /\ DOMAIN pending = 1..Len(pending)
        /\ DOMAIN pending' = 1..(Len(pending) + 1)
        /\ \A i \in 1..Len(pending) : pending'[i] = pending[i]
        /\ pending'[Len(pending) + 1] = e
    BY <2>1, <2>2, AppendElements
  <2>4. sending => Len(pending) > 0
    BY <1>0, <2>3, EmptySeq
  <2>5. \A i \in (Len(pending) + 1)..(Len(pending) + 1) :
           pending'[i].msg.kind # "ack" /\ Fits(c, pending'[i].msg, view[c])
    BY <2>1, <2>3 DEF Fits
  <2> QED BY <1>0, <2>3, <2>4, <2>5, GrownAbreast
<1> QED BY <1>1, <1>2

(* A change of scope finds the queue empty. *)
LEMMA ChangeAbreast ==
    ASSUME TypeInv, NEW c \in Clients, Abreast(c), NEW r \in Requests, ScopeChange(r)
    PROVE  Abreast(c)'
<1> DEFINE e == [msg |-> ScopeAck(Ref(r), view[from[r]] + 1), to |-> {from[r]}]
<1>0. /\ UNCHANGED <<buffer, held, resyncAt, sending, todo>> /\ ~sending /\ pending = <<>>
      /\ view' = [view EXCEPT ![from[r]] = @ + 1] /\ pending' = Append(pending, e)
      /\ view \in [Clients -> Nat] /\ from[r] \in Clients
  BY DEF ScopeChange, FlushOver, tables, seen, TypeInv, TypeOK, TablesType, StillType
<1>1. e.msg.kind = "ack" /\ e.msg.view = view[from[r]] + 1 /\ e.to = {from[r]}
  BY DEF ScopeAck
<1> HIDE DEF e
<1>2. DOMAIN pending' = {1} /\ pending'[1] = e
  <2>1. pending \in Seq({e}) /\ Len(pending) = 0
    BY <1>0, EmptySeq
  <2> QED BY <1>0, <2>1, AppendElements
<1>3. BufferFits(c)' /\ DeltaSent(c)'
  BY <1>0 DEF Abreast, BufferFits, DeltaSent, Fits
<1>4. QueueFits(c)'
  BY <1>0, <1>1, <1>2 DEF QueueFits, Fits
<1>5. NoDelta(c)'
  <2>1. CASE c = from[r]
    BY <1>1, <1>2, <2>1 DEF NoDelta, AckFor
  <2>2. CASE c # from[r]
    <3>1. \A i \in DOMAIN pending : ~AckFor(c, i)
      BY <1>0
    <3> QED BY <1>0, <2>2, <3>1 DEF Abreast, NoDelta
  <2> QED BY <2>1, <2>2
<1> QED BY <1>3, <1>4, <1>5 DEF Abreast

(* The snapshot of a rejection covers all that is under way, and no delta  *)
(* is: its client is having this request served.                           *)
LEMMA ResyncAbreast ==
    ASSUME TypeInv, Past, Alone, Deltas, NEW c \in Clients, c \notin dead, Abreast(c),
           NEW r \in Requests, Resync(r)
    PROVE  Abreast(c)'
<1>0. /\ UNCHANGED <<buffer, pending, sending, todo>> /\ rpc[r] = "resync"
      /\ view \in [Clients -> Nat] /\ held \in [Clients -> Nat]
      /\ resyncAt \in [Clients -> 0..MaxVersion] /\ from[r] \in Clients /\ version \in Nat
  BY SessionAssumption
     DEF Resync, queue, TypeInv, TypeOK, TablesType, SeenType, StillType
<1>1. CASE from[r] # c
  <2>1. view'[c] = view[c] /\ resyncAt'[c] = resyncAt[c] /\ held'[c] = held[c]
    BY <1>0, <1>1 DEF Resync
  <2> QED BY <1>0, <2>1, CalmAbreast
<1>2. CASE from[r] = c
  <2>1. held'[c] = view'[c] /\ resyncAt'[c] = version
    BY <1>0, <1>2 DEF Resync
  <2>2. ASSUME NEW i \in DOMAIN pending PROVE ~AckFor(c, i)
    <3>1. SUFFICES ASSUME Changing(c) PROVE FALSE
      BY DEF Deltas
    <3>2. PICK s \in Requests : from[s] = c /\ rpc[s] = "ackFlush"
      BY <3>1 DEF Changing
    <3>3. Active(r) /\ Active(s)
      BY <1>0, <3>2 DEF Active
    <3> QED BY <1>0, <1>2, <3>2, <3>3 DEF Alone
  <2>3. NoDelta(c)' /\ DeltaSent(c)'
    BY <2>1 DEF NoDelta, DeltaSent
  <2>4. /\ \A i \in DOMAIN pending :
              pending[i].msg.kind = "patch" => ~(pending[i].msg.version > version)
        /\ \A i \in DOMAIN buffer[c] :
              buffer[c][i].kind = "patch" => ~(buffer[c][i].version > version)
    BY <1>0, VersionType DEF Past, TypeInv
  <2>5. BufferFits(c)'
    BY <1>0, <2>1, <2>4 DEF Abreast, BufferFits, Fits
  <2>6. QueueFits(c)'
    BY <1>0, <2>1, <2>2, <2>4 DEF QueueFits, AckFor, Fits
  <2> QED BY <2>3, <2>5, <2>6 DEF Abreast
<1> QED BY <1>1, <1>2

(* The first scope finds the queue empty, and its client has been sent no  *)
(* patch.                                                                  *)
LEMMA FirstAbreast ==
    ASSUME TypeInv, Awaited, NEW c \in Registered', c \in Clients, c \notin dead, Abreast(c),
           NEW r \in Requests, ScopeFirst(r)
    PROVE  Abreast(c)'
<1>0. /\ UNCHANGED <<buffer, pending, sending, todo, resyncAt>> /\ pending = <<>> /\ ~sending
      /\ view \in [Clients -> Nat] /\ held \in [Clients -> Nat] /\ from[r] \in Clients
      /\ from[r] \in awaiting
  BY DEF ScopeFirst, FlushOver, queue, seen, TypeInv, TypeOK, TablesType, SeenType, StillType
<1>1. CASE from[r] # c
  <2>1. view'[c] = view[c] /\ held'[c] = held[c]
    BY <1>0, <1>1 DEF ScopeFirst, Forget, seen
  <2> QED BY <1>0, <2>1, CalmAbreast
<1>2. CASE from[r] = c
  <2>1. held'[c] = view'[c]
    BY <1>0, <1>2 DEF ScopeFirst
  <2>2. BufferFits(c)'
    BY <1>0, <1>2 DEF Abreast, BufferFits, Awaited, NoPatchTo, Fits
  <2>3. QueueFits(c)' /\ NoDelta(c)' /\ DeltaSent(c)'
    BY <1>0, <2>1 DEF QueueFits, NoDelta, DeltaSent
  <2> QED BY <2>2, <2>3 DEF Abreast
<1> QED BY <1>1, <1>2

LEMMA NextAbreast ==
    ASSUME OrderInv, Turns, [Next]_vars, \A c \in Registered \ dead : Abreast(c)
    PROVE  (\A c \in Registered \ dead : Abreast(c))'
<1> SUFFICES ASSUME NEW c \in Registered', c \notin dead'
             PROVE  Abreast(c)'
  OBVIOUS
<1>0. /\ TypeInv /\ Roster /\ Buffered /\ SentTo /\ Awaited /\ Past
      /\ Alone /\ Unheld /\ Deltas
      /\ c \notin dead /\ TypeInv' /\ \A r \in Requests : from[r] \in Clients
  BY NextTypeInv, Kept
     DEF OrderInv, LossInv, Ordered, Turns, TypeInv, TypeOK, StillType
<1>1. c \in Clients
  BY <1>0 DEF Registered, TypeInv, TypeOK, TablesType
<1>2. ASSUME NEW d \in Clients, ConnectPartial(d) \/ ConnectWhole(d)
      PROVE  Abreast(c)'
  <2>1. CASE d = c
    BY <1>0, <1>2, <2>1, RegisterAbreast
  <2>2. CASE d # c
    <3>1. /\ UNCHANGED <<pending, sending, todo, held, resyncAt>> /\ buffer'[c] = buffer[c]
          /\ view'[c] = view[c] /\ c \in Registered
      BY <1>0, <1>1, <1>2, <2>2
         DEF ConnectPartial, ConnectWhole, Forget, queue, seen, Registered, TypeInv, TypeOK,
             QueueType, TablesType
    <3>2. Abreast(c)
      BY <1>0, <3>1
    <3> QED BY <3>1, <3>2, CalmAbreast
  <2> QED BY <2>1, <2>2
<1>3. CASE ~\E d \in Clients : ConnectPartial(d) \/ ConnectWhole(d)
  <2>1. c \in Registered
    <3>1. CASE Calm
      BY <3>1 DEF Calm
    <3>2. CASE ~Calm /\ \E d \in Clients : BroadcastTo(d) \/ ConnectDrain(d)
      BY <3>2 DEF BroadcastTo, ConnectDrain, DrainStep, SafeSend, Forget, tables, Registered
    <3>3. CASE BeginBroadcast \/ EndBroadcast \/ SettledCancel
      BY <3>3
         DEF BeginBroadcast, EndBroadcast, SettledCancel, CancelFlush, tables, Registered
    <3>4. ASSUME NEW q \in Projections, HostCommit(q) \/ RequestCommit(q)
          PROVE  c \in Registered
      BY <3>4 DEF HostCommit, RequestCommit, OnDocChange, tables, Registered
    <3>5. ASSUME NEW r \in Requests,
                 DispatchOk(r) \/ ScopeChange(r) \/ ScopeDrain(r) \/ Resync(r) \/ ScopeFirst(r)
          PROVE  c \in Registered
      BY <3>5
         DEF DispatchOk, ScopeChange, ScopeDrain, DrainStep, SafeSend, Resync, ScopeFirst,
             Forget, tables, Registered
    <3> QED BY <1>3, <3>1, <3>2, <3>3, <3>4, <3>5, Moves
  <2>2. Abreast(c)
    BY <1>0, <2>1
  <2>3. ASSUME NEW q \in Projections, HostCommit(q) \/ RequestCommit(q)
        PROVE  Abreast(c)'
    BY <1>0, <2>1, <2>2, <2>3, CommitAbreast DEF HostCommit, RequestCommit
  <2>4. CASE BeginBroadcast \/ EndBroadcast
    BY <1>0, <2>1, <2>2, <2>4, BeginAbreast, EndAbreast
  <2>5. CASE SettledCancel
    BY <2>2, <2>5, CalmAbreast DEF SettledCancel, CancelFlush, tables
  <2>6. ASSUME NEW d \in Clients, BroadcastTo(d) \/ ConnectDrain(d)
        PROVE  Abreast(c)'
    BY <1>0, <1>1, <2>2, <2>6, BroadcastAbreast, DrainAbreast DEF ConnectDrain, Turns, OrderInv
  <2>7. ASSUME NEW r \in Requests,
               DispatchOk(r) \/ ScopeChange(r) \/ ScopeDrain(r) \/ Resync(r) \/ ScopeFirst(r)
        PROVE  Abreast(c)'
    <3>1. CASE DispatchOk(r)
      BY <1>0, <2>2, <3>1, AnswerAbreast
    <3>2. CASE ScopeChange(r)
      BY <1>0, <1>1, <2>2, <3>2, ChangeAbreast
    <3>3. CASE ScopeDrain(r)
      BY <1>0, <1>1, <2>2, <3>3, DrainAbreast DEF ScopeDrain
    <3>4. CASE Resync(r)
      BY <1>0, <1>1, <2>2, <3>4, ResyncAbreast
    <3>5. CASE ScopeFirst(r)
      BY <1>0, <1>1, <2>2, <3>5, FirstAbreast
    <3> QED BY <2>7, <3>1, <3>2, <3>3, <3>4, <3>5
  <2>8. CASE Calm /\ held' = held /\ view'[c] = view[c]
    BY <2>2, <2>8, CalmAbreast DEF Calm, queue
  <2>9. \/ Calm /\ held' = held /\ view'[c] = view[c]
        \/ BeginBroadcast \/ EndBroadcast \/ SettledCancel
        \/ \E q \in Projections : HostCommit(q) \/ RequestCommit(q)
        \/ \E d \in Clients : BroadcastTo(d) \/ ConnectDrain(d)
        \/ \E r \in Requests :
              DispatchOk(r) \/ ScopeChange(r) \/ ScopeDrain(r) \/ Resync(r) \/ ScopeFirst(r)
    BY <1>0, <1>1, <1>3, Moves, ViewMoves DEF Resend
  <2> QED BY <2>3, <2>4, <2>5, <2>6, <2>7, <2>8, <2>9
<1> QED BY <1>2, <1>3

LEMMA AbreastAgrees ==
    ASSUME TypeInv, \A c \in Registered \ dead : Abreast(c)
    PROVE  ViewAgrees
<1> SUFFICES ASSUME NEW c \in Registered \ dead, NEW i \in Way(c),
                    FrameAt(c, i).kind = "patch", FrameAt(c, i).version > resyncAt[c]
             PROVE  /\ AcksBefore(c, i) = {} => FrameAt(c, i).view = held[c]
                    /\ \A j \in AcksBefore(c, i) : FrameAt(c, i).view = FrameAt(c, j).view
  BY DEF ViewAgrees, Registered
<1>0. /\ Abreast(c) /\ c \in Clients /\ buffer[c] \in Seq(Message) /\ Len(buffer[c]) \in Nat
      /\ DOMAIN buffer[c] = 1..Len(buffer[c]) /\ pending \in Seq(Entry)
      /\ DOMAIN pending = 1..Len(pending) /\ Len(pending) \in Nat
  BY LenProperties DEF TypeInv, TypeOK, QueueType, TablesType, Registered
<1>1. \A j \in Way(c) : j \in Int /\ (j < 1 \/ (j \in QueuedFor(c) /\ j >= 1))
  BY <1>0 DEF Way, QueuedFor
<1>2. ASSUME NEW j \in Way(c), j < 1
      PROVE  j + Len(buffer[c]) \in DOMAIN buffer[c]
             /\ FrameAt(c, j) = buffer[c][j + Len(buffer[c])]
  <2>1. j \in (1 - Len(buffer[c]))..0
    BY <1>0, <1>2 DEF Way, QueuedFor
  <2> QED BY <1>0, <1>2, <2>1 DEF FrameAt
<1>3. \A j \in AcksBefore(c, i) : j \in QueuedFor(c) /\ AckFor(c, j) /\ j \in 1..(i - 1)
         /\ FrameAt(c, j) = pending[j].msg
  <2> SUFFICES ASSUME NEW j \in AcksBefore(c, i)
               PROVE  j \in QueuedFor(c) /\ AckFor(c, j) /\ j \in 1..(i - 1)
                      /\ FrameAt(c, j) = pending[j].msg
    OBVIOUS
  <2>1. j \in Way(c) /\ j < i /\ FrameAt(c, j).kind = "ack"
    BY DEF AcksBefore
  <2>2. ~(j < 1)
    BY <1>0, <1>2, <2>1 DEF Abreast, BufferFits
  <2>3. j \in QueuedFor(c) /\ j >= 1 /\ j \in Int /\ i \in Int
    BY <1>1, <2>1, <2>2
  <2>4. FrameAt(c, j) = pending[j].msg
    BY <2>2 DEF FrameAt
  <2> QED BY <2>1, <2>3, <2>4 DEF AckFor, QueuedFor
<1>4. CASE i < 1
  <2>1. AcksBefore(c, i) = {}
    <3>1. ASSUME NEW j \in AcksBefore(c, i) PROVE FALSE
      BY <1>1, <1>3, <1>4
    <3> QED BY <3>1
  <2>2. FrameAt(c, i).view = held[c]
    BY <1>0, <1>2, <1>4 DEF Abreast, BufferFits, Fits
  <2> QED BY <2>1, <2>2
<1>5. CASE ~(i < 1)
  <2>1. i \in QueuedFor(c) /\ i \in DOMAIN pending /\ c \in pending[i].to
        /\ FrameAt(c, i) = pending[i].msg
    BY <1>1, <1>5 DEF QueuedFor, FrameAt
  <2>2. ASSUME NEW j \in 1..(i - 1), AckFor(c, j) PROVE pending[i].msg.view = view[c]
    BY <1>0, <2>1, <2>2 DEF Abreast, QueueFits, Fits
  <2>3. ASSUME NEW j \in AcksBefore(c, i) PROVE FrameAt(c, i).view = FrameAt(c, j).view
    <3>1. AckFor(c, j) /\ j \in 1..(i - 1) /\ FrameAt(c, j) = pending[j].msg
          /\ j \in DOMAIN pending
      BY <1>3, <2>3 DEF QueuedFor
    <3>2. FrameAt(c, j).view = view[c]
      BY <1>0, <3>1 DEF Abreast, QueueFits, AckFor
    <3> QED BY <2>1, <2>2, <3>1, <3>2
  <2>4. ASSUME AcksBefore(c, i) = {} PROVE FrameAt(c, i).view = held[c]
    <3>1. CASE \A j \in 1..(i - 1) : ~AckFor(c, j)
      BY <1>0, <2>1, <3>1 DEF Abreast, QueueFits, Fits
    <3>2. CASE \E j \in 1..(i - 1) : AckFor(c, j)
      <4>1. PICK j \in 1..(i - 1) : AckFor(c, j)
        BY <3>2
      <4>2. j \in DOMAIN pending /\ j < i /\ ~(j < 1) /\ FrameAt(c, j) = pending[j].msg
        BY <1>0, <2>1, <4>1 DEF FrameAt
      <4>3. j \notin QueuedFor(c)
        BY <2>4, <4>1, <4>2 DEF AcksBefore, Way, AckFor
      <4>4. j = 1 /\ sending /\ c \notin todo
        BY <4>1, <4>2, <4>3 DEF QueuedFor, AckFor
      <4>5. held[c] = view[c]
        BY <1>0, <4>1, <4>4 DEF Abreast, DeltaSent
      <4> QED BY <2>1, <2>2, <4>1, <4>5
    <3> QED BY <3>1, <3>2
  <2> QED BY <2>3, <2>4
<1> QED BY <1>4, <1>5

(* A projected patch lands on the view it was computed against, when the   *)
(* callbacks of a client run one after the other.                          *)
THEOREM PatchesFitViews == "overlap" \notin Features => (Spec => []ViewAgrees)
<1> SUFFICES ASSUME "overlap" \notin Features PROVE Spec => []ViewAgrees
  OBVIOUS
<1>1. Init => ViewInv
  BY OrderSafe, InitTurns, InitAbreast DEF ViewInv
<1>2. ViewInv /\ [Next]_vars => ViewInv'
  BY OrderSafe, NextTurns, NextAbreast DEF ViewInv
<1>3. ViewInv => ViewAgrees
  BY AbreastAgrees DEF ViewInv, OrderInv, LossInv
<1> QED
  BY <1>1, <1>2, <1>3, PTL DEF Spec
=============================================================================
