-------------------------- MODULE ThickClientProofs --------------------------
(***************************************************************************)
(* What a thick client keeps, for any number of edits, breaks, host        *)
(* commits, nodes and values.                                              *)
(*                                                                         *)
(* First its lists, whatever the operations are: no edit is lost           *)
(* (OnlyDroppedLost), and the answers come in the order of the pending     *)
(* operations, one for each (AnswersInOrder).  Neither is inductive alone. *)
(* _takePending retires a prefix of pendingOps: that all it retires is     *)
(* decided needs the order of the answers, which needs the order of the    *)
(* refs in both directions of the connection (Rising), which a             *)
(* reconnection keeps because it starts from empty ones (Linked); and what *)
(* stands for an edit at any time is in one of the client's two lists, in  *)
(* the order of the edits (Held).                                          *)
(*                                                                         *)
(* Then its documents.  Their types (TypeInv) need to know what operations *)
(* there are: what the client asks for is a write, or one structural       *)
(* operation (Own), what it hears is a commit of the server's (Commit).    *)
(* What the client shows is Optimistic because of three things: what it    *)
(* shows of a field is its own last write, or what the server told it      *)
(* (Shown); the answer to a write tells the field it wrote (Agreed), which *)
(* is so because the server holds only what its normalizer leaves alone    *)
(* (Normal); and a node a patch brings is one the client knew nothing of   *)
(* (Once), until a break lets an insert be sent again.                     *)
(*                                                                         *)
(* Then its undo history.  The inverse of a pending write leads back to    *)
(* the write of the field before it, and the oldest to what the server     *)
(* told of it (Restores): every patch is taken up by the oldest inverse    *)
(* only, and an echo makes the next one the oldest.  That a patch tells of *)
(* one field at a time where it inserts a node (Alone) matters, because a  *)
(* client that has the node ignores the patch.                             *)
(*                                                                         *)
(* Last both documents at the end (ConvergedOnce).  What is on its way     *)
(* leads from what the client was told to what the server holds (Replay):  *)
(* the documents on the way are a sequence, one for each message.  The     *)
(* broadcasts that come after the snapshot that shows them change nothing, *)
(* unless two of them are structural (LateInv), a snapshot follows every   *)
(* rejection (Excused), and a field no pending operation covers is shown   *)
(* as it was told (Told).  With nothing on its way the path has one        *)
(* document, with nothing pending no field is covered: all three are one.  *)
(***************************************************************************)
EXTENDS ThickClient, SequenceTheorems, WellFoundedInduction, TLAPS

(* The variables are sequences, of whatever.                               *)
Listed(s) == s \in Seq(ToSet(s))
Lists     == Listed(up) /\ Listed(down) /\ Listed(late) /\ Listed(ghost)
                /\ Listed(pending) /\ Listed(buffered) /\ edits \in Nat

Sorted(s) == \A i, j \in DOMAIN s : i < j => s[i].id < s[j].id
Made(s)   == Ids(s) \subseteq 1..edits

(* Where the edits are. *)
Held ==
    /\ Sorted(pending) /\ Sorted(buffered)
    /\ Made(pending) /\ Made(buffered) /\ Made(up) /\ Made(ghost)
    /\ decided \cup dropped \subseteq 1..edits
    /\ Online => buffered = <<>>
    /\ ~Online => pending = <<>> /\ up = <<>>

(* The connection: nothing is under way while it is down, and the answers  *)
(* that come before the first snapshot are none of the client's.           *)
Linked ==
    /\ link \in {"down", "pending", "up"}
    /\ link = "down" => down = <<>> /\ late = <<>> /\ srv = "idle"
    /\ link = "pending" => \A i \in DOMAIN down : Ref(down[i]) = 0
    /\ \A i \in DOMAIN late : Ref(late[i]) = 0
    /\ srv = "reject" => up # <<>> /\ Head(up).id \in decided

(* Answers and requests are in the order of the edits, and an answer comes *)
(* to what is decided.                                                     *)
Rising ==
    /\ \A i \in DOMAIN down :
          /\ Ref(down[i]) \in {0} \cup decided
          /\ \A j \in DOMAIN down :
                i < j /\ Ref(down[j]) # 0 => Ref(down[i]) < Ref(down[j])
          /\ \A j \in DOMAIN up : Ref(down[i]) < up[j].id
    /\ Sorted(up)

(* A pending operation has its answer or its request under way. *)
UnderWay(id) == \/ \E i \in DOMAIN down : Ref(down[i]) = id
                \/ \E i \in DOMAIN up : up[i].id = id
Awaited == \A k \in DOMAIN pending : UnderWay(pending[k].id)

Inv == Lists /\ Held /\ Linked /\ Rising /\ Awaited /\ OnlyDroppedLost

-----------------------------------------------------------------------------
(* Sequences whose elements are not known.                                 *)

LEMMA FunctionListed ==
    ASSUME NEW n \in Nat, NEW s, s = [i \in 1..n |-> s[i]]
    PROVE  Listed(s) /\ Len(s) = n /\ DOMAIN s = 1..n
<1>1. DOMAIN s = 1..n
  OBVIOUS
<1>2. s \in [1..n -> ToSet(s)]
  BY <1>1 DEF ToSet
<1>3. s \in Seq(ToSet(s))
  BY <1>2, SeqDef
<1> QED
  BY <1>1, <1>3, LenProperties DEF Listed

LEMMA SeqListed ==
    ASSUME NEW S, NEW s \in Seq(S)
    PROVE  Listed(s)
<1>1. s \in [1..Len(s) -> S] /\ Len(s) \in Nat
  BY LenProperties
<1> QED
  BY <1>1, FunctionListed

LEMMA ListedIs ==
    ASSUME NEW s, Listed(s)
    PROVE  Len(s) \in Nat /\ DOMAIN s = 1..Len(s) /\ (s = <<>> <=> Len(s) = 0)
BY LenProperties, EmptySeq DEF Listed

LEMMA EmptyListed == Listed(<<>>) /\ DOMAIN <<>> = {} /\ Len(<<>>) = 0
<1>1. <<>> \in Seq({}) /\ Len(<<>>) = 0
  BY EmptySeq
<1>2. Listed(<<>>)
  BY <1>1, SeqListed
<1> QED
  BY <1>1, <1>2, LenProperties

LEMMA ListedAppend ==
    ASSUME NEW s, Listed(s), NEW e
    PROVE  /\ Listed(Append(s, e)) /\ Len(Append(s, e)) = Len(s) + 1
           /\ \A i \in 1..Len(s) : Append(s, e)[i] = s[i]
           /\ Append(s, e)[Len(s) + 1] = e
<1> DEFINE S == ToSet(s) \cup {e}
<1>1. s \in Seq(S) /\ e \in S
  BY SeqMonotonic DEF Listed
<1>2. Append(s, e) \in Seq(S)
  BY <1>1, AppendProperties
<1>3. Listed(Append(s, e))
  BY <1>2, SeqListed
<1> HIDE DEF S
<1>4. /\ Len(s) \in Nat /\ Len(Append(s, e)) = Len(s) + 1
      /\ \A i \in 1..(Len(s) + 1) :
            Append(s, e)[i] = IF i <= Len(s) THEN s[i] ELSE e
  BY <1>1, AppendProperties, LenProperties
<1> QED
  BY <1>3, <1>4

LEMMA ListedTail ==
    ASSUME NEW s, Listed(s), s # <<>>
    PROVE  /\ Listed(Tail(s)) /\ Len(Tail(s)) = Len(s) - 1 /\ Len(s) >= 1
           /\ Head(s) = s[1]
           /\ \A i \in 1..(Len(s) - 1) : Tail(s)[i] = s[i + 1]
<1>1. s \in Seq(ToSet(s)) /\ Len(s) \in Nat \ {0}
  BY EmptySeq DEF Listed
<1>2. Tail(s) \in Seq(ToSet(s))
  BY <1>1, HeadTailProperties
<1>3. Listed(Tail(s))
  BY <1>2, SeqListed
<1>4. /\ Len(Tail(s)) = Len(s) - 1
      /\ \A i \in 1..Len(Tail(s)) : Tail(s)[i] = s[i + 1]
  BY <1>1, HeadTailProperties
<1>5. Head(s) = s[1]
  BY <1>1
<1> QED
  BY <1>1, <1>3, <1>4, <1>5

LEMMA ListedConcat ==
    ASSUME NEW s, NEW t, Listed(s), Listed(t)
    PROVE  /\ Listed(s \o t) /\ Len(s \o t) = Len(s) + Len(t)
           /\ \A i \in 1..Len(s) : (s \o t)[i] = s[i]
           /\ \A i \in 1..Len(t) : (s \o t)[Len(s) + i] = t[i]
<1> DEFINE S == ToSet(s) \cup ToSet(t)
<1>1. s \in Seq(S) /\ t \in Seq(S)
  BY SeqMonotonic DEF Listed
<1>2. s \o t \in Seq(S)
  BY <1>1, ConcatProperties
<1>3. Len(s) \in Nat /\ Len(t) \in Nat
  BY ListedIs
<1> HIDE DEF S
<1>4. /\ Len(s \o t) = Len(s) + Len(t)
      /\ \A i \in 1..(Len(s) + Len(t)) :
            (s \o t)[i] = IF i <= Len(s) THEN s[i] ELSE t[i - Len(s)]
  BY <1>1, ConcatProperties
<1>5. ASSUME NEW i \in 1..Len(t)
      PROVE  (s \o t)[Len(s) + i] = t[i]
  BY <1>3, <1>4
<1>6. Listed(s \o t)
  BY <1>2, SeqListed
<1> QED
  BY <1>3, <1>4, <1>5, <1>6

LEMMA ListedSub ==
    ASSUME NEW s, Listed(s), NEW m \in 1..(Len(s) + 1), NEW n \in (m - 1)..Len(s)
    PROVE  /\ Listed(SubSeq(s, m, n)) /\ Len(SubSeq(s, m, n)) = n - m + 1
           /\ \A i \in 1..(n - m + 1) : SubSeq(s, m, n)[i] = s[m + i - 1]
<1>1. Len(s) \in Nat /\ DOMAIN s = 1..Len(s)
  BY ListedIs
<1>2. \A i \in m..n : s[i] \in ToSet(s)
  BY <1>1 DEF ToSet
<1>3. m \in Int /\ n \in Int
  BY <1>1
<1>4. /\ SubSeq(s, m, n) \in Seq(ToSet(s))
      /\ Len(SubSeq(s, m, n)) = IF m <= n THEN n - m + 1 ELSE 0
      /\ \A i \in 1..(n - m + 1) : SubSeq(s, m, n)[i] = s[m + i - 1]
  BY <1>2, <1>3, SubSeqProperties
<1>5. Listed(SubSeq(s, m, n))
  BY <1>4, SeqListed
<1> QED
  BY <1>1, <1>3, <1>4, <1>5

-----------------------------------------------------------------------------
(* _takePending.                                                           *)

LEMMA PositionIs ==
    ASSUME Listed(pending), Sorted(pending), Made(pending), edits \in Nat, NEW ref
    PROVE  /\ Position(ref) \in 0..Len(pending)
           /\ Position(ref) = 0 => \A i \in 1..Len(pending) : pending[i].id # ref
           /\ Position(ref) # 0 => pending[Position(ref)].id = ref
<1>1. Len(pending) \in Nat /\ DOMAIN pending = 1..Len(pending)
  BY ListedIs
<1> DEFINE I == {i \in 1..Len(pending) : pending[i].id = ref}
<1>2. Position(ref) = IF I # {} THEN Min(I) ELSE 0
  BY DEF Position, SelectInSeq
<1>3. CASE I = {}
  BY <1>1, <1>2, <1>3
<1>4. CASE I # {}
  <2>1. PICK i \in 1..Len(pending) : pending[i].id = ref
    BY <1>4
  <2>2. ASSUME NEW j \in 1..Len(pending), pending[j].id = ref
        PROVE  j = i
    <3>0. ref \in 1..edits
      BY <1>1, <2>1 DEF Made, Ids
    <3>1. ~(i < j) /\ ~(j < i)
      BY <1>1, <2>1, <2>2, <3>0 DEF Sorted
    <3> QED
      BY <1>1, <3>1
  <2>3. I = {i}
    BY <2>1, <2>2
  <2>4. Min(I) = i
    BY <2>3, <1>1 DEF Min
  <2> QED
    BY <1>1, <1>2, <1>4, <2>1, <2>4
<1> QED
  BY <1>3, <1>4

(* The invariant by indices. *)
LEMMA Spelled ==
    ASSUME Lists
    PROVE  /\ Len(up) \in Nat /\ DOMAIN up = 1..Len(up) /\ (up = <<>> <=> Len(up) = 0)
           /\ Len(down) \in Nat /\ DOMAIN down = 1..Len(down) /\ (down = <<>> <=> Len(down) = 0)
           /\ Len(late) \in Nat /\ DOMAIN late = 1..Len(late) /\ (late = <<>> <=> Len(late) = 0)
           /\ Len(ghost) \in Nat /\ DOMAIN ghost = 1..Len(ghost)
           /\ Len(pending) \in Nat /\ DOMAIN pending = 1..Len(pending)
           /\ Len(buffered) \in Nat /\ DOMAIN buffered = 1..Len(buffered)
           /\ edits \in Nat
BY ListedIs DEF Lists

(* The frame that is taken is the next answer, if it is one, and answers   *)
(* the first of the pending operations.                                    *)
LEMMA FirstIsAnswered ==
    ASSUME Inv, down # <<>>, Position(Ref(Head(down))) # 0
    PROVE  Position(Ref(Head(down))) = 1
<1> DEFINE ref == Ref(Head(down))
           p   == Position(ref)
<1>1. /\ Len(pending) \in Nat /\ DOMAIN pending = 1..Len(pending)
      /\ Len(down) \in Nat /\ DOMAIN down = 1..Len(down)
      /\ DOMAIN up = 1..Len(up) /\ Len(up) \in Nat
  BY Spelled DEF Inv
<1>2. Head(down) = down[1] /\ 1 \in DOMAIN down
  BY <1>1, ListedTail DEF Inv, Lists
<1>3. p \in 1..Len(pending) /\ pending[p].id = ref
  BY <1>1, PositionIs DEF Inv, Lists, Held
<1>4. \A i \in DOMAIN pending : pending[i].id \in 1..edits
  BY DEF Inv, Held, Made, Ids
<1> SUFFICES ASSUME p # 1
             PROVE  FALSE
  OBVIOUS
<1>5. 1 \in DOMAIN pending /\ 1 < p /\ edits \in Nat
  BY <1>1, <1>3 DEF Inv, Lists
<1>6. pending[1].id < ref
  BY <1>1, <1>3, <1>5 DEF Inv, Held, Sorted
<1>7. UnderWay(pending[1].id) /\ pending[1].id \in 1..edits /\ ref \in 1..edits
  BY <1>1, <1>3, <1>4, <1>5 DEF Inv, Awaited
<1> HIDE DEF ref, p
<1>8. CASE \E i \in DOMAIN down : Ref(down[i]) = pending[1].id
  <2>1. PICK i \in DOMAIN down : Ref(down[i]) = pending[1].id
    BY <1>8
  <2>2. i # 1
    BY <1>2, <1>5, <1>6, <1>7, <2>1 DEF ref
  <2>3. ref < Ref(down[i])
    BY <1>1, <1>2, <1>5, <1>7, <2>1, <2>2 DEF Inv, Rising, ref
  <2> QED
    BY <1>5, <1>6, <1>7, <2>1, <2>3
<1>9. CASE \E i \in DOMAIN up : up[i].id = pending[1].id
  <2>1. PICK i \in DOMAIN up : up[i].id = pending[1].id
    BY <1>9
  <2>2. ref < up[i].id
    BY <1>2, <2>1 DEF Inv, Rising, ref
  <2> QED
    BY <1>5, <1>6, <1>7, <2>1, <2>2
<1> QED
  BY <1>7, <1>8, <1>9 DEF UnderWay

LEMMA InitInv == Init => Inv
<1> SUFFICES ASSUME Init
             PROVE  Inv
  OBVIOUS
<1>1. Lists
  BY EmptyListed DEF Init, Lists
<1>2. Held /\ Linked /\ Rising /\ Awaited
  BY EmptyListed DEF Init, Held, Linked, Rising, Awaited, Sorted, Made, Ids, Online
<1>3. OnlyDroppedLost
  BY EmptyListed DEF Init, OnlyDroppedLost, Ids
<1> QED
  BY <1>1, <1>2, <1>3 DEF Inv

-----------------------------------------------------------------------------
(* Edits.                                                                  *)

LEMMA AppendSorted ==
    ASSUME NEW s, Listed(s), Sorted(s), NEW n \in Nat, Ids(s) \subseteq 1..n,
           NEW e, e.id = n + 1
    PROVE  /\ Listed(Append(s, e)) /\ Sorted(Append(s, e))
           /\ Ids(Append(s, e)) = Ids(s) \cup {n + 1}
<1>1. /\ Len(s) \in Nat /\ DOMAIN s = 1..Len(s)
      /\ Listed(Append(s, e)) /\ DOMAIN Append(s, e) = 1..(Len(s) + 1)
      /\ \A i \in 1..Len(s) : Append(s, e)[i] = s[i]
      /\ Append(s, e)[Len(s) + 1] = e
  BY ListedIs, ListedAppend
<1>2. \A i \in DOMAIN s : s[i].id \in 1..n
  BY DEF Ids
<1>3. Sorted(Append(s, e))
  <2> SUFFICES ASSUME NEW i \in 1..(Len(s) + 1), NEW j \in 1..(Len(s) + 1), i < j
               PROVE  Append(s, e)[i].id < Append(s, e)[j].id
    BY <1>1 DEF Sorted
  <2>1. i \in 1..Len(s)
    BY <1>1
  <2>2. CASE j \in 1..Len(s)
    BY <1>1, <2>1, <2>2 DEF Sorted
  <2>3. CASE j = Len(s) + 1
    BY <1>1, <1>2, <2>1, <2>3
  <2> QED
    BY <1>1, <2>2, <2>3
<1>4. Ids(Append(s, e)) = Ids(s) \cup {n + 1}
  <2>1. ASSUME NEW x \in Ids(Append(s, e))
        PROVE  x \in Ids(s) \cup {n + 1}
    <3>1. PICK i \in 1..(Len(s) + 1) : x = Append(s, e)[i].id
      BY <1>1, <2>1 DEF Ids
    <3>2. i \in 1..Len(s) \/ i = Len(s) + 1
      BY <1>1
    <3> QED
      BY <1>1, <3>1, <3>2 DEF Ids
  <2>2. ASSUME NEW x \in Ids(s)
        PROVE  x \in Ids(Append(s, e))
    <3>1. PICK i \in 1..Len(s) : x = s[i].id
      BY <1>1, <2>2 DEF Ids
    <3>2. x = Append(s, e)[i].id /\ i \in 1..(Len(s) + 1)
      BY <1>1, <3>1
    <3> QED
      BY <1>1, <3>2 DEF Ids
  <2>3. n + 1 \in Ids(Append(s, e))
    <3>1. Len(s) + 1 \in 1..(Len(s) + 1)
      BY <1>1
    <3> QED
      BY <1>1, <3>1 DEF Ids
  <2> QED
    BY <2>1, <2>2, <2>3
<1> QED
  BY <1>1, <1>3, <1>4

LEMMA QueueInv ==
    ASSUME Inv, NEW o, NEW a, NEW g, NEW w, Queue(o, a, g, w)
    PROVE  Inv'
<1> DEFINE e == Entry(edits + 1, o, a, g, w)
           r == [id |-> edits + 1, ops |-> o]
<1>1. /\ edits' = edits + 1 /\ edits \in Nat /\ edits' \in Nat
      /\ UNCHANGED <<srv, late, down, ghost, link, decided, dropped>>
      /\ IF Online THEN pending' = Append(pending, e) /\ up' = Append(up, r)
                        /\ buffered' = buffered
         ELSE buffered' = Append(buffered, r) /\ pending' = pending /\ up' = up
  BY DEF Queue, Inv, Lists
<1>2. e.id = edits + 1 /\ r.id = edits + 1
  BY DEF Entry
<1> HIDE DEF e, r
<1>3. \A s : Ids(s) \subseteq 1..edits => Ids(s) \subseteq 1..(edits + 1)
  BY <1>1
<1>4. /\ 1..(edits + 1) = 1..edits \cup {edits + 1}
      /\ decided \cup dropped \subseteq 1..edits
  BY <1>1 DEF Inv, Held
<1>5. Online' <=> Online
  BY <1>1 DEF Online
<1>6. CASE Online
  <2>1. /\ Listed(pending') /\ Sorted(pending')
        /\ Ids(pending') = Ids(pending) \cup {edits + 1}
    <3>1. /\ Listed(pending) /\ Sorted(pending) /\ Ids(pending) \subseteq 1..edits
          /\ pending' = Append(pending, e)
      BY <1>1, <1>6 DEF Inv, Lists, Held, Made
    <3>2. /\ Listed(Append(pending, e)) /\ Sorted(Append(pending, e))
          /\ Ids(Append(pending, e)) = Ids(pending) \cup {edits + 1}
      BY <1>1, <1>2, <3>1, AppendSorted
    <3> QED
      BY <3>1, <3>2
  <2>2. /\ Listed(up') /\ Sorted(up')
        /\ Ids(up') = Ids(up) \cup {edits + 1}
    <3>1. /\ Listed(up) /\ Sorted(up) /\ Ids(up) \subseteq 1..edits
          /\ up' = Append(up, r)
      BY <1>1, <1>6 DEF Inv, Lists, Held, Made, Rising
    <3>2. /\ Listed(Append(up, r)) /\ Sorted(Append(up, r))
          /\ Ids(Append(up, r)) = Ids(up) \cup {edits + 1}
      BY <1>1, <1>2, <3>1, AppendSorted
    <3> QED
      BY <3>1, <3>2
  <2>3. Lists'
    BY <1>1, <1>6, <2>1, <2>2 DEF Inv, Lists
  <2>4. Held'
    BY <1>1, <1>3, <1>4, <1>5, <1>6, <2>1, <2>2 DEF Inv, Held, Made
  <2>5. /\ Len(up) \in Nat /\ DOMAIN up = 1..Len(up) /\ (up = <<>> <=> Len(up) = 0)
        /\ DOMAIN up' = 1..(Len(up) + 1) /\ up'[Len(up) + 1] = r
        /\ \A i \in DOMAIN up : up'[i] = up[i]
        /\ (up' = <<>> <=> Len(up) + 1 = 0)
        /\ Len(pending) \in Nat /\ DOMAIN pending = 1..Len(pending)
        /\ DOMAIN pending' = 1..(Len(pending) + 1) /\ pending'[Len(pending) + 1] = e
        /\ \A i \in DOMAIN pending : pending'[i] = pending[i]
    <3>1. Listed(up) /\ up' = Append(up, r) /\ Listed(up')
      BY <1>1, <1>6, <2>2 DEF Inv, Lists
    <3>2. Listed(pending) /\ pending' = Append(pending, e) /\ Listed(pending')
      BY <1>1, <1>6, <2>1 DEF Inv, Lists
    <3>3. /\ Len(up) \in Nat /\ DOMAIN up = 1..Len(up) /\ (up = <<>> <=> Len(up) = 0)
          /\ DOMAIN up' = 1..Len(up') /\ (up' = <<>> <=> Len(up') = 0)
          /\ Len(up') = Len(up) + 1 /\ up'[Len(up) + 1] = r
          /\ \A i \in 1..Len(up) : up'[i] = up[i]
      BY <3>1, ListedIs, ListedAppend
    <3>4. /\ Len(pending) \in Nat /\ DOMAIN pending = 1..Len(pending)
          /\ DOMAIN pending' = 1..Len(pending')
          /\ Len(pending') = Len(pending) + 1 /\ pending'[Len(pending) + 1] = e
          /\ \A i \in 1..Len(pending) : pending'[i] = pending[i]
      BY <3>2, ListedIs, ListedAppend
    <3> QED
      BY <3>3, <3>4
  <2>6. Linked'
    <3>1. up # <<>> => up' # <<>> /\ Head(up') = Head(up)
      <4>1. up # <<>> => up' # <<>> /\ 1 \in DOMAIN up
        BY <2>5
      <4>2. up # <<>> => Head(up') = up'[1] /\ Head(up) = up[1]
        BY <2>2, <4>1, ListedTail DEF Inv, Lists
      <4> QED
        BY <2>5, <4>1, <4>2
    <3> QED
      BY <1>1, <3>1 DEF Inv, Linked
  <2>7. Rising'
    <3>1. ASSUME NEW i \in DOMAIN down, NEW j \in DOMAIN up'
          PROVE  Ref(down[i]) < up'[j].id
      <4>1. CASE j \in DOMAIN up
        BY <2>5, <4>1 DEF Inv, Rising
      <4>2. CASE j = Len(up) + 1
        <5>1. Ref(down[i]) \in {0} \cup 1..edits
          BY <1>4 DEF Inv, Rising
        <5> QED
          BY <1>1, <1>2, <2>5, <4>2, <5>1
      <4> QED
        BY <2>5, <4>1, <4>2
    <3> QED
      BY <1>1, <2>2, <3>1 DEF Inv, Rising
  <2>8. Awaited'
    <3> SUFFICES ASSUME NEW k \in DOMAIN pending'
                 PROVE  \/ \E i \in DOMAIN down : Ref(down[i]) = pending'[k].id
                        \/ \E i \in DOMAIN up' : up'[i].id = pending'[k].id
      BY <1>1 DEF Awaited, UnderWay
    <3>1. CASE k \in DOMAIN pending
      <4>1. UnderWay(pending[k].id)
        BY <3>1 DEF Inv, Awaited
      <4>2. pending'[k] = pending[k] /\ \A i \in DOMAIN up : i \in DOMAIN up' /\ up'[i] = up[i]
        BY <2>5, <3>1
      <4> QED
        BY <4>1, <4>2 DEF UnderWay
    <3>2. CASE k = Len(pending) + 1
      <4>1. Len(up) + 1 \in DOMAIN up' /\ up'[Len(up) + 1].id = edits + 1
        BY <1>2, <2>5
      <4> QED
        BY <1>2, <2>5, <3>2, <4>1
    <3> QED
      BY <2>5, <3>1, <3>2
  <2>9. OnlyDroppedLost'
    BY <1>1, <1>4, <1>6, <2>1 DEF Inv, OnlyDroppedLost
  <2> QED
    BY <2>3, <2>4, <2>6, <2>7, <2>8, <2>9 DEF Inv
<1>7. CASE ~Online
  <2>1. /\ Listed(buffered') /\ Sorted(buffered')
        /\ Ids(buffered') = Ids(buffered) \cup {edits + 1}
    <3>1. /\ Listed(buffered) /\ Sorted(buffered) /\ Ids(buffered) \subseteq 1..edits
          /\ buffered' = Append(buffered, r)
      BY <1>1, <1>7 DEF Inv, Lists, Held, Made
    <3>2. /\ Listed(Append(buffered, r)) /\ Sorted(Append(buffered, r))
          /\ Ids(Append(buffered, r)) = Ids(buffered) \cup {edits + 1}
      BY <1>1, <1>2, <3>1, AppendSorted
    <3> QED
      BY <3>1, <3>2
  <2>2. Lists'
    BY <1>1, <1>7, <2>1 DEF Inv, Lists
  <2>3. Held'
    BY <1>1, <1>3, <1>4, <1>5, <1>7, <2>1 DEF Inv, Held, Made
  <2>4. Linked' /\ Rising' /\ Awaited'
    BY <1>1, <1>7 DEF Inv, Linked, Rising, Awaited, UnderWay
  <2>5. OnlyDroppedLost'
    BY <1>1, <1>4, <1>7, <2>1 DEF Inv, OnlyDroppedLost
  <2> QED
    BY <2>2, <2>3, <2>4, <2>5 DEF Inv
<1> QED
  BY <1>6, <1>7

LEMMA EditInv ==
    ASSUME Inv, Edit
    PROVE  Inv'
<1>1. PICK n \in Nodes :
         \/ \E v \in Values : SetField(n, v) \/ SetPendingField(n, v)
         \/ \E v \in Values, w \in {"append", "prepend"} : CreateNode(n, v, w)
         \/ DeleteNode(n)
         \/ MoveNode(n)
         \/ \E t \in Nodes, w \in {"before", "after"} : MoveNodeRelative(n, t, w)
  BY DEF Edit
<1>2. ASSUME NEW o, Built(o) PROVE Inv'
  BY <1>2, QueueInv DEF Built
<1>3. ASSUME NEW v \in Values, SetField(n, v) \/ SetPendingField(n, v)
      PROVE  Inv'
  BY <1>2, <1>3, QueueInv DEF SetField, SetPendingField
<1>4. ASSUME NEW v \in Values, NEW w \in {"append", "prepend"}, CreateNode(n, v, w)
      PROVE  Inv'
  BY <1>2, <1>4 DEF CreateNode
<1>5. ASSUME DeleteNode(n) \/ MoveNode(n)
      PROVE  Inv'
  BY <1>2, <1>5 DEF DeleteNode, MoveNode
<1>6. ASSUME NEW t \in Nodes, NEW w \in {"before", "after"}, MoveNodeRelative(n, t, w)
      PROVE  Inv'
  BY <1>2, <1>6 DEF MoveNodeRelative
<1> QED
  BY <1>1, <1>3, <1>4, <1>5, <1>6

-----------------------------------------------------------------------------
(* The server.                                                             *)

(* The answer to the first request is sent. *)
LEMMA AnsweredInv ==
    ASSUME Inv, NEW m, m.type # "snapshot", m.ref = Head(up).id, up # <<>>,
           down' = Append(down, m), up' = Tail(up),
           decided' = decided \cup {Head(up).id}, srv' # "reject", link # "down",
           UNCHANGED <<late, ghost, link, pending, buffered, dropped, edits>>
    PROVE  Inv'
<1>1. /\ Len(up) \in Nat /\ DOMAIN up = 1..Len(up) /\ Len(up) >= 1
      /\ Head(up) = up[1] /\ Listed(up') /\ DOMAIN up' = 1..(Len(up) - 1)
      /\ \A i \in 1..(Len(up) - 1) : up'[i] = up[i + 1]
  <2>1. Listed(up)
    BY DEF Inv, Lists
  <2>2. /\ Listed(Tail(up)) /\ Len(Tail(up)) = Len(up) - 1 /\ Len(up) >= 1
        /\ Head(up) = up[1]
        /\ \A i \in 1..(Len(up) - 1) : Tail(up)[i] = up[i + 1]
    BY <2>1, ListedTail
  <2> QED
    BY <2>1, <2>2, ListedIs
<1>2. /\ Len(down) \in Nat /\ DOMAIN down = 1..Len(down)
      /\ Listed(down') /\ DOMAIN down' = 1..(Len(down) + 1)
      /\ down'[Len(down) + 1] = m
      /\ \A i \in DOMAIN down : down'[i] = down[i]
  <2>1. Listed(down)
    BY DEF Inv, Lists
  <2>2. /\ Listed(Append(down, m)) /\ Len(Append(down, m)) = Len(down) + 1
        /\ Append(down, m)[Len(down) + 1] = m
        /\ \A i \in 1..Len(down) : Append(down, m)[i] = down[i]
    BY <2>1, ListedAppend
  <2> QED
    BY <2>1, <2>2, ListedIs
<1>3. /\ up[1].id \in 1..edits /\ edits \in Nat /\ Ref(m) = up[1].id /\ 1 \in DOMAIN up
      /\ \A i \in DOMAIN up : up[i].id \in 1..edits
      /\ \A i \in DOMAIN up' : up'[i].id \in 1..edits
  <2>1. \A i \in DOMAIN up : up[i].id \in 1..edits
    BY DEF Inv, Held, Made, Ids
  <2> QED
    BY <1>1, <2>1 DEF Inv, Lists, Ref
<1>4. Lists'
  BY <1>1, <1>2 DEF Inv, Lists
<1>5. Online /\ Online'
  BY DEF Inv, Held, Online
<1>6. Held'
  <2>1. Made(up)'
    BY <1>3 DEF Made, Ids
  <2> QED
    BY <1>1, <1>3, <1>5, <2>1 DEF Inv, Held, Made
<1>7. Linked'
  BY <1>5 DEF Inv, Linked, Online
<1>8. Rising'
  <2>1. ASSUME NEW i \in DOMAIN down'
        PROVE  /\ Ref(down'[i]) \in {0} \cup decided'
               /\ \A j \in DOMAIN up' : Ref(down'[i]) < up'[j].id
    <3>1. CASE i \in DOMAIN down
      <4>1. ASSUME NEW j \in DOMAIN up'
            PROVE  Ref(down[i]) < up'[j].id
        BY <1>1, <3>1 DEF Inv, Rising
      <4> QED
        BY <1>2, <3>1, <4>1 DEF Inv, Rising
    <3>2. CASE i = Len(down) + 1
      <4>1. ASSUME NEW j \in DOMAIN up'
            PROVE  Ref(m) < up'[j].id
        <5>1. j + 1 \in DOMAIN up /\ 1 < j + 1 /\ up'[j] = up[j + 1]
          BY <1>1
        <5> QED
          BY <1>3, <5>1 DEF Inv, Rising, Sorted
      <4> QED
        BY <1>1, <1>2, <1>3, <3>2, <4>1
    <3> QED
      BY <1>2, <3>1, <3>2
  <2>2. ASSUME NEW i \in DOMAIN down', NEW j \in DOMAIN down', i < j, Ref(down'[j]) # 0
        PROVE  Ref(down'[i]) < Ref(down'[j])
    <3>1. i \in DOMAIN down /\ down'[i] = down[i]
      BY <1>2, <2>2
    <3>2. CASE j \in DOMAIN down
      BY <1>2, <2>2, <3>1, <3>2 DEF Inv, Rising
    <3>3. CASE j = Len(down) + 1
      BY <1>2, <1>3, <3>1, <3>3 DEF Inv, Rising
    <3> QED
      BY <1>2, <3>2, <3>3
  <2>3. Sorted(up)'
    <3> SUFFICES ASSUME NEW i \in 1..(Len(up) - 1), NEW j \in 1..(Len(up) - 1), i < j
                 PROVE  up'[i].id < up'[j].id
      BY <1>1 DEF Sorted
    <3>1. i + 1 \in DOMAIN up /\ j + 1 \in DOMAIN up /\ i + 1 < j + 1
      BY <1>1
    <3> QED
      BY <1>1, <3>1 DEF Inv, Rising, Sorted
  <2> QED
    BY <2>1, <2>2, <2>3 DEF Rising
<1>9. Awaited'
  <2> SUFFICES ASSUME NEW k \in DOMAIN pending
               PROVE  \/ \E i \in DOMAIN down' : Ref(down'[i]) = pending[k].id
                      \/ \E i \in DOMAIN up' : up'[i].id = pending[k].id
    BY DEF Awaited, UnderWay
  <2>1. UnderWay(pending[k].id)
    BY DEF Inv, Awaited
  <2>2. ASSUME NEW i \in DOMAIN down, Ref(down[i]) = pending[k].id
        PROVE  \E j \in DOMAIN down' : Ref(down'[j]) = pending[k].id
    BY <1>2, <2>2
  <2>3. ASSUME NEW i \in DOMAIN up, up[i].id = pending[k].id, i # 1
        PROVE  \E j \in DOMAIN up' : up'[j].id = pending[k].id
    <3>1. i - 1 \in DOMAIN up' /\ up'[i - 1] = up[i]
      BY <1>1, <2>3
    <3> QED
      BY <2>3, <3>1
  <2>4. ASSUME up[1].id = pending[k].id
        PROVE  \E j \in DOMAIN down' : Ref(down'[j]) = pending[k].id
    <3>1. Len(down) + 1 \in DOMAIN down' /\ Ref(down'[Len(down) + 1]) = pending[k].id
      BY <1>2, <1>3, <2>4
    <3> QED
      BY <3>1
  <2> QED
    BY <2>1, <2>2, <2>3, <2>4 DEF UnderWay
<1>10. OnlyDroppedLost'
  BY <1>1, <1>3 DEF Inv, OnlyDroppedLost
<1> QED
  BY <1>4, <1>6, <1>7, <1>8, <1>9, <1>10 DEF Inv

LEMMA HeadIsMade ==
    ASSUME Inv
    PROVE  /\ up # <<>> => Head(up).id \in 1..edits
           /\ ghost # <<>> => Head(ghost).id \in 1..edits
<1>1. Listed(up) /\ Listed(ghost)
  BY DEF Inv, Lists
<1>2. up # <<>> => Head(up) = up[1] /\ 1 \in DOMAIN up
  BY <1>1, ListedTail, ListedIs
<1>3. ghost # <<>> => Head(ghost) = ghost[1] /\ 1 \in DOMAIN ghost
  BY <1>1, ListedTail, ListedIs
<1> QED
  BY <1>2, <1>3 DEF Inv, Held, Made, Ids

LEMMA ServeInv ==
    ASSUME Inv, Serve
    PROVE  Inv'
<1>1. /\ link # "down" /\ srv = "idle" /\ up # <<>>
      /\ decided' = decided \cup {Head(up).id}
      /\ UNCHANGED <<late, ghost, link, pending, buffered, dropped, edits>>
  BY DEF Serve, client, counts
<1>2. CASE Applies(sdoc, Head(up).ops)
  <2>1. PICK o : down' = Append(down, PatchMsg(Head(up).id, o))
    BY <1>2 DEF Serve
  <2>2. srv' = srv /\ up' = Tail(up)
    BY <1>2 DEF Serve
  <2>3. /\ PatchMsg(Head(up).id, o).type # "snapshot"
        /\ PatchMsg(Head(up).id, o).ref = Head(up).id
    BY DEF PatchMsg
  <2> QED
    BY <1>1, <2>1, <2>2, <2>3, AnsweredInv
<1>3. CASE ~Applies(sdoc, Head(up).ops)
  <2>1. srv' = "reject" /\ UNCHANGED <<down, up>>
    BY <1>3 DEF Serve
  <2>2. Head(up).id \in 1..edits
    BY <1>1, HeadIsMade
  <2>3. Lists' /\ Held' /\ Linked'
    BY <1>1, <2>1, <2>2 DEF Inv, Lists, Held, Linked, Made, Online
  <2>4. Rising' /\ Awaited'
    BY <1>1, <2>1 DEF Inv, Rising, Awaited, UnderWay
  <2>5. OnlyDroppedLost'
    BY <1>1, <2>2 DEF Inv, OnlyDroppedLost
  <2> QED
    BY <2>3, <2>4, <2>5 DEF Inv
<1> QED
  BY <1>2, <1>3

LEMMA SendErrorInv ==
    ASSUME Inv, SendError
    PROVE  Inv'
<1>1. /\ srv = "reject" /\ srv' = "resync"
      /\ down' = Append(down, ErrorMsg(Head(up).id)) /\ up' = Tail(up)
      /\ UNCHANGED <<late, ghost, link, pending, buffered, decided, dropped, edits>>
  BY DEF SendError, client, counts
<1>2. up # <<>> /\ Head(up).id \in decided /\ link # "down"
  BY <1>1 DEF Inv, Linked
<1>3. decided' = decided \cup {Head(up).id}
  BY <1>1, <1>2
<1>4. /\ ErrorMsg(Head(up).id).type # "snapshot"
      /\ ErrorMsg(Head(up).id).ref = Head(up).id
  BY DEF ErrorMsg
<1> QED
  BY <1>1, <1>2, <1>3, <1>4, AnsweredInv

(* Frames that answer nothing are sent, and a request nobody waits for is  *)
(* decided.                                                                *)
LEMMA ToldInv ==
    ASSUME Inv, Listed(down'), Len(down) <= Len(down'),
           \A i \in 1..Len(down) : down'[i] = down[i],
           \A i \in 1..Len(down') : i > Len(down) => Ref(down'[i]) = 0,
           Listed(late'), \A i \in DOMAIN late' : Ref(late'[i]) = 0,
           link = "down" => down' = down /\ late' = late,
           srv' = srv \/ srv' = "idle",
           Listed(ghost'), Ids(ghost') \subseteq Ids(ghost),
           decided \subseteq decided', decided' \subseteq decided \cup Ids(ghost),
           UNCHANGED <<up, link, pending, buffered, dropped, edits>>
    PROVE  Inv'
<1>1. /\ Len(down) \in Nat /\ DOMAIN down = 1..Len(down)
      /\ Len(down') \in Nat /\ DOMAIN down' = 1..Len(down') /\ edits \in Nat
  BY ListedIs DEF Inv, Lists
<1>2. Lists'
  BY DEF Inv, Lists
<1>3. Held'
  BY DEF Inv, Held, Made, Online
<1>4. ASSUME NEW i \in DOMAIN down'
      PROVE  \/ i \in DOMAIN down /\ down'[i] = down[i]
             \/ i > Len(down) /\ Ref(down'[i]) = 0
  BY <1>1
<1>5. Linked'
  <2>1. link = "pending" => \A i \in DOMAIN down' : Ref(down'[i]) = 0
    BY <1>4 DEF Inv, Linked
  <2> QED
    BY <2>1 DEF Inv, Linked
<1>6. Rising'
  <2>1. \A i \in DOMAIN up : up[i].id \in 1..edits
    BY DEF Inv, Held, Made, Ids
  <2>2. ASSUME NEW i \in DOMAIN down'
        PROVE  /\ Ref(down'[i]) \in {0} \cup decided'
               /\ \A j \in DOMAIN up : Ref(down'[i]) < up[j].id
    <3>1. CASE i \in DOMAIN down /\ down'[i] = down[i]
      BY <3>1 DEF Inv, Rising
    <3>2. CASE Ref(down'[i]) = 0
      BY <1>1, <2>1, <3>2
    <3> QED
      BY <1>4, <3>1, <3>2
  <2>3. ASSUME NEW i \in DOMAIN down', NEW j \in DOMAIN down', i < j, Ref(down'[j]) # 0
        PROVE  Ref(down'[i]) < Ref(down'[j])
    <3>1. j \in DOMAIN down /\ down'[j] = down[j]
      BY <1>4, <2>3
    <3>2. i \in DOMAIN down /\ down'[i] = down[i]
      BY <1>1, <2>3, <3>1
    <3> QED
      BY <2>3, <3>1, <3>2 DEF Inv, Rising
  <2> QED
    BY <2>2, <2>3 DEF Inv, Rising
<1>7. Awaited'
  <2> SUFFICES ASSUME NEW k \in DOMAIN pending
               PROVE  \/ \E i \in DOMAIN down' : Ref(down'[i]) = pending[k].id
                      \/ \E i \in DOMAIN up : up[i].id = pending[k].id
    BY DEF Awaited, UnderWay
  <2>1. UnderWay(pending[k].id)
    BY DEF Inv, Awaited
  <2>2. ASSUME NEW i \in DOMAIN down, Ref(down[i]) = pending[k].id
        PROVE  \E j \in DOMAIN down' : Ref(down'[j]) = pending[k].id
    <3>1. i \in DOMAIN down' /\ down'[i] = down[i]
      BY <1>1
    <3> QED
      BY <2>2, <3>1
  <2> QED
    BY <2>1, <2>2 DEF UnderWay
<1>8. OnlyDroppedLost'
  BY DEF Inv, Held, Made, OnlyDroppedLost
<1> QED
  BY <1>2, <1>3, <1>5, <1>6, <1>7, <1>8 DEF Inv

LEMMA ResyncInv ==
    ASSUME Inv, Resync
    PROVE  Inv'
<1> DEFINE m == SnapshotMsg(sdoc)
           s == Append(down, m)
<1>1. /\ down' = s \o late /\ late' = <<>> /\ srv = "resync" /\ srv' = "idle"
      /\ UNCHANGED <<up, ghost, link, pending, buffered, decided, dropped, edits>>
  BY DEF Resync, client, counts
<1>2. Ref(m) = 0
  BY DEF SnapshotMsg, Ref
<1> HIDE DEF m
<1>3. /\ Listed(down) /\ Listed(late) /\ Len(down) \in Nat
      /\ Listed(s) /\ Len(s) = Len(down) + 1
      /\ s[Len(down) + 1] = m /\ \A i \in 1..Len(down) : s[i] = down[i]
  BY ListedAppend, ListedIs DEF Inv, Lists
<1> HIDE DEF s
<1>4. /\ Listed(down') /\ Len(down') = Len(s) + Len(late) /\ Len(late) \in Nat
      /\ DOMAIN late = 1..Len(late)
      /\ \A i \in 1..Len(s) : down'[i] = s[i]
      /\ \A i \in 1..Len(late) : down'[Len(s) + i] = late[i]
  BY <1>1, <1>3, ListedConcat, ListedIs
<1>5. \A i \in 1..Len(down) : down'[i] = down[i]
  BY <1>3, <1>4
<1>6. ASSUME NEW i \in 1..Len(down'), i > Len(down)
      PROVE  Ref(down'[i]) = 0
  <2>1. CASE i = Len(down) + 1
    BY <1>2, <1>3, <1>4, <2>1
  <2>2. CASE i > Len(down) + 1
    <3>1. i - Len(s) \in 1..Len(late) /\ i = Len(s) + (i - Len(s))
      BY <1>3, <1>4, <2>2
    <3>2. down'[i] = late[i - Len(s)]
      BY <1>4, <3>1
    <3> QED
      BY <1>4, <3>1, <3>2 DEF Inv, Linked
  <2> QED
    BY <1>3, <1>4, <1>6, <2>1, <2>2
<1>7. link # "down" /\ Listed(late') /\ DOMAIN late' = {} /\ Listed(ghost)
  BY <1>1, EmptyListed DEF Inv, Linked, Lists
<1>8. Len(down) <= Len(down')
  BY <1>3, <1>4
<1> QED
  BY <1>1, <1>4, <1>5, <1>6, <1>7, <1>8, ToldInv

LEMMA BroadcastInv ==
    ASSUME Inv, NEW o, Broadcast(o),
           Listed(ghost'), Ids(ghost') \subseteq Ids(ghost),
           decided \subseteq decided', decided' \subseteq decided \cup Ids(ghost)
    PROVE  Inv'
<1> DEFINE m == PatchMsg(0, Recorded(sdoc, o, sdoc'))
<1>1. /\ \/ link = "down" /\ UNCHANGED <<down, late>>
         \/ link # "down" /\ late = <<>> /\ down' = Append(down, m) /\ late' = late
         \/ srv = "resync" /\ late' = Append(late, m) /\ down' = down
      /\ UNCHANGED <<srv, up, link, pending, buffered, edits, dropped>>
  BY DEF Broadcast, client
<1>2. Ref(m) = 0
  BY DEF PatchMsg, Ref
<1> HIDE DEF m
<1>3. /\ Listed(down) /\ Listed(late) /\ Len(down) \in Nat /\ Len(late) \in Nat
      /\ DOMAIN late = 1..Len(late)
  BY ListedIs DEF Inv, Lists
<1>4. \A i \in DOMAIN late : Ref(late[i]) = 0
  BY DEF Inv, Linked
<1> DEFINE Same == /\ Listed(down') /\ Len(down) <= Len(down')
                   /\ \A i \in 1..Len(down) : down'[i] = down[i]
                   /\ \A i \in 1..Len(down') : i > Len(down) => Ref(down'[i]) = 0
<1>5. down' = down => Same
  BY <1>3
<1>6. CASE UNCHANGED <<down, late>>
  <2>1. Same
    BY <1>5, <1>6
  <2>2. Listed(late') /\ \A i \in DOMAIN late' : Ref(late'[i]) = 0
    BY <1>3, <1>4, <1>6
  <2>3. link = "down" => down' = down /\ late' = late
    BY <1>6
  <2> QED
    BY <1>1, <2>1, <2>2, <2>3, ToldInv
<1>7. CASE link # "down" /\ down' = Append(down, m) /\ late' = late
  <2>1. /\ Listed(down') /\ Len(down') = Len(down) + 1
        /\ down'[Len(down) + 1] = m /\ \A i \in 1..Len(down) : down'[i] = down[i]
    BY <1>3, <1>7, ListedAppend
  <2>2. \A i \in 1..Len(down') : i > Len(down) => Ref(down'[i]) = 0
    BY <1>2, <1>3, <2>1
  <2>3. Len(down) <= Len(down')
    BY <1>3, <2>1
  <2> QED
    BY <1>1, <1>3, <1>4, <1>7, <2>1, <2>2, <2>3, ToldInv
<1>8. CASE srv = "resync" /\ late' = Append(late, m) /\ down' = down
  <2>1. /\ Listed(late') /\ Len(late') = Len(late) + 1
        /\ late'[Len(late) + 1] = m /\ \A i \in 1..Len(late) : late'[i] = late[i]
    BY <1>3, <1>8, ListedAppend
  <2>2. \A i \in DOMAIN late' : Ref(late'[i]) = 0
    BY <1>2, <1>3, <1>4, <2>1, ListedIs
  <2>3. link # "down"
    BY <1>8 DEF Inv, Linked
  <2> QED
    BY <1>1, <1>8, <1>5, <2>1, <2>2, <2>3, ToldInv
<1> QED
  BY <1>1, <1>6, <1>7, <1>8

LEMMA HostCommitInv ==
    ASSUME Inv, HostCommit
    PROVE  Inv'
<1>1. PICK o \in HostEdits : Broadcast(o)
  BY DEF HostCommit
<1>2. UNCHANGED <<ghost, decided>> /\ Listed(ghost)
  BY DEF HostCommit, Inv, Lists
<1> QED
  BY <1>1, <1>2, BroadcastInv

LEMMA ServeGhostInv ==
    ASSUME Inv, ServeGhost
    PROVE  Inv'
<1>1. /\ ghost # <<>> /\ ghost' = Tail(ghost) /\ decided' = decided \cup {Head(ghost).id}
      /\ \/ Broadcast(Head(ghost).ops)
         \/ UNCHANGED <<srv, late, up, down, link, pending, buffered, edits, dropped>>
  BY DEF ServeGhost, client
<1>2. /\ Listed(ghost') /\ Len(ghost) \in Nat /\ DOMAIN ghost = 1..Len(ghost)
      /\ Len(ghost) >= 1 /\ DOMAIN ghost' = 1..(Len(ghost) - 1)
      /\ Head(ghost) = ghost[1]
      /\ \A i \in 1..(Len(ghost) - 1) : ghost'[i] = ghost[i + 1]
  BY <1>1, ListedTail, ListedIs DEF Inv, Lists
<1>3. Ids(ghost') \subseteq Ids(ghost)
  <2> SUFFICES ASSUME NEW i \in DOMAIN ghost'
               PROVE  ghost'[i].id \in Ids(ghost)
    BY DEF Ids
  <2>1. i + 1 \in DOMAIN ghost /\ ghost'[i] = ghost[i + 1]
    BY <1>2
  <2> QED
    BY <2>1 DEF Ids
<1>4. Head(ghost).id \in Ids(ghost)
  BY <1>2 DEF Ids
<1>5. decided \subseteq decided' /\ decided' \subseteq decided \cup Ids(ghost)
  BY <1>1, <1>4
<1>6. CASE Broadcast(Head(ghost).ops)
  BY <1>2, <1>3, <1>5, <1>6, BroadcastInv
<1>7. CASE UNCHANGED <<srv, late, up, down, link, pending, buffered, edits, dropped>>
  <2>1. /\ Listed(down) /\ Listed(late) /\ Len(down) \in Nat
        /\ \A i \in DOMAIN late : Ref(late[i]) = 0
    BY ListedIs DEF Inv, Lists, Linked
  <2> QED
    BY <1>2, <1>3, <1>5, <1>7, <2>1, ToldInv
<1> QED
  BY <1>1, <1>6, <1>7

-----------------------------------------------------------------------------
(* The client.                                                             *)

(* An answer is taken: the operation it names is no longer pending.  Any   *)
(* other frame leaves the pending operations what they are.                *)
LEMMA TakenInv ==
    ASSUME Inv, down # <<>>, down' = Tail(down), Listed(pending'),
           Len(pending') = Len(pending) - Position(Ref(Head(down))),
           \A i \in 1..Len(pending') :
               pending'[i].id = pending[Position(Ref(Head(down))) + i].id,
           UNCHANGED <<srv, late, ghost, link, up, buffered, decided, dropped, edits>>
    PROVE  Inv'
<1> DEFINE ref == Ref(Head(down))
<1>1. PICK p \in {0, 1} : p = Position(ref)
  BY FirstIsAnswered
<1>2. /\ Len(down) \in Nat /\ DOMAIN down = 1..Len(down) /\ Len(down) >= 1
      /\ ref = Ref(down[1]) /\ 1 \in DOMAIN down
      /\ Listed(down') /\ DOMAIN down' = 1..(Len(down) - 1)
      /\ \A i \in DOMAIN down' : i + 1 \in DOMAIN down /\ down'[i] = down[i + 1]
  <2>1. Listed(down)
    BY DEF Inv, Lists
  <2>2. /\ Listed(Tail(down)) /\ Len(Tail(down)) = Len(down) - 1 /\ Len(down) >= 1
        /\ Head(down) = down[1]
        /\ \A i \in 1..(Len(down) - 1) : Tail(down)[i] = down[i + 1]
    BY <2>1, ListedTail
  <2> QED
    BY <2>1, <2>2, ListedIs
<1>3. /\ Len(pending) \in Nat /\ DOMAIN pending = 1..Len(pending)
      /\ p \in 0..Len(pending)
      /\ p = 0 => \A i \in DOMAIN pending : pending[i].id # ref
      /\ p # 0 => pending[1].id = ref
      /\ DOMAIN pending' = 1..(Len(pending) - p)
      /\ \A i \in DOMAIN pending' : p + i \in DOMAIN pending
                                    /\ pending'[i].id = pending[p + i].id
      /\ \A i \in DOMAIN pending : i = p \/ i - p \in DOMAIN pending'
  <2>1. Listed(pending) /\ Sorted(pending) /\ Made(pending) /\ edits \in Nat
    BY DEF Inv, Lists, Held
  <2>2. Len(pending) \in Nat /\ DOMAIN pending = 1..Len(pending)
    BY <2>1, ListedIs
  <2>3. /\ p \in 0..Len(pending)
        /\ p = 0 => \A i \in DOMAIN pending : pending[i].id # ref
        /\ p # 0 => pending[1].id = ref
    BY <1>1, <2>1, <2>2, PositionIs
  <2>4. /\ DOMAIN pending' = 1..(Len(pending) - p)
        /\ \A i \in 1..(Len(pending) - p) : pending'[i].id = pending[p + i].id
    BY <1>1, ListedIs
  <2> QED
    BY <2>2, <2>3, <2>4
<1> HIDE DEF ref
<1>4. \A i \in DOMAIN pending : i # p => \E j \in DOMAIN pending' : pending'[j].id = pending[i].id
  <2> SUFFICES ASSUME NEW i \in DOMAIN pending, i # p
               PROVE  \E j \in DOMAIN pending' : pending'[j].id = pending[i].id
    OBVIOUS
  <2>1. i - p \in DOMAIN pending' /\ p + (i - p) = i
    BY <1>3
  <2> QED
    BY <1>3, <2>1
<1>5. Lists'
  BY <1>2 DEF Inv, Lists
<1>6. Held'
  <2>1. Sorted(pending)'
    <3> SUFFICES ASSUME NEW i \in DOMAIN pending', NEW j \in DOMAIN pending', i < j
                 PROVE  pending'[i].id < pending'[j].id
      BY DEF Sorted
    <3>1. p + i \in DOMAIN pending /\ p + j \in DOMAIN pending /\ p + i < p + j
      BY <1>3
    <3> QED
      BY <1>3, <3>1 DEF Inv, Held, Sorted
  <2>2. Ids(pending') \subseteq Ids(pending)
    BY <1>3 DEF Ids
  <2>3. pending = <<>> => pending' = <<>>
    BY <1>3, ListedIs DEF Inv, Lists
  <2> QED
    BY <2>1, <2>2, <2>3 DEF Inv, Held, Made, Online
<1>7. Linked'
  BY <1>2 DEF Inv, Linked
<1>8. Rising'
  <2>1. ASSUME NEW i \in DOMAIN down'
        PROVE  /\ Ref(down'[i]) \in {0} \cup decided
               /\ \A j \in DOMAIN up : Ref(down'[i]) < up[j].id
    BY <1>2 DEF Inv, Rising
  <2>2. ASSUME NEW i \in DOMAIN down', NEW j \in DOMAIN down', i < j, Ref(down'[j]) # 0
        PROVE  Ref(down'[i]) < Ref(down'[j])
    <3>1. i + 1 < j + 1
      BY <1>2, <2>2
    <3> QED
      BY <1>2, <2>2, <3>1 DEF Inv, Rising
  <2> QED
    BY <2>1, <2>2 DEF Inv, Rising
<1>9. Awaited'
  <2> SUFFICES ASSUME NEW k \in DOMAIN pending'
               PROVE  \/ \E i \in DOMAIN down' : Ref(down'[i]) = pending'[k].id
                      \/ \E i \in DOMAIN up : up[i].id = pending'[k].id
    BY DEF Awaited, UnderWay
  <2>1. p + k \in DOMAIN pending /\ pending'[k].id = pending[p + k].id
    BY <1>3
  <2>2. UnderWay(pending'[k].id)
    BY <2>1 DEF Inv, Awaited
  <2>3. pending'[k].id # ref
    <3>1. CASE p = 0
      BY <1>3, <2>1, <3>1
    <3>2. CASE p = 1
      <4>1. 1 \in DOMAIN pending /\ 1 < p + k
        BY <1>3, <3>2
      <4>2. ref < pending'[k].id /\ ref \in 1..edits /\ edits \in Nat
        BY <1>3, <2>1, <3>2, <4>1 DEF Inv, Lists, Held, Sorted, Made, Ids
      <4> QED
        BY <4>2
    <3> QED
      BY <3>1, <3>2
  <2>4. ASSUME NEW i \in DOMAIN down, Ref(down[i]) = pending'[k].id
        PROVE  \E j \in DOMAIN down' : Ref(down'[j]) = pending'[k].id
    <3>1. i # 1
      BY <1>2, <2>3, <2>4
    <3>2. i - 1 \in DOMAIN down' /\ down'[i - 1] = down[i]
      BY <1>2, <3>1
    <3> QED
      BY <2>4, <3>2
  <2> QED
    BY <2>2, <2>4 DEF UnderWay
<1>10. OnlyDroppedLost'
  <2>1. ASSUME NEW i \in DOMAIN pending
        PROVE  pending[i].id \in Ids(pending') \cup decided
    <3>1. CASE i # p
      BY <1>4, <3>1 DEF Ids
    <3>2. CASE i = p
      <4>1. ref \in {0} \cup decided /\ ref \in 1..edits /\ edits \in Nat
        BY <1>2, <1>3, <3>2 DEF Inv, Lists, Rising, Held, Made, Ids
      <4> QED
        BY <1>3, <3>2, <4>1
    <3> QED
      BY <3>1, <3>2
  <2>2. Ids(pending) \subseteq Ids(pending') \cup decided /\ Ids(pending') \subseteq Ids(pending)
    <3>1. \A i \in DOMAIN pending' : pending'[i].id \in Ids(pending)
      BY <1>3 DEF Ids
    <3>2. Ids(pending') \subseteq Ids(pending)
      <4> SUFFICES ASSUME NEW x \in Ids(pending')
                   PROVE  x \in Ids(pending)
        OBVIOUS
      <4>1. PICK i \in DOMAIN pending' : x = pending'[i].id
        BY DEF Ids
      <4> QED
        BY <3>1, <4>1
    <3>3. ASSUME NEW x \in Ids(pending)
          PROVE  x \in Ids(pending') \cup decided
      <4>1. PICK i \in DOMAIN pending : x = pending[i].id
        BY <3>3 DEF Ids
      <4> QED
        BY <2>1, <4>1
    <3> QED
      BY <3>2, <3>3
  <2> QED
    BY <2>2 DEF Inv, OnlyDroppedLost
<1> QED
  BY <1>5, <1>6, <1>7, <1>8, <1>9, <1>10 DEF Inv

LEMMA TakePendingIs ==
    ASSUME Inv, NEW ref
    PROVE  /\ Listed(TakePending(ref))
           /\ Len(TakePending(ref)) = Len(pending) - Position(ref)
           /\ \A i \in 1..Len(TakePending(ref)) :
                 TakePending(ref)[i].id = pending[Position(ref) + i].id
<1>1. /\ Listed(pending) /\ Len(pending) \in Nat
      /\ Position(ref) \in 0..Len(pending)
  BY PositionIs, ListedIs DEF Inv, Lists, Held
<1> DEFINE m == Position(ref) + 1
<1>2. /\ m \in 1..(Len(pending) + 1) /\ Len(pending) \in (m - 1)..Len(pending)
      /\ m \in Nat
  BY <1>1
<1> HIDE DEF m
<1>3. /\ Listed(SubSeq(pending, m, Len(pending)))
      /\ Len(SubSeq(pending, m, Len(pending))) = Len(pending) - m + 1
      /\ \A i \in 1..(Len(pending) - m + 1) :
            SubSeq(pending, m, Len(pending))[i] = pending[m + i - 1]
  BY <1>1, <1>2, ListedSub
<1>4. TakePending(ref) = SubSeq(pending, m, Len(pending))
  BY DEF TakePending, m
<1>5. /\ Len(TakePending(ref)) = Len(pending) - Position(ref)
      /\ \A i \in 1..Len(TakePending(ref)) : m + i - 1 = Position(ref) + i
  BY <1>1, <1>2, <1>3, <1>4 DEF m
<1>6. Len(pending) - m + 1 = Len(TakePending(ref))
  BY <1>3, <1>4
<1> QED
  BY <1>3, <1>4, <1>5, <1>6

(* Refreshing an operation does not change which it is. *)
LEMMA RefreshIs ==
    ASSUME Inv, NEW s
    PROVE  /\ Listed(Refresh(s, pending)) /\ Len(Refresh(s, pending)) = Len(pending)
           /\ \A i \in 1..Len(pending) : Refresh(s, pending)[i].id = pending[i].id
<1>1. Len(pending) \in Nat /\ DOMAIN pending = 1..Len(pending)
  BY ListedIs DEF Inv, Lists
<1> DEFINE f == Refresh(s, pending)
<1>2. f = [i \in 1..Len(pending) |-> f[i]]
  BY <1>1 DEF Refresh
<1>3. Listed(f) /\ Len(f) = Len(pending)
  <2> HIDE DEF f
  <2> QED
    BY <1>1, <1>2, FunctionListed
<1>4. ASSUME NEW i \in 1..Len(pending)
      PROVE  f[i].id = pending[i].id
  BY <1>1 DEF Refresh
<1> QED
  BY <1>3, <1>4

LEMMA HandlePatchInv ==
    ASSUME Inv, HandlePatch
    PROVE  Inv'
<1> DEFINE m == Head(down)
<1>1. /\ down # <<>> /\ down' = Tail(down) /\ m.type = "patch"
      /\ UNCHANGED <<srv, late, ghost, link, up, buffered, decided, dropped, edits>>
  BY DEF HandlePatch, Received
<1>2. Ref(m) = m.ref
  BY <1>1 DEF Ref
<1>3. IF Position(Ref(m)) = 0 THEN pending' = Refresh(m.ops.state, pending)
      ELSE pending' = TakePending(Ref(m))
  BY <1>2 DEF HandlePatch, Foreign, Confirm, Land
<1>4. CASE Position(Ref(m)) = 0
  <2>1. /\ Listed(pending') /\ Len(pending') = Len(pending) /\ Len(pending) \in Nat
        /\ \A i \in 1..Len(pending') : pending'[i].id = pending[i].id
    BY <1>3, <1>4, RefreshIs, Spelled DEF Inv
  <2>2. /\ Len(pending') = Len(pending) - Position(Ref(m))
        /\ \A i \in 1..Len(pending') : pending'[i].id = pending[Position(Ref(m)) + i].id
    BY <1>4, <2>1
  <2> QED
    BY <1>1, <2>1, <2>2, TakenInv
<1>5. CASE Position(Ref(m)) # 0
  BY <1>1, <1>3, <1>5, TakePendingIs, TakenInv
<1> QED
  BY <1>4, <1>5

LEMMA HandleErrorInv ==
    ASSUME Inv, HandleError
    PROVE  Inv'
<1> DEFINE m == Head(down)
<1>1. /\ down # <<>> /\ down' = Tail(down) /\ m.type = "error"
      /\ UNCHANGED <<srv, late, ghost, link, up, buffered, decided, dropped, edits>>
  BY DEF HandleError, Received
<1>2. Ref(m) = m.ref
  BY <1>1 DEF Ref
<1>3. pending' = IF Position(Ref(m)) = 0 THEN pending ELSE TakePending(Ref(m))
  BY <1>2 DEF HandleError
<1>4. CASE Position(Ref(m)) = 0
  <2>1. Listed(pending') /\ pending' = pending /\ Len(pending) \in Nat
    BY <1>3, <1>4, Spelled DEF Inv, Lists
  <2>2. /\ Len(pending') = Len(pending) - Position(Ref(m))
        /\ \A i \in 1..Len(pending') : pending'[i].id = pending[Position(Ref(m)) + i].id
    BY <1>4, <2>1
  <2> QED
    BY <1>1, <2>1, <2>2, TakenInv
<1>5. CASE Position(Ref(m)) # 0
  BY <1>1, <1>3, <1>5, TakePendingIs, TakenInv
<1> QED
  BY <1>4, <1>5

LEMMA SubSeqIds ==
    ASSUME NEW s, Listed(s), NEW m \in {1, 2}, NEW n \in 0..Len(s)
    PROVE  Listed(SubSeq(s, m, n)) /\ Ids(SubSeq(s, m, n)) \subseteq Ids(s)
<1>1. Len(s) \in Nat /\ DOMAIN s = 1..Len(s)
  BY ListedIs
<1>2. \A i \in m..n : s[i] \in ToSet(s)
  BY <1>1 DEF ToSet
<1>3. m \in Int /\ n \in Int
  BY <1>1
<1>4. SubSeq(s, m, n) \in Seq(ToSet(s))
  BY <1>2, <1>3, SubSeqProperties
<1>5. \A e \in ToSet(s) : e.id \in Ids(s)
  BY DEF ToSet, Ids
<1>6. ASSUME NEW i \in DOMAIN SubSeq(s, m, n)
      PROVE  SubSeq(s, m, n)[i].id \in Ids(s)
  BY <1>4, <1>5, LenProperties, ElementOfSeq
<1>7. Listed(SubSeq(s, m, n))
  BY <1>4, SeqListed
<1> DEFINE t == SubSeq(s, m, n)
<1>8. \A i \in DOMAIN t : t[i].id \in Ids(s)
  BY <1>6
<1> HIDE DEF t
<1>9. Ids(t) \subseteq Ids(s)
  <2> SUFFICES ASSUME NEW x \in Ids(t)
               PROVE  x \in Ids(s)
    OBVIOUS
  <2>1. PICK i \in DOMAIN t : x = t[i].id
    BY DEF Ids
  <2> QED
    BY <1>8, <2>1
<1> QED
  BY <1>7, <1>9 DEF t

(* A sequence with the same ids. *)
LEMMA SameIds ==
    ASSUME NEW s, Listed(s), NEW t, DOMAIN t = DOMAIN s, t = [i \in DOMAIN s |-> t[i]],
           \A i \in DOMAIN s : t[i].id = s[i].id
    PROVE  /\ Listed(t) /\ Len(t) = Len(s) /\ Ids(t) = Ids(s)
           /\ Sorted(s) => Sorted(t)
<1>1. Len(s) \in Nat /\ DOMAIN s = 1..Len(s)
  BY ListedIs
<1>2. Listed(t) /\ Len(t) = Len(s)
  BY <1>1, FunctionListed
<1> QED
  BY <1>2 DEF Ids, Sorted

LEMMA NoIds == Ids(<<>>) = {} /\ Sorted(<<>>)
BY EmptyListed DEF Ids, Sorted

LEMMA InitDocInv ==
    ASSUME Inv, InitDoc
    PROVE  Inv'
<1>1. /\ link # "down" /\ down # <<>> /\ down' = Tail(down) /\ Head(down).type = "snapshot"
      /\ pending' = [i \in DOMAIN buffered |->
                       Entry(buffered[i].id, buffered[i].ops, FALSE, NoState, FALSE)]
      /\ up' = up \o buffered /\ buffered' = <<>> /\ link' = "up"
      /\ dropped' = dropped \cup (Ids(pending) \ decided)
      /\ UNCHANGED <<srv, late, ghost, decided, edits>>
  BY DEF InitDoc, Received
<1>2. /\ Len(down) \in Nat /\ DOMAIN down = 1..Len(down)
      /\ Listed(down') /\ DOMAIN down' = 1..(Len(down) - 1)
      /\ \A i \in DOMAIN down' : i + 1 \in DOMAIN down /\ down'[i] = down[i + 1]
      /\ Ref(down[1]) = 0
  <2>1. Listed(down)
    BY DEF Inv, Lists
  <2>2. /\ Listed(Tail(down)) /\ Len(Tail(down)) = Len(down) - 1 /\ Len(down) >= 1
        /\ Head(down) = down[1]
        /\ \A i \in 1..(Len(down) - 1) : Tail(down)[i] = down[i + 1]
    BY <1>1, <2>1, ListedTail
  <2> QED
    BY <1>1, <2>1, <2>2, ListedIs DEF Ref
<1>3. /\ Listed(pending') /\ Len(pending') = Len(buffered) /\ Ids(pending') = Ids(buffered)
      /\ Sorted(pending')
  <2>1. /\ DOMAIN pending' = DOMAIN buffered
        /\ pending' = [i \in DOMAIN buffered |-> pending'[i]]
        /\ \A i \in DOMAIN buffered : pending'[i].id = buffered[i].id
    BY <1>1 DEF Entry
  <2>2. Listed(buffered) /\ Sorted(buffered)
    BY DEF Inv, Lists, Held
  <2> QED
    BY <2>1, <2>2, SameIds
<1>4. Online' /\ edits \in Nat
  BY <1>1 DEF Online, Inv, Lists
<1>5. Ids(pending) \subseteq 1..edits /\ Ids(buffered) \subseteq 1..edits
      /\ Ids(up) \subseteq 1..edits /\ decided \cup dropped \subseteq 1..edits
      /\ Ids(ghost) \subseteq 1..edits
  BY DEF Inv, Held, Made
<1>6. /\ Listed(buffered') /\ Ids(buffered') = {} /\ Sorted(buffered')
  BY <1>1, EmptyListed, NoIds
<1>7. /\ Listed(up') /\ Sorted(up') /\ Ids(up') = Ids(up) \cup Ids(buffered)
      /\ \A i \in DOMAIN down' : \A j \in DOMAIN up' : Ref(down'[i]) < up'[j].id
      /\ \A k \in DOMAIN pending' : \E i \in DOMAIN up' : up'[i].id = pending'[k].id
      /\ up # <<>> => up' # <<>> /\ Head(up') = Head(up)
  <2>1. CASE Online
    <3>1. buffered = <<>> /\ up' = up
      BY <1>1, <2>1, ConcatEmptySeq DEF Inv, Held, Lists, Listed
    <3>2. Ids(buffered) = {}
      BY <3>1, NoIds
    <3>3. DOMAIN pending' = {}
      BY <1>1, <3>1, EmptyListed
    <3>4. Listed(up') /\ Sorted(up') /\ Ids(up') = Ids(up) \cup Ids(buffered)
      BY <3>1, <3>2 DEF Inv, Lists, Rising
    <3>5. \A i \in DOMAIN down' : \A j \in DOMAIN up' : Ref(down'[i]) < up'[j].id
      BY <1>2, <3>1 DEF Inv, Rising
    <3> QED
      BY <3>1, <3>3, <3>4, <3>5
  <2>2. CASE ~Online
    <3>1. up = <<>> /\ up' = buffered
      BY <1>1, <2>2, ConcatEmptySeq DEF Inv, Held, Lists, Listed
    <3>2. Ids(up) = {}
      BY <3>1, NoIds
    <3>3. link = "pending"
      BY <1>1, <2>2 DEF Inv, Linked, Online
    <3>4. Listed(up') /\ Sorted(up') /\ Ids(up') = Ids(up) \cup Ids(buffered)
      BY <3>1, <3>2 DEF Inv, Lists, Held
    <3>5. \A i \in DOMAIN down' : Ref(down'[i]) = 0
      BY <1>2, <3>3 DEF Inv, Linked
    <3>6. \A j \in DOMAIN up' : up'[j].id \in 1..edits
      BY <1>5, <3>1 DEF Ids
    <3>7. \A k \in DOMAIN pending' : k \in DOMAIN up' /\ up'[k].id = pending'[k].id
      BY <1>1, <3>1 DEF Entry
    <3> QED
      BY <1>4, <3>1, <3>4, <3>5, <3>6, <3>7
  <2> QED
    BY <2>1, <2>2
<1>8. Lists'
  BY <1>1, <1>2, <1>3, <1>6, <1>7 DEF Inv, Lists
<1>9. Held'
  BY <1>1, <1>3, <1>4, <1>5, <1>6, <1>7 DEF Held, Made
<1>10. Linked'
  BY <1>1, <1>7 DEF Inv, Linked
<1>11. Rising'
  <2>1. ASSUME NEW i \in DOMAIN down'
        PROVE  Ref(down'[i]) \in {0} \cup decided'
    BY <1>1, <1>2 DEF Inv, Rising
  <2>2. ASSUME NEW i \in DOMAIN down', NEW j \in DOMAIN down', i < j, Ref(down'[j]) # 0
        PROVE  Ref(down'[i]) < Ref(down'[j])
    <3>1. i + 1 < j + 1
      BY <1>2, <2>2
    <3> QED
      BY <1>2, <2>2, <3>1 DEF Inv, Rising
  <2> QED
    BY <1>7, <2>1, <2>2 DEF Rising
<1>12. Awaited'
  BY <1>7 DEF Awaited, UnderWay
<1>13. OnlyDroppedLost'
  BY <1>1, <1>3, <1>5, <1>6 DEF Inv, OnlyDroppedLost
<1> QED
  BY <1>8, <1>9, <1>10, <1>11, <1>12, <1>13 DEF Inv

LEMMA GoOfflineInv ==
    ASSUME Inv, GoOffline
    PROVE  Inv'
<1>1. /\ link' = "down" /\ buffered' = Resend(pending) \o buffered /\ pending' = <<>>
      /\ up' = <<>> /\ down' = <<>> /\ late' = <<>> /\ srv' = "idle"
      /\ UNCHANGED <<decided, dropped, edits>>
  BY DEF GoOffline
<1>2. PICK k \in 0..Len(up), m \in {1, 2} : ghost' = ghost \o SubSeq(up, m, k)
  <2>1. PICK k \in 0..Len(up) :
           ghost' = ghost \o SubSeq(up, IF srv = "reject" THEN 2 ELSE 1, k)
    BY DEF GoOffline
  <2> QED
    BY <2>1
<1>3. Listed(ghost') /\ Ids(ghost') \subseteq Ids(ghost) \cup Ids(up)
  <2>1. /\ Listed(SubSeq(up, m, k)) /\ Ids(SubSeq(up, m, k)) \subseteq Ids(up)
        /\ Listed(ghost)
    BY SubSeqIds DEF Inv, Lists
  <2> DEFINE t == SubSeq(up, m, k)
  <2>2. Listed(t) /\ Ids(t) \subseteq Ids(up) /\ ghost' = ghost \o t
    BY <1>2, <2>1
  <2> HIDE DEF t
  <2>3. /\ Len(ghost) \in Nat /\ Len(t) \in Nat
        /\ DOMAIN ghost = 1..Len(ghost) /\ DOMAIN t = 1..Len(t)
        /\ Listed(ghost') /\ DOMAIN ghost' = 1..(Len(ghost) + Len(t))
        /\ \A i \in 1..Len(ghost) : ghost'[i] = ghost[i]
        /\ \A i \in 1..Len(t) : ghost'[Len(ghost) + i] = t[i]
    BY <2>1, <2>2, ListedConcat, ListedIs
  <2>4. ASSUME NEW i \in DOMAIN ghost'
        PROVE  ghost'[i].id \in Ids(ghost) \cup Ids(up)
    <3>1. CASE i \in 1..Len(ghost)
      BY <2>3, <3>1 DEF Ids
    <3>2. CASE i > Len(ghost)
      <4>1. i - Len(ghost) \in DOMAIN t /\ Len(ghost) + (i - Len(ghost)) = i
        BY <2>3, <3>2
      <4>2. ghost'[i].id \in Ids(t)
        BY <2>3, <4>1 DEF Ids
      <4> QED
        BY <2>2, <4>2
    <3> QED
      BY <2>3, <3>1, <3>2
  <2>5. Ids(ghost') \subseteq Ids(ghost) \cup Ids(up)
    <3> SUFFICES ASSUME NEW x \in Ids(ghost')
                 PROVE  x \in Ids(ghost) \cup Ids(up)
      OBVIOUS
    <3>1. PICK i \in DOMAIN ghost' : x = ghost'[i].id
      BY DEF Ids
    <3> QED
      BY <2>4, <3>1
  <2> QED
    BY <2>3, <2>5
<1>4. Listed(buffered') /\ Sorted(buffered') /\ Ids(buffered') = Ids(pending) \cup Ids(buffered)
  <2>1. /\ Listed(Resend(pending)) /\ Ids(Resend(pending)) = Ids(pending)
        /\ Sorted(Resend(pending)) /\ (pending = <<>> => Resend(pending) = <<>>)
    <3> DEFINE t == Resend(pending)
    <3>1. /\ DOMAIN t = DOMAIN pending /\ t = [i \in DOMAIN pending |-> t[i]]
          /\ \A i \in DOMAIN pending : t[i].id = pending[i].id
      BY DEF Resend
    <3>2. Listed(pending) /\ Sorted(pending)
      BY DEF Inv, Lists, Held
    <3> HIDE DEF t
    <3>3. Listed(t) /\ Len(t) = Len(pending) /\ Ids(t) = Ids(pending) /\ Sorted(t)
      BY <3>1, <3>2, SameIds
    <3>4. pending = <<>> => t = <<>>
      BY <3>2, <3>3, ListedIs
    <3> QED
      BY <3>3, <3>4 DEF t
  <2>2. CASE Online
    <3>1. buffered = <<>> /\ buffered' = Resend(pending)
      BY <1>1, <2>1, <2>2, ConcatEmptySeq DEF Inv, Held, Listed
    <3> QED
      BY <2>1, <3>1, NoIds
  <2>3. CASE ~Online
    <3>1. pending = <<>> /\ buffered' = buffered
      BY <1>1, <2>1, <2>3, ConcatEmptySeq DEF Inv, Held, Lists, Listed
    <3> QED
      BY <3>1, NoIds DEF Inv, Lists, Held
  <2> QED
    BY <2>2, <2>3
<1>5. /\ Listed(pending') /\ Listed(up') /\ Listed(down') /\ Listed(late')
      /\ DOMAIN pending' = {} /\ DOMAIN up' = {} /\ DOMAIN down' = {} /\ DOMAIN late' = {}
      /\ Ids(pending') = {} /\ Ids(up') = {} /\ Sorted(pending') /\ Sorted(up')
  BY <1>1, EmptyListed, NoIds
<1>6. Lists'
  BY <1>1, <1>3, <1>4, <1>5 DEF Inv, Lists
<1>7. ~Online'
  BY <1>1 DEF Online
<1>8. Held'
  BY <1>1, <1>3, <1>4, <1>5, <1>7 DEF Inv, Held, Made
<1>9. Linked' /\ Rising' /\ Awaited'
  BY <1>1, <1>5 DEF Linked, Rising, Awaited
<1>10. OnlyDroppedLost'
  BY <1>1, <1>4, <1>5 DEF Inv, OnlyDroppedLost
<1> QED
  BY <1>6, <1>8, <1>9, <1>10 DEF Inv

LEMMA ConnectInv ==
    ASSUME Inv, Connect
    PROVE  Inv'
<1> DEFINE m == SnapshotMsg(sdoc)
<1>1. /\ link = "down" /\ link' = "pending" /\ down' = <<m>> /\ Ref(m) = 0
      /\ UNCHANGED <<srv, late, up, ghost, pending, buffered, decided, dropped, edits>>
  BY DEF Connect, client, counts, SnapshotMsg, Ref
<1> HIDE DEF m
<1>2. Listed(down') /\ DOMAIN down' = {1} /\ down'[1] = m
  <2>1. <<m>> \in Seq({m}) /\ DOMAIN <<m>> = {1} /\ <<m>>[1] = m
    OBVIOUS
  <2> QED
    BY <1>1, <2>1, SeqListed
<1>3. pending = <<>> /\ up = <<>> /\ DOMAIN up = {} /\ DOMAIN pending = {}
  BY <1>1, EmptyListed DEF Inv, Held, Online
<1>4. Lists'
  BY <1>1, <1>2 DEF Inv, Lists
<1>5. Held'
  BY <1>1, <1>3 DEF Inv, Held, Made, Online
<1>6. Linked' /\ Rising' /\ Awaited'
  BY <1>1, <1>2, <1>3 DEF Inv, Linked, Rising, Awaited, Sorted
<1>7. OnlyDroppedLost'
  BY <1>1 DEF Inv, OnlyDroppedLost
<1> QED
  BY <1>4, <1>5, <1>6, <1>7 DEF Inv

LEMMA NextInv ==
    ASSUME Inv, [Next]_vars
    PROVE  Inv'
<1>1. CASE Next
  BY <1>1, EditInv, ServeInv, SendErrorInv, ResyncInv, ServeGhostInv, HostCommitInv,
     HandlePatchInv, HandleErrorInv, InitDocInv, GoOfflineInv, ConnectInv DEF Next
<1>2. CASE UNCHANGED vars
  <2>1. UNCHANGED <<srv, late, up, down, ghost, link, pending, buffered, decided, dropped, edits>>
    BY <1>2 DEF vars, client, counts
  <2> QED
    BY <2>1 DEF Inv, Lists, Held, Linked, Rising, Awaited, UnderWay, OnlyDroppedLost,
                Made, Online
<1> QED
  BY <1>1, <1>2

LEMMA Invariant == Spec => []Inv
BY InitInv, NextInv, PTL DEF Spec

-----------------------------------------------------------------------------
(* Theorems.                                                               *)

(* No break of the connection, no rejection and no resync loses an edit    *)
(* but those a snapshot took from pendingOps: for any number of edits,     *)
(* breaks and host commits, whatever the operations are.                   *)
THEOREM NothingElseLost == Spec => []OnlyDroppedLost
<1>1. Inv => OnlyDroppedLost
  BY DEF Inv
<1> QED
  BY <1>1, Invariant, PTL

LEMMA InvAnswers ==
    ASSUME Inv
    PROVE  AnswersInOrder
<1> DEFINE c == Coming
           n == Len(down) + Len(up)
<1>1. /\ Len(down) \in Nat /\ DOMAIN down = 1..Len(down)
      /\ Len(up) \in Nat /\ DOMAIN up = 1..Len(up) /\ n \in Nat /\ edits \in Nat
      /\ DOMAIN pending = 1..Len(pending) /\ Len(pending) \in Nat
  BY Spelled DEF Inv
<1>2. /\ DOMAIN c = 1..n
      /\ \A i \in DOMAIN down : i \in DOMAIN c /\ c[i] = Ref(down[i])
      /\ \A i \in DOMAIN up : Len(down) + i \in DOMAIN c /\ c[Len(down) + i] = up[i].id
  BY <1>1 DEF Coming
<1>3. \A i \in DOMAIN c : \/ i \in DOMAIN down
                          \/ i > Len(down) /\ i - Len(down) \in DOMAIN up
                                /\ c[i] = up[i - Len(down)].id
  BY <1>1 DEF Coming
<1> HIDE DEF c, n
<1>4. \A i \in DOMAIN c : c[i] \in 0..edits
  BY <1>1, <1>2, <1>3 DEF Inv, Rising, Held, Made, Ids
<1>5. ASSUME NEW i \in DOMAIN c, NEW j \in DOMAIN c, i < j, c[j] # 0
      PROVE  c[i] < c[j]
  <2>1. CASE j \in DOMAIN down
    <3>1. i \in DOMAIN down
      BY <1>1, <1>2, <1>5, <2>1
    <3> QED
      BY <1>2, <1>5, <2>1, <3>1 DEF Inv, Rising
  <2>2. CASE j > Len(down) /\ j - Len(down) \in DOMAIN up /\ c[j] = up[j - Len(down)].id
    <3>1. CASE i \in DOMAIN down
      BY <1>2, <2>2, <3>1 DEF Inv, Rising
    <3>2. CASE i > Len(down) /\ i - Len(down) \in DOMAIN up /\ c[i] = up[i - Len(down)].id
      <4>1. i - Len(down) < j - Len(down)
        BY <1>1, <1>2, <1>5
      <4> QED
        BY <2>2, <3>2, <4>1 DEF Inv, Rising, Sorted
    <3> QED
      BY <1>3, <3>1, <3>2
  <2> QED
    BY <1>3, <2>1, <2>2
<1>6. ASSUME NEW k \in DOMAIN pending
      PROVE  \E i \in DOMAIN c : c[i] = pending[k].id
  <2>1. UnderWay(pending[k].id)
    BY DEF Inv, Awaited
  <2> QED
    BY <1>2, <2>1 DEF UnderWay
<1>7. \A k \in DOMAIN pending : pending[k].id \in 1..edits
  BY DEF Inv, Held, Made, Ids
<1>8. ASSUME NEW k \in DOMAIN pending
      PROVE  \E i \in DOMAIN c :
                /\ c[i] = pending[k].id
                /\ \A j \in DOMAIN c : c[j] = pending[k].id => j = i
                /\ \A j \in 1..(i - 1), l \in DOMAIN pending : c[j] = pending[l].id => l < k
  <2>1. PICK i \in DOMAIN c : c[i] = pending[k].id
    BY <1>6
  <2>2. ASSUME NEW j \in DOMAIN c, c[j] = pending[k].id
        PROVE  j = i
    <3>1. c[i] # 0 /\ c[j] # 0 /\ c[i] = c[j] /\ c[i] \in Int
      BY <1>4, <1>7, <2>1, <2>2
    <3>2. ~(i < j) /\ ~(j < i)
      BY <1>5, <3>1
    <3> QED
      BY <1>1, <1>2, <3>2
  <2>3. ASSUME NEW j \in 1..(i - 1), NEW l \in DOMAIN pending, c[j] = pending[l].id
        PROVE  l < k
    <3>1. j \in DOMAIN c /\ j < i
      BY <1>1, <1>2
    <3>2. pending[l].id < pending[k].id
      BY <1>5, <1>7, <2>1, <2>3, <3>1
    <3>3. ~(k < l) /\ k # l
      BY <1>7, <3>2 DEF Inv, Held, Sorted
    <3> QED
      BY <1>1, <3>3
  <2> QED
    BY <2>1, <2>2, <2>3
<1> QED
  BY <1>8 DEF AnswersInOrder, c

(* Every pending operation has exactly one answer to come, and the answers *)
(* come in the order of the operations, although rejections, snapshots and *)
(* other clients' commits come between them: so _takePending retires       *)
(* nothing that still waits.                                               *)
THEOREM AnsweredInOrder == Spec => []AnswersInOrder
<1>1. Inv => AnswersInOrder
  BY InvAnswers
<1> QED
  BY <1>1, Invariant, PTL

(* Nothing under way: every pending operation would await its answer.      *)
LEMMA InvSettled == Inv => NothingWaits
<1> SUFFICES ASSUME Inv, Quiet
             PROVE  pending = <<>> /\ buffered = <<>>
  BY DEF NothingWaits
<1>1. DOMAIN up = {} /\ DOMAIN down = {} /\ Online
  BY EmptyListed DEF Quiet
<1>2. DOMAIN pending = {}
  BY <1>1 DEF Inv, Awaited, UnderWay
<1>3. pending = <<>>
  BY <1>2, ListedIs DEF Inv, Lists
<1> QED
  BY <1>1, <1>3 DEF Inv, Held

(* When nothing is under way between a client and its server, the client   *)
(* waits for nothing: every edit was answered or resent and answered, or   *)
(* dropped for a snapshot.                                                 *)
THEOREM Settles == Spec => []NothingWaits
  BY InvSettled, Invariant, PTL

-----------------------------------------------------------------------------
(* Induction over numbers, for a set instead of a predicate.               *)

Lower == {p \in Nat \X Nat : p[1] < p[2]}

LEMMA LowerIsWellFounded == IsWellFoundedOn(Lower, Nat)
BY NatLessThanWellFounded DEF OpToRel, Lower

(* A set of numbers has a least one. *)
LEMMA LeastIs ==
    ASSUME NEW I, I \subseteq Nat, I # {}
    PROVE  Min(I) \in I /\ \A y \in I : Min(I) <= y
<1>1. PICK x \in I : \A y \in I : ~(<<y, x>> \in Lower)
  BY LowerIsWellFounded, WFMin
<1>2. ASSUME NEW y \in I
      PROVE  x <= y
  <2>1. x \in Nat /\ y \in Nat /\ ~(y < x)
    BY <1>1 DEF Lower
  <2> QED
    BY <2>1
<1> QED
  BY <1>2 DEF Min

(* What holds of 0, and of k + 1 if of k, holds of every number. *)
LEMMA Induction ==
    ASSUME NEW T, 0 \in T, \A n \in Nat : n \in T => n + 1 \in T
    PROVE  Nat \subseteq T
<1> SUFFICES ASSUME Nat \ T # {}
             PROVE  FALSE
  OBVIOUS
<1> DEFINE x == Min(Nat \ T)
<1>1. x \in Nat /\ x \notin T /\ \A y \in Nat \ T : x <= y
  BY LeastIs
<1> HIDE DEF x
<1>2. x # 0
  BY <1>1
<1>3. x - 1 \in Nat /\ x - 1 \in T
  BY <1>1, <1>2
<1> QED
  BY <1>1, <1>3

(* What is defined for 0, and for k from what it is for k - 1.             *)
Recursion(f, n, first, step) ==
    f = [k \in 0..n |-> IF k = 0 THEN first ELSE step[k][f[k - 1]]]

(* There is a function defined by recursion. *)
LEMMA RecursionExists ==
    ASSUME NEW S, NEW n \in Nat, NEW first \in S, NEW step \in [Nat -> [S -> S]]
    PROVE  \E f \in [0..n -> S] : Recursion(f, n, first, step)
<1> DEFINE T == {k \in Nat : \E f \in [0..k -> S] : Recursion(f, k, first, step)}
<1>1. 0 \in T
  <2>1. [k \in 0..0 |-> first] \in [0..0 -> S]
    OBVIOUS
  <2>2. Recursion([k \in 0..0 |-> first], 0, first, step)
    BY DEF Recursion
  <2> QED
    BY <2>1, <2>2
<1>2. ASSUME NEW k \in Nat, k \in T
      PROVE  k + 1 \in T
  <2>1. PICK f \in [0..k -> S] : Recursion(f, k, first, step)
    BY <1>2
  <2> DEFINE g == [i \in 0..(k + 1) |-> IF i <= k THEN f[i] ELSE step[k + 1][f[k]]]
  <2>2. step[k + 1][f[k]] \in S
    OBVIOUS
  <2>3. g \in [0..(k + 1) -> S]
    BY <2>2
  <2>4. ASSUME NEW i \in 0..(k + 1)
        PROVE  g[i] = IF i = 0 THEN first ELSE step[i][g[i - 1]]
    <3>1. CASE i <= k
      <4>1. i \in 0..k /\ g[i] = f[i]
        BY <3>1
      <4>2. f[i] = IF i = 0 THEN first ELSE step[i][f[i - 1]]
        BY <2>1, <4>1 DEF Recursion
      <4>3. i # 0 => g[i - 1] = f[i - 1]
        BY <3>1
      <4> QED
        BY <4>1, <4>2, <4>3
    <3>2. CASE i = k + 1
      BY <3>2
    <3> QED
      BY <3>1, <3>2
  <2>5. Recursion(g, k + 1, first, step)
    <3> HIDE DEF g
    <3> QED
      BY <2>3, <2>4 DEF Recursion
  <2> QED
    BY <2>3, <2>5
<1>3. Nat \subseteq T
  <2> HIDE DEF T
  <2> QED
    BY <1>1, <1>2, Induction
<1> QED
  BY <1>3

-----------------------------------------------------------------------------
(* Orders of nodes.                                                        *)

Order == {s \in Seq(Nodes) : IsInjective(s)}

(* An order of nodes is a function on its positions. *)
LEMMA OrderIs ==
    ASSUME NEW s \in Seq(Nodes)
    PROVE  /\ Len(s) \in Nat /\ DOMAIN s = 1..Len(s)
           /\ \A i \in 1..Len(s) : s[i] \in Nodes
           /\ ToSet(s) \subseteq Nodes
           /\ \A n : Contains(s, n) <=> n \in ToSet(s)
<1>1. Len(s) \in Nat /\ DOMAIN s = 1..Len(s) /\ s \in [1..Len(s) -> Nodes]
  BY LenProperties
<1> QED
  BY <1>1 DEF ToSet, Contains

(* Index finds a node that is in the order, and 0 for one that is not. *)
LEMMA IndexIs ==
    ASSUME NEW s \in Seq(Nodes), NEW n
    PROVE  /\ Index(s, n) \in 0..Len(s)
           /\ Contains(s, n) => Index(s, n) \in 1..Len(s) /\ s[Index(s, n)] = n
           /\ ~Contains(s, n) => Index(s, n) = 0
<1> DEFINE I == {i \in 1..Len(s) : s[i] = n}
<1>1. Index(s, n) = IF I # {} THEN Min(I) ELSE 0
  BY DEF Index, SelectInSeq
<1>2. I # {} <=> Contains(s, n)
  BY DEF Contains
<1>3. I \subseteq Nat /\ Len(s) \in Nat
  BY OrderIs
<1>4. I # {} => Min(I) \in I
  <2> HIDE DEF I
  <2> QED
    BY <1>3, LeastIs
<1> QED
  BY <1>1, <1>2, <1>3, <1>4

LEMMA InjectiveIndex ==
    ASSUME NEW s \in Seq(Nodes), IsInjective(s), NEW i \in 1..Len(s)
    PROVE  Index(s, s[i]) = i
<1>1. Contains(s, s[i])
  BY DEF Contains
<1>2. Index(s, s[i]) \in 1..Len(s) /\ s[Index(s, s[i])] = s[i]
  BY <1>1, IndexIs
<1> QED
  BY <1>2, OrderIs DEF IsInjective

(* Inserting moves what comes after one place on. *)
LEMMA InsertAtIs ==
    ASSUME NEW s \in Seq(Nodes), NEW n \in Nodes, NEW i \in 1..(Len(s) + 1)
    PROVE  /\ InsertAt(s, i, n) \in Seq(Nodes)
           /\ Len(InsertAt(s, i, n)) = Len(s) + 1
           /\ \A j \in 1..(Len(s) + 1) :
                 InsertAt(s, i, n)[j] = IF j < i THEN s[j] ELSE IF j = i THEN n ELSE s[j - 1]
<1> DEFINE u == SubSeq(s, 1, i - 1)
           v == SubSeq(s, i, Len(s))
           w == u \o <<n>>
<1>1. Len(s) \in Nat /\ \A j \in 1..Len(s) : s[j] \in Nodes
  BY OrderIs
<1>2. /\ u \in Seq(Nodes) /\ Len(u) = i - 1
      /\ \A j \in 1..(i - 1) : u[j] = s[j]
  <2>1. 1 \in Int /\ i - 1 \in Int /\ \A j \in 1..(i - 1) : s[j] \in Nodes
    BY <1>1
  <2>2. /\ SubSeq(s, 1, i - 1) \in Seq(Nodes)
        /\ Len(SubSeq(s, 1, i - 1)) = IF 1 <= i - 1 THEN i - 1 - 1 + 1 ELSE 0
        /\ \A j \in 1..(i - 1 - 1 + 1) : SubSeq(s, 1, i - 1)[j] = s[1 + j - 1]
    BY <2>1, SubSeqProperties
  <2> QED
    BY <2>2
<1>3. /\ v \in Seq(Nodes) /\ Len(v) = Len(s) - i + 1
      /\ \A j \in 1..(Len(s) - i + 1) : v[j] = s[i + j - 1]
  <2>1. i \in Int /\ Len(s) \in Int /\ \A j \in i..Len(s) : s[j] \in Nodes
    BY <1>1
  <2>2. /\ SubSeq(s, i, Len(s)) \in Seq(Nodes)
        /\ Len(SubSeq(s, i, Len(s))) = IF i <= Len(s) THEN Len(s) - i + 1 ELSE 0
        /\ \A j \in 1..(Len(s) - i + 1) : SubSeq(s, i, Len(s))[j] = s[i + j - 1]
    BY <2>1, SubSeqProperties
  <2> QED
    BY <1>1, <2>2
<1>4. <<n>> \in Seq(Nodes) /\ Len(<<n>>) = 1 /\ <<n>>[1] = n
  OBVIOUS
<1>5. InsertAt(s, i, n) = w \o v
  BY DEF InsertAt
<1> HIDE DEF u, v
<1>6. /\ w \in Seq(Nodes) /\ Len(w) = i /\ w[i] = n
      /\ \A j \in 1..(i - 1) : w[j] = s[j]
  <2>1. /\ u \o <<n>> \in Seq(Nodes) /\ Len(u \o <<n>>) = Len(u) + Len(<<n>>)
        /\ \A j \in 1..(Len(u) + Len(<<n>>)) :
              (u \o <<n>>)[j] = IF j <= Len(u) THEN u[j] ELSE <<n>>[j - Len(u)]
    BY <1>2, <1>4, ConcatProperties
  <2> QED
    BY <1>1, <1>2, <1>4, <2>1
<1> HIDE DEF w
<1>7. /\ w \o v \in Seq(Nodes) /\ Len(w \o v) = Len(s) + 1
      /\ \A j \in 1..(Len(s) + 1) : (w \o v)[j] = IF j <= i THEN w[j] ELSE v[j - i]
  <2>1. /\ w \o v \in Seq(Nodes) /\ Len(w \o v) = Len(w) + Len(v)
        /\ \A j \in 1..(Len(w) + Len(v)) :
              (w \o v)[j] = IF j <= Len(w) THEN w[j] ELSE v[j - Len(w)]
    BY <1>3, <1>6, ConcatProperties
  <2> QED
    BY <1>1, <1>3, <1>6, <2>1
<1>8. ASSUME NEW j \in 1..(Len(s) + 1)
      PROVE  (w \o v)[j] = IF j < i THEN s[j] ELSE IF j = i THEN n ELSE s[j - 1]
  <2>1. CASE j < i
    <3>1. j <= i /\ j \in 1..(i - 1)
      BY <1>1, <2>1
    <3>2. (w \o v)[j] = w[j]
      BY <1>7, <3>1
    <3> QED
      BY <1>6, <2>1, <3>1, <3>2
  <2>2. CASE j = i
    <3>1. j <= i /\ ~(j < i)
      BY <1>1, <2>2
    <3>2. (w \o v)[j] = w[j]
      BY <1>7, <3>1
    <3> QED
      BY <1>6, <2>2, <3>1, <3>2
  <2>3. CASE j > i
    <3>1. j - i \in 1..(Len(s) - i + 1) /\ ~(j <= i)
      BY <1>1, <2>3
    <3>2. (w \o v)[j] = s[i + (j - i) - 1]
      BY <1>3, <1>7, <3>1
    <3>3. i + (j - i) - 1 = j - 1 /\ ~(j < i) /\ j # i
      BY <1>1, <2>3
    <3> QED
      BY <3>2, <3>3
  <2>4. j < i \/ j = i \/ j > i
    BY <1>1
  <2> QED
    BY <2>1, <2>2, <2>3, <2>4
<1> QED
  BY <1>5, <1>7, <1>8

(* A node that is new to an order does not come twice in it. *)
LEMMA InsertAtOrder ==
    ASSUME NEW s \in Order, NEW n \in Nodes, ~Contains(s, n), NEW i \in 1..(Len(s) + 1)
    PROVE  /\ InsertAt(s, i, n) \in Order
           /\ ToSet(InsertAt(s, i, n)) = ToSet(s) \cup {n}
<1> DEFINE t == InsertAt(s, i, n)
<1>1. /\ Len(s) \in Nat /\ DOMAIN s = 1..Len(s) /\ s \in Seq(Nodes)
      /\ t \in Seq(Nodes) /\ Len(t) = Len(s) + 1 /\ DOMAIN t = 1..(Len(s) + 1)
      /\ \A j \in 1..(Len(s) + 1) :
            t[j] = IF j < i THEN s[j] ELSE IF j = i THEN n ELSE s[j - 1]
  BY InsertAtIs, OrderIs DEF Order
<1> HIDE DEF t
<1>2. \A j \in 1..Len(s) : s[j] # n
  BY DEF Contains
<1>3. \A j, k \in 1..Len(s) : s[j] = s[k] => j = k
  BY <1>1 DEF Order, IsInjective
<1>4. ASSUME NEW j \in 1..(Len(s) + 1), NEW k \in 1..(Len(s) + 1), t[j] = t[k]
      PROVE  j = k
  <2>1. /\ j < i => j \in 1..Len(s)
        /\ j > i => j - 1 \in 1..Len(s)
        /\ k < i => k \in 1..Len(s)
        /\ k > i => k - 1 \in 1..Len(s)
    BY <1>1
  <2> QED
    BY <1>1, <1>2, <1>3, <1>4, <2>1
<1>5. t \in Order
  BY <1>1, <1>4 DEF Order, IsInjective
<1>6. ASSUME NEW x \in ToSet(t)
      PROVE  x \in ToSet(s) \cup {n}
  <2>1. PICK j \in 1..(Len(s) + 1) : x = t[j]
    BY <1>1 DEF ToSet
  <2>2. /\ j < i => j \in 1..Len(s)
        /\ j > i => j - 1 \in 1..Len(s)
    BY <1>1
  <2> QED
    BY <1>1, <2>1, <2>2 DEF ToSet
<1>7. ASSUME NEW x \in ToSet(s)
      PROVE  x \in ToSet(t)
  <2>1. PICK j \in 1..Len(s) : x = s[j]
    BY <1>1 DEF ToSet
  <2>2. j \in 1..(Len(s) + 1) /\ j + 1 \in 1..(Len(s) + 1)
    BY <1>1
  <2>3. j < i => t[j] = x
    BY <1>1, <2>1, <2>2
  <2>4. ~(j < i) => t[j + 1] = x
    BY <1>1, <2>1, <2>2
  <2> QED
    BY <1>1, <2>2, <2>3, <2>4 DEF ToSet
<1>8. n \in ToSet(t)
  <2>1. t[i] = n /\ i \in DOMAIN t
    BY <1>1
  <2> QED
    BY <2>1 DEF ToSet
<1> QED
  BY <1>5, <1>6, <1>7, <1>8 DEF t

(* Removing moves what comes after one place back. *)
LEMMA RemoveAtIs ==
    ASSUME NEW s \in Seq(Nodes), NEW i \in 1..Len(s)
    PROVE  /\ RemoveAt(s, i) \in Seq(Nodes)
           /\ Len(RemoveAt(s, i)) = Len(s) - 1
           /\ \A j \in 1..(Len(s) - 1) : RemoveAt(s, i)[j] = IF j < i THEN s[j] ELSE s[j + 1]
<1> DEFINE u == SubSeq(s, 1, i - 1)
           v == SubSeq(s, i + 1, Len(s))
<1>1. Len(s) \in Nat /\ \A j \in 1..Len(s) : s[j] \in Nodes
  BY OrderIs
<1>2. /\ u \in Seq(Nodes) /\ Len(u) = i - 1
      /\ \A j \in 1..(i - 1) : u[j] = s[j]
  <2>1. 1 \in Int /\ i - 1 \in Int /\ \A j \in 1..(i - 1) : s[j] \in Nodes
    BY <1>1
  <2>2. /\ SubSeq(s, 1, i - 1) \in Seq(Nodes)
        /\ Len(SubSeq(s, 1, i - 1)) = IF 1 <= i - 1 THEN i - 1 - 1 + 1 ELSE 0
        /\ \A j \in 1..(i - 1 - 1 + 1) : SubSeq(s, 1, i - 1)[j] = s[1 + j - 1]
    BY <2>1, SubSeqProperties
  <2> QED
    BY <2>2
<1>3. /\ v \in Seq(Nodes) /\ Len(v) = Len(s) - i
      /\ \A j \in 1..(Len(s) - i) : v[j] = s[i + j]
  <2>1. i + 1 \in Int /\ Len(s) \in Int /\ \A j \in (i + 1)..Len(s) : s[j] \in Nodes
    BY <1>1
  <2>2. /\ SubSeq(s, i + 1, Len(s)) \in Seq(Nodes)
        /\ Len(SubSeq(s, i + 1, Len(s))) =
              IF i + 1 <= Len(s) THEN Len(s) - (i + 1) + 1 ELSE 0
        /\ \A j \in 1..(Len(s) - (i + 1) + 1) :
              SubSeq(s, i + 1, Len(s))[j] = s[(i + 1) + j - 1]
    BY <2>1, SubSeqProperties
  <2>3. Len(v) = Len(s) - i
    BY <1>1, <2>2
  <2>4. ASSUME NEW j \in 1..(Len(s) - i)
        PROVE  v[j] = s[i + j]
    <3>1. j \in 1..(Len(s) - (i + 1) + 1) /\ (i + 1) + j - 1 = i + j
      BY <1>1
    <3> QED
      BY <2>2, <3>1
  <2> QED
    BY <2>2, <2>3, <2>4
<1>4. RemoveAt(s, i) = u \o v
  BY DEF RemoveAt
<1> HIDE DEF u, v
<1>5. /\ u \o v \in Seq(Nodes) /\ Len(u \o v) = Len(s) - 1
      /\ \A j \in 1..(Len(s) - 1) :
            (u \o v)[j] = IF j <= i - 1 THEN u[j] ELSE v[j - (i - 1)]
  <2>1. /\ u \o v \in Seq(Nodes) /\ Len(u \o v) = Len(u) + Len(v)
        /\ \A j \in 1..(Len(u) + Len(v)) :
              (u \o v)[j] = IF j <= Len(u) THEN u[j] ELSE v[j - Len(u)]
    BY <1>2, <1>3, ConcatProperties
  <2>2. Len(u) + Len(v) = Len(s) - 1 /\ Len(u) = i - 1
    BY <1>1, <1>2, <1>3
  <2> QED
    BY <2>1, <2>2
<1>6. ASSUME NEW j \in 1..(Len(s) - 1)
      PROVE  (u \o v)[j] = IF j < i THEN s[j] ELSE s[j + 1]
  <2>1. CASE j < i
    <3>1. j <= i - 1 /\ j \in 1..(i - 1)
      BY <1>1, <2>1
    <3> QED
      BY <1>2, <1>5, <2>1, <3>1
  <2>2. CASE ~(j < i)
    <3>1. ~(j <= i - 1) /\ j - (i - 1) \in 1..(Len(s) - i) /\ i + (j - (i - 1)) = j + 1
      BY <1>1, <2>2
    <3>2. (u \o v)[j] = v[j - (i - 1)]
      BY <1>5, <3>1
    <3>3. v[j - (i - 1)] = s[i + (j - (i - 1))]
      BY <1>3, <3>1
    <3> QED
      BY <2>2, <3>1, <3>2, <3>3
  <2> QED
    BY <2>1, <2>2
<1> QED
  BY <1>4, <1>5, <1>6

LEMMA RemoveFirstIs ==
    ASSUME NEW s \in Seq(Nodes), NEW n
    PROVE  /\ Contains(s, n) => RemoveFirst(s, n) = RemoveAt(s, Index(s, n))
           /\ ~Contains(s, n) => RemoveFirst(s, n) = s
           /\ RemoveFirst(s, n) \in Seq(Nodes)
<1>1. RemoveFirst(s, n) = IF Contains(s, n) THEN RemoveAt(s, Index(s, n)) ELSE s
  BY DEF RemoveFirst, Contains, Index
<1>2. Contains(s, n) => Index(s, n) \in 1..Len(s)
  BY IndexIs
<1>3. Contains(s, n) => RemoveAt(s, Index(s, n)) \in Seq(Nodes)
  BY <1>2, RemoveAtIs
<1> QED
  BY <1>1, <1>3

(* Removing takes one node out of an order. *)
LEMMA RemoveFirstOrder ==
    ASSUME NEW s \in Order, NEW n
    PROVE  /\ RemoveFirst(s, n) \in Order
           /\ ToSet(RemoveFirst(s, n)) = ToSet(s) \ {n}
<1>0. s \in Seq(Nodes) /\ Len(s) \in Nat /\ DOMAIN s = 1..Len(s)
  BY OrderIs DEF Order
<1>1. CASE ~Contains(s, n)
  <2>1. RemoveFirst(s, n) = s
    BY <1>0, <1>1, RemoveFirstIs
  <2>2. n \notin ToSet(s)
    BY <1>0, <1>1, OrderIs
  <2> QED
    BY <2>1, <2>2
<1>2. CASE Contains(s, n)
  <2> DEFINE i == Index(s, n)
             t == RemoveAt(s, i)
  <2>1. RemoveFirst(s, n) = t
    BY <1>0, <1>2, RemoveFirstIs
  <2>2. i \in 1..Len(s) /\ s[i] = n
    BY <1>0, <1>2, IndexIs
  <2> HIDE DEF i
  <2>3. /\ t \in Seq(Nodes) /\ Len(t) = Len(s) - 1
        /\ \A j \in 1..(Len(s) - 1) : t[j] = IF j < i THEN s[j] ELSE s[j + 1]
    BY <1>0, <2>2, RemoveAtIs
  <2> HIDE DEF t
  <2>4. DOMAIN t = 1..(Len(s) - 1)
    BY <2>3, OrderIs
  <2>5. \A j, k \in 1..Len(s) : s[j] = s[k] => j = k
    BY <1>0 DEF Order, IsInjective
  <2>6. ASSUME NEW j \in 1..(Len(s) - 1)
        PROVE  \E k \in 1..Len(s) : t[j] = s[k] /\ k # i /\ k = IF j < i THEN j ELSE j + 1
    <3>1. CASE j < i
      BY <1>0, <2>2, <2>3, <3>1
    <3>2. CASE ~(j < i)
      BY <1>0, <2>2, <2>3, <3>2
    <3> QED
      BY <3>1, <3>2
  <2>7. ASSUME NEW j \in 1..(Len(s) - 1), NEW k \in 1..(Len(s) - 1), t[j] = t[k]
        PROVE  j = k
    <3>1. PICK x \in 1..Len(s) : t[j] = s[x] /\ x = IF j < i THEN j ELSE j + 1
      BY <2>6
    <3>2. PICK y \in 1..Len(s) : t[k] = s[y] /\ y = IF k < i THEN k ELSE k + 1
      BY <2>6
    <3>3. x = y
      BY <2>5, <2>7, <3>1, <3>2
    <3> QED
      BY <1>0, <2>2, <3>1, <3>2, <3>3
  <2>8. t \in Order
    BY <2>3, <2>4, <2>7 DEF Order, IsInjective
  <2>9. ASSUME NEW x \in ToSet(t)
        PROVE  x \in ToSet(s) \ {n}
    <3>1. PICK j \in 1..(Len(s) - 1) : x = t[j]
      BY <2>4 DEF ToSet
    <3>2. PICK k \in 1..Len(s) : t[j] = s[k] /\ k # i
      BY <2>6
    <3>3. x # n
      BY <2>2, <2>5, <3>1, <3>2
    <3> QED
      BY <1>0, <3>1, <3>2, <3>3 DEF ToSet
  <2>10. ASSUME NEW x \in ToSet(s), x # n
         PROVE  x \in ToSet(t)
    <3>1. PICK k \in 1..Len(s) : x = s[k]
      BY <1>0 DEF ToSet
    <3>2. k # i
      BY <2>2, <2>10, <3>1
    <3>3. CASE k < i
      <4>1. k \in 1..(Len(s) - 1) /\ t[k] = s[k]
        BY <1>0, <2>2, <2>3, <3>3
      <4> QED
        BY <2>4, <3>1, <4>1 DEF ToSet
    <3>4. CASE k > i
      <4>1. k - 1 \in 1..(Len(s) - 1) /\ ~(k - 1 < i) /\ (k - 1) + 1 = k
        BY <1>0, <2>2, <3>4
      <4>2. t[k - 1] = s[k]
        BY <2>3, <4>1
      <4> QED
        BY <2>4, <3>1, <4>1, <4>2 DEF ToSet
    <3> QED
      BY <1>0, <2>2, <3>2, <3>3, <3>4
  <2> QED
    BY <2>1, <2>8, <2>9, <2>10
<1> QED
  BY <1>1, <1>2

(* place() puts the node next to an anchor, or at the end. *)
LEMMA PlaceIs ==
    ASSUME NEW s \in Seq(Nodes), NEW n \in Nodes, NEW p, NEW q
    PROVE  /\ Place(s, n, p, q) \in Seq(Nodes)
           /\ \E i \in 1..(Len(s) + 1) : Place(s, n, p, q) = InsertAt(s, i, n)
<1>0. Len(s) \in Nat /\ DOMAIN s = 1..Len(s)
  BY OrderIs
<1>1. CASE Contains(s, p)
  <2>1. Index(s, p) \in 1..Len(s)
    BY <1>1, IndexIs
  <2>2. Index(s, p) + 1 \in 1..(Len(s) + 1)
    BY <1>0, <2>1
  <2> QED
    BY <1>1, <2>2, InsertAtIs DEF Place
<1>2. CASE ~Contains(s, p) /\ Contains(s, q)
  <2>1. Index(s, q) \in 1..Len(s)
    BY <1>2, IndexIs
  <2>2. Index(s, q) \in 1..(Len(s) + 1)
    BY <1>0, <2>1
  <2> QED
    BY <1>2, <2>2, InsertAtIs DEF Place
<1>3. CASE ~Contains(s, p) /\ ~Contains(s, q)
  <2>1. Place(s, n, p, q) = Append(s, n)
    BY <1>3 DEF Place
  <2>2. /\ Append(s, n) \in Seq(Nodes) /\ Len(Append(s, n)) = Len(s) + 1
        /\ \A i \in 1..Len(s) : Append(s, n)[i] = s[i]
        /\ Append(s, n)[Len(s) + 1] = n
    BY AppendProperties
  <2>3. Len(s) + 1 \in 1..(Len(s) + 1)
    BY <1>0
  <2>4. /\ InsertAt(s, Len(s) + 1, n) \in Seq(Nodes)
        /\ Len(InsertAt(s, Len(s) + 1, n)) = Len(s) + 1
        /\ \A j \in 1..(Len(s) + 1) : InsertAt(s, Len(s) + 1, n)[j] =
              IF j < Len(s) + 1 THEN s[j] ELSE IF j = Len(s) + 1 THEN n ELSE s[j - 1]
    BY <2>3, InsertAtIs
  <2>5. ASSUME NEW j \in 1..(Len(s) + 1)
        PROVE  Append(s, n)[j] = InsertAt(s, Len(s) + 1, n)[j]
    <3>1. CASE j = Len(s) + 1
      BY <1>0, <2>2, <2>4, <3>1
    <3>2. CASE j < Len(s) + 1
      <4>1. j \in 1..Len(s)
        BY <1>0, <3>2
      <4> QED
        BY <2>2, <2>4, <3>2, <4>1
    <3> QED
      BY <1>0, <3>1, <3>2
  <2>6. Append(s, n) = InsertAt(s, Len(s) + 1, n)
    BY <2>2, <2>4, <2>5, SeqEqual
  <2> QED
    BY <2>1, <2>2, <2>3, <2>6
<1> QED
  BY <1>1, <1>2, <1>3

LEMMA PlaceOrder ==
    ASSUME NEW s \in Order, NEW n \in Nodes, ~Contains(s, n), NEW p, NEW q
    PROVE  /\ Place(s, n, p, q) \in Order
           /\ ToSet(Place(s, n, p, q)) = ToSet(s) \cup {n}
<1>1. s \in Seq(Nodes)
  BY DEF Order
<1>2. PICK i \in 1..(Len(s) + 1) : Place(s, n, p, q) = InsertAt(s, i, n)
  BY <1>1, PlaceIs
<1> QED
  BY <1>2, InsertAtOrder

(* An operation that places a node names one. *)
Aims(o) == o.kind \in {"insert", "move"} => o.node \in Nodes

LEMMA PlacedSeq ==
    ASSUME NEW s \in Seq(Nodes), NEW o, Aims(o)
    PROVE  Placed(s, o) \in Seq(Nodes)
<1>1. CASE o.kind = "insert"
  BY <1>1, PlaceIs DEF Placed, Aims
<1>2. CASE o.kind = "move"
  <2>1. RemoveFirst(s, o.node) \in Seq(Nodes)
    BY RemoveFirstIs
  <2>2. Place(RemoveFirst(s, o.node), o.node, o.prev, o.next) \in Seq(Nodes)
    BY <1>2, <2>1, PlaceIs DEF Aims
  <2> QED
    BY <1>2, <2>2 DEF Placed
<1>3. CASE o.kind = "delete"
  BY <1>3, RemoveFirstIs DEF Placed
<1>4. CASE o.kind \notin {"insert", "move", "delete"}
  BY <1>4 DEF Placed
<1> QED
  BY <1>1, <1>2, <1>3, <1>4

(* An operation leaves an order an order. *)
LEMMA PlacedOrder ==
    ASSUME NEW s \in Order, NEW o, Aims(o),
           o.kind = "insert" => ~Contains(s, o.node)
    PROVE  /\ Placed(s, o) \in Order
           /\ o.kind \in {"insert", "move"} => ToSet(Placed(s, o)) = ToSet(s) \cup {o.node}
           /\ o.kind = "delete" => ToSet(Placed(s, o)) = ToSet(s) \ {o.node}
           /\ o.kind \notin {"insert", "move", "delete"} => Placed(s, o) = s
<1>1. CASE o.kind = "insert"
  BY <1>1, PlaceOrder DEF Placed, Aims
<1>2. CASE o.kind = "move"
  <2> DEFINE r == RemoveFirst(s, o.node)
  <2>1. r \in Order /\ ToSet(r) = ToSet(s) \ {o.node}
    BY RemoveFirstOrder
  <2> HIDE DEF r
  <2>2. ~Contains(r, o.node)
    BY <2>1, OrderIs DEF Order
  <2>3. Placed(s, o) = Place(r, o.node, o.prev, o.next)
    BY <1>2 DEF Placed, r
  <2>4. /\ Placed(s, o) \in Order
        /\ ToSet(Placed(s, o)) = ToSet(r) \cup {o.node}
    BY <1>2, <2>1, <2>2, <2>3, PlaceOrder DEF Aims
  <2> QED
    BY <1>2, <2>1, <2>4
<1>3. CASE o.kind = "delete"
  BY <1>3, RemoveFirstOrder DEF Placed
<1>4. CASE o.kind \notin {"insert", "move", "delete"}
  BY <1>4 DEF Placed
<1> QED
  BY <1>1, <1>2, <1>3, <1>4

-----------------------------------------------------------------------------
(* Documents.                                                              *)

(* A node that is not in the document holds no value. *)
Sound(d) == /\ d \in Doc /\ d.order \in Order
            /\ \A x \in Nodes : x \notin ToSet(d.order) => d.val[x] = 0

LEMMA StateIs ==
    ASSUME NEW s
    PROVE  s \in State <=> /\ s = [x \in DOMAIN s |-> s[x]]
                           /\ DOMAIN s \subseteq Nodes /\ \A x \in DOMAIN s : s[x] \in Values
<1>1. ASSUME s \in State
      PROVE  /\ s = [x \in DOMAIN s |-> s[x]]
             /\ DOMAIN s \subseteq Nodes /\ \A x \in DOMAIN s : s[x] \in Values
  <2>1. PICK D \in SUBSET Nodes : s \in [D -> Values]
    BY <1>1 DEF State
  <2> QED
    BY <2>1
<1>2. ASSUME s = [x \in DOMAIN s |-> s[x]],
             DOMAIN s \subseteq Nodes, \A x \in DOMAIN s : s[x] \in Values
      PROVE  s \in State
  <2>1. s \in [DOMAIN s -> Values]
    BY <1>2
  <2> QED
    BY <1>2, <2>1 DEF State
<1> QED
  BY <1>1, <1>2

LEMMA DocumentIs ==
    ASSUME NEW s \in Order, NEW v, \A x \in ToSet(s) : v[x] \in Values
    PROVE  /\ Sound(Document(s, v)) /\ Document(s, v).order = s
           /\ \A x \in Nodes : Document(s, v).val[x] = IF x \in ToSet(s) THEN v[x] ELSE 0
<1>1. s \in Seq(Nodes) /\ \A x : Contains(s, x) <=> x \in ToSet(s)
  BY OrderIs DEF Order
<1>2. Document(s, v) = [order |-> s, val |-> [x \in Nodes |-> IF x \in ToSet(s) THEN v[x] ELSE 0]]
  BY <1>1 DEF Document
<1>3. \A x \in Nodes : (IF x \in ToSet(s) THEN v[x] ELSE 0) \in Values
  BY ValuesAssumption
<1>4. Document(s, v) \in Doc
  BY <1>1, <1>2, <1>3 DEF Doc
<1> QED
  BY <1>2, <1>4 DEF Sound

LEMMA MergeIs ==
    ASSUME NEW s \in State, NEW v \in [Nodes -> Values]
    PROVE  /\ Over(s, v) \in [Nodes -> Values]
           /\ \A x \in Nodes : Over(s, v)[x] = IF x \in DOMAIN s THEN s[x] ELSE v[x]
<1>1. DOMAIN s \subseteq Nodes /\ \A x \in DOMAIN s : s[x] \in Values
  BY StateIs
<1> QED
  BY <1>1 DEF Over

(* The value an operation leaves a node with. *)
After(o, v, x) == IF x \in DOMAIN o.state THEN o.state[x] ELSE v[x]

LEMMA MergedIs ==
    ASSUME NEW d, Sound(d), NEW o, o.state \in State, NEW s \in Order
    PROVE  /\ Sound(Document(s, Over(o.state, d.val)))
           /\ Document(s, Over(o.state, d.val)).order = s
           /\ \A x \in Nodes : Document(s, Over(o.state, d.val)).val[x] =
                 IF x \in ToSet(s) THEN After(o, d.val, x) ELSE 0
<1>1. d.val \in [Nodes -> Values]
  BY DEF Sound, Doc
<1>2. /\ Over(o.state, d.val) \in [Nodes -> Values]
      /\ \A x \in Nodes : Over(o.state, d.val)[x] = After(o, d.val, x)
  BY <1>1, MergeIs DEF After
<1>3. ToSet(s) \subseteq Nodes
  BY OrderIs DEF Order
<1>4. \A x \in ToSet(s) : Over(o.state, d.val)[x] \in Values
  BY <1>2, <1>3
<1> QED
  BY <1>2, <1>4, DocumentIs

(* What may be said of an operation wherever it goes. *)
Wire(o) == Aims(o) /\ o.state \in State /\ o.kind \in {"none", "insert", "delete", "move"}

LEMMA AppliedIs ==
    ASSUME NEW d, Sound(d), NEW o, Wire(o), o.kind = "insert" => ~Contains(d.order, o.node)
    PROVE  /\ Sound(Applied(d, o)) /\ Applied(d, o).order = Placed(d.order, o)
           /\ \A x \in Nodes : Applied(d, o).val[x] =
                 IF x \in ToSet(Placed(d.order, o)) THEN After(o, d.val, x) ELSE 0
<1>1. Placed(d.order, o) \in Order
  BY PlacedOrder DEF Sound, Wire
<1> QED
  BY <1>1, MergedIs DEF Applied, Wire

(* An operation a client skips, in its order or altogether. *)
Skips(d, o)  == o.kind = "insert" /\ Contains(d.order, o.node)
Stays(s, o) == \/ o.kind = "insert" /\ Contains(s, o.node)
               \/ o.kind = "move" /\ ~Contains(s, o.node)
Settled(s, o) == IF Stays(s, o) THEN s ELSE Placed(s, o)

(* A patch leaves an order an order, of the nodes it says. *)
LEMMA SettledOrder ==
    ASSUME NEW s \in Order, NEW o, Wire(o)
    PROVE  /\ Settled(s, o) \in Order
           /\ o.kind = "none" => Settled(s, o) = s
           /\ o.kind = "insert" => ToSet(Settled(s, o)) = ToSet(s) \cup {o.node}
           /\ o.kind = "move" => ToSet(Settled(s, o)) = ToSet(s)
           /\ o.kind = "delete" => ToSet(Settled(s, o)) = ToSet(s) \ {o.node}
<1>1. \A x : Contains(s, x) <=> x \in ToSet(s)
  BY OrderIs DEF Order
<1>2. CASE Stays(s, o)
  BY <1>1, <1>2 DEF Settled, Stays
<1>3. CASE ~Stays(s, o)
  <2>1. Settled(s, o) = Placed(s, o) /\ Aims(o)
    BY <1>3 DEF Settled, Wire
  <2>2. o.kind = "insert" => ~Contains(s, o.node)
    BY <1>3 DEF Stays
  <2>3. /\ Placed(s, o) \in Order
        /\ o.kind \in {"insert", "move"} => ToSet(Placed(s, o)) = ToSet(s) \cup {o.node}
        /\ o.kind = "delete" => ToSet(Placed(s, o)) = ToSet(s) \ {o.node}
        /\ o.kind \notin {"insert", "move", "delete"} => Placed(s, o) = s
    BY <2>1, <2>2, PlacedOrder
  <2>4. o.kind = "move" => o.node \in ToSet(s)
    BY <1>1, <1>3 DEF Stays
  <2> QED
    BY <2>1, <2>3, <2>4
<1> QED
  BY <1>2, <1>3

(* What applying a patch to a local document leaves. *)
LEMMA LenientIs ==
    ASSUME NEW d, Sound(d), NEW o, Wire(o)
    PROVE  /\ Sound(Lenient(d, o)) /\ Lenient(d, o).order = Settled(d.order, o)
           /\ Skips(d, o) => Lenient(d, o) = d
           /\ ~Skips(d, o) => \A x \in Nodes : Lenient(d, o).val[x] =
                 IF x \in ToSet(Settled(d.order, o)) THEN After(o, d.val, x) ELSE 0
<1>1. CASE Skips(d, o)
  BY <1>1 DEF Skips, Lenient, Settled, Stays
<1>2. CASE o.kind = "move" /\ ~Contains(d.order, o.node)
  <2>1. Lenient(d, o) = Document(d.order, Over(o.state, d.val)) /\ ~Skips(d, o)
    BY <1>2 DEF Lenient, Skips
  <2>2. Settled(d.order, o) = d.order /\ d.order \in Order /\ o.state \in State
    BY <1>2 DEF Settled, Stays, Sound, Wire
  <2> QED
    BY <2>1, <2>2, MergedIs
<1>3. CASE ~Stays(d.order, o)
  <2>1. Lenient(d, o) = Applied(d, o) /\ ~Skips(d, o) /\ Settled(d.order, o) = Placed(d.order, o)
    BY <1>3 DEF Stays, Skips, Settled, Lenient
  <2>2. o.kind = "insert" => ~Contains(d.order, o.node)
    BY <1>3 DEF Stays
  <2> QED
    BY <2>1, <2>2, AppliedIs
<1> QED
  BY <1>1, <1>2, <1>3 DEF Stays, Skips

(* The host's normalizer. *)
Cut(v) == IF v > Limit THEN Limit ELSE v

(* The normalizer leaves order and types alone. *)
LEMMA NormalizedIs ==
    ASSUME NEW d, Sound(d)
    PROVE  /\ Sound(Normalized(d)) /\ Normalized(d).order = d.order
           /\ Tally \notin Nodes =>
                 \A x \in Nodes : Normalized(d).val[x] =
                    IF x \in ToSet(d.order) THEN Cut(d.val[x]) ELSE 0
<1> DEFINE held == ToSet(d.order)
           over == {n \in held : d.val[n] > Limit}
           w    == [n \in Nodes |-> IF n \in over THEN Limit
                     ELSE IF n = Tally /\ n \in held /\ over # {} THEN 1 ELSE d.val[n]]
           e    == Normalized(d)
<1>1. e = [d EXCEPT !.val = w]
  BY DEF Normalized
<1>2. /\ d \in Doc /\ d.order \in Order /\ d.val \in [Nodes -> Values]
      /\ \A x \in Nodes : x \notin held => d.val[x] = 0
  BY DEF Sound, Doc
<1>3. ASSUME NEW x \in Nodes
      PROVE  /\ w[x] \in Values /\ (x \notin held => w[x] = 0)
             /\ Tally \notin Nodes => w[x] = IF x \in held THEN Cut(d.val[x]) ELSE 0
  <2>1. x = Tally => 1 \in Values
    BY ValuesAssumption
  <2>2. w[x] = IF x \in over THEN Limit
               ELSE IF x = Tally /\ x \in held /\ over # {} THEN 1 ELSE d.val[x]
    OBVIOUS
  <2>3. x \in over <=> x \in held /\ d.val[x] > Limit
    OBVIOUS
  <2>4. Limit \in Values /\ d.val[x] \in Values
    BY <1>2, ValuesAssumption
  <2>5. x \notin held => d.val[x] = 0
    BY <1>2
  <2> HIDE DEF w, over, held
  <2> QED
    BY <2>1, <2>2, <2>3, <2>4, <2>5 DEF Cut
<1>4. w \in [Nodes -> Values]
  <2> HIDE DEF over, held
  <2> QED
    BY <1>3
<1> HIDE DEF w, over
<1>5. e \in Doc /\ e.order = d.order /\ e.val = w
  BY <1>1, <1>2, <1>4 DEF Doc
<1> HIDE DEF e
<1>6. Sound(e)
  BY <1>2, <1>3, <1>5 DEF Sound
<1> QED
  BY <1>3, <1>5, <1>6 DEF e

(* What the server makes of an operation it accepts. *)
Fits(d, o) ==
    /\ Wire(o)
    /\ o.kind = "insert" => ~Contains(d.order, o.node)
    /\ o.kind \in {"delete", "move"} => Contains(d.order, o.node)

(* A request leaves the server a document. *)
LEMMA CommittedIs ==
    ASSUME NEW d, Sound(d), NEW o, Fits(d, o)
    PROVE  /\ Sound(Committed(d, o)) /\ Committed(d, o).order = Placed(d.order, o)
           /\ Placed(d.order, o) = Settled(d.order, o)
           /\ Tally \notin Nodes =>
                 \A x \in Nodes : Committed(d, o).val[x] =
                    IF x \in ToSet(Placed(d.order, o)) THEN Cut(After(o, d.val, x)) ELSE 0
<1>1. /\ Sound(Applied(d, o)) /\ Applied(d, o).order = Placed(d.order, o)
      /\ \A x \in Nodes : Applied(d, o).val[x] =
            IF x \in ToSet(Placed(d.order, o)) THEN After(o, d.val, x) ELSE 0
  BY AppliedIs DEF Fits
<1>2. /\ Sound(Normalized(Applied(d, o)))
      /\ Normalized(Applied(d, o)).order = Applied(d, o).order
      /\ Tally \notin Nodes =>
            \A x \in Nodes : Normalized(Applied(d, o)).val[x] =
               IF x \in ToSet(Applied(d, o).order) THEN Cut(Applied(d, o).val[x]) ELSE 0
  BY <1>1, NormalizedIs
<1>3. ~Stays(d.order, o)
  BY DEF Fits, Stays
<1> QED
  BY <1>1, <1>2, <1>3 DEF Committed, Settled

LEMMA NeighboursAre ==
    ASSUME NEW s \in Seq(Nodes), NEW n
    PROVE  PrevOf(s, n) \in Nodes \cup {NoNode} /\ NextOf(s, n) \in Nodes \cup {NoNode}
<1>1. /\ Index(s, n) \in 0..Len(s) /\ Len(s) \in Nat
      /\ \A i \in 1..Len(s) : s[i] \in Nodes
  BY IndexIs, OrderIs
<1>2. ~(Index(s, n) <= 1) => Index(s, n) - 1 \in 1..Len(s)
  BY <1>1
<1>3. Index(s, n) \notin {0, Len(s)} => Index(s, n) + 1 \in 1..Len(s)
  BY <1>1
<1> QED
  BY <1>1, <1>2, <1>3 DEF PrevOf, NextOf

LEMMA PatchIs ==
    ASSUME NEW k, NEW n, NEW p, NEW q, NEW s
    PROVE  LET o == Patch(k, n, p, q, s)
           IN  o.kind = k /\ o.node = n /\ o.prev = p /\ o.next = q /\ o.state = s
BY DEF Patch

(* The nodes a commit records the value of. *)
Wrote(d, o, new) == {n \in ToSet(new.order) : \/ new.val[n] # d.val[n]
                                              \/ o.kind = "insert" /\ n = o.node}

(* What a commit records is an operation. *)
LEMMA RecordedIs ==
    ASSUME NEW d, Sound(d), NEW o, o \in Ops, Aims(o), NEW new, Sound(new)
    PROVE  LET r == Recorded(d, o, new)
           IN  /\ r \in Ops /\ Wire(r)
               /\ r.state = [n \in Wrote(d, o, new) |-> new.val[n]]
               /\ DOMAIN r.state = Wrote(d, o, new)
               /\ new.order = d.order => r.kind = "none"
               /\ new.order # d.order => /\ r.kind = o.kind /\ r.node = o.node
                                         /\ r.prev = PrevOf(new.order, o.node)
                                         /\ r.next = NextOf(new.order, o.node)
<1> DEFINE w == Wrote(d, o, new)
           s == [n \in w |-> new.val[n]]
           r == Recorded(d, o, new)
<1>1. r = IF new.order = d.order THEN Patch("none", NoNode, NoNode, NoNode, s)
          ELSE Patch(o.kind, o.node, PrevOf(new.order, o.node), NextOf(new.order, o.node), s)
  BY DEF Recorded, Wrote
<1>2. new.order \in Seq(Nodes) /\ new.val \in [Nodes -> Values] /\ ToSet(new.order) \subseteq Nodes
  BY OrderIs DEF Sound, Doc, Order
<1>3. w \subseteq Nodes
  BY <1>2 DEF Wrote
<1> HIDE DEF w
<1>4. DOMAIN s = w /\ s \in [w -> Values]
  BY <1>2, <1>3
<1>5. s \in State
  BY <1>3, <1>4 DEF State
<1> HIDE DEF s
<1>6. /\ PrevOf(new.order, o.node) \in Nodes \cup {NoNode}
      /\ NextOf(new.order, o.node) \in Nodes \cup {NoNode}
  BY <1>2, NeighboursAre
<1>7. o.kind \in {"none", "insert", "delete", "move"} /\ o.node \in Nodes \cup {NoNode}
  BY DEF Ops
<1>8. r \in Ops
  BY <1>1, <1>5, <1>6, <1>7 DEF Ops, Patch
<1>9. /\ r.state = s
      /\ new.order = d.order => r.kind = "none"
      /\ new.order # d.order => /\ r.kind = o.kind /\ r.node = o.node
                                /\ r.prev = PrevOf(new.order, o.node)
                                /\ r.next = NextOf(new.order, o.node)
  BY <1>1, PatchIs
<1>10. Wire(r)
  BY <1>5, <1>7, <1>9 DEF Wire, Aims
<1> QED
  BY <1>4, <1>8, <1>9, <1>10 DEF s, w

-----------------------------------------------------------------------------
(* PendingModel.order is an order of nodes.                                *)

(* What stays in its place is an order. *)
LEMMA StayingIs ==
    ASSUME local.order \in Seq(Nodes)
    PROVE  Staying \in Seq(Nodes)
<1> DEFINE n    == Len(local.order)
           out  == Foreseen.deleted \cup Foreseen.placed
           P(f) == f = [k \in 0..n |->
                    IF k = 0 THEN <<>>
                    ELSE IF local.order[k] \in out THEN f[k - 1]
                    ELSE Append(f[k - 1], local.order[k])]
           step == [k \in Nat |-> [s \in Seq(Nodes) |->
                      IF k \notin 1..n \/ local.order[k] \in out THEN s
                      ELSE Append(s, local.order[k])]]
           h    == CHOOSE f : P(f)
<1>1. Staying = h[n]
  BY DEF Staying
<1>2. n \in Nat /\ \A k \in 1..n : local.order[k] \in Nodes
  BY OrderIs
<1> HIDE DEF n, out
<1>3. step \in [Nat -> [Seq(Nodes) -> Seq(Nodes)]]
  <2> SUFFICES ASSUME NEW k \in Nat, NEW s \in Seq(Nodes)
               PROVE  (IF k \notin 1..n \/ local.order[k] \in out THEN s
                       ELSE Append(s, local.order[k])) \in Seq(Nodes)
    OBVIOUS
  <2> QED
    BY <1>2, AppendProperties
<1>4. <<>> \in Seq(Nodes)
  BY EmptySeq
<1>5. PICK g \in [0..n -> Seq(Nodes)] : Recursion(g, n, <<>>, step)
  <2> HIDE DEF step
  <2> QED
    BY <1>2, <1>3, <1>4, RecursionExists
<1>6. P(g)
  <2>1. ASSUME NEW k \in 0..n
        PROVE  g[k] = IF k = 0 THEN <<>> ELSE
                            IF local.order[k] \in out THEN g[k - 1] ELSE Append(g[k - 1], local.order[k])
    <3>1. g[k] = IF k = 0 THEN <<>> ELSE step[k][g[k - 1]]
      BY <1>5 DEF Recursion
    <3>2. k # 0 => k \in Nat /\ k \in 1..n /\ g[k - 1] \in Seq(Nodes)
      BY <1>2, <1>5
    <3> QED
      BY <3>1, <3>2
  <2> QED
    BY <1>5, <2>1
<1>7. P(h)
  <2> HIDE DEF P
  <2> QED
    BY <1>6
<1> HIDE DEF h
<1>8. \A k \in 0..n : h[k] = IF k = 0 THEN <<>>
                            ELSE IF local.order[k] \in out THEN h[k - 1]
                            ELSE Append(h[k - 1], local.order[k])
  BY <1>7
<1> DEFINE T == {k \in Nat : k <= n => h[k] \in Seq(Nodes)}
<1>9. 0 \in T
  <2>1. 0 \in 0..n
    BY <1>2
  <2>2. h[0] = <<>>
    BY <1>8, <2>1
  <2> QED
    BY <1>4, <2>2
<1>10. ASSUME NEW k \in Nat, k \in T
       PROVE  k + 1 \in T
  <2> SUFFICES ASSUME k + 1 <= n
               PROVE  h[k + 1] \in Seq(Nodes)
    OBVIOUS
  <2>1. h[k] \in Seq(Nodes) /\ k + 1 \in 0..n /\ k + 1 \in 1..n /\ (k + 1) - 1 = k
    BY <1>2, <1>10
  <2>2. h[k + 1] = IF local.order[k + 1] \in out THEN h[k] ELSE Append(h[k], local.order[k + 1])
    BY <1>8, <2>1
  <2>3. Append(h[k], local.order[k + 1]) \in Seq(Nodes)
    BY <1>2, <2>1, AppendProperties
  <2> QED
    BY <2>1, <2>2, <2>3
<1>11. Nat \subseteq T
  <2> HIDE DEF T
  <2> QED
    BY <1>9, <1>10, Induction
<1> QED
  BY <1>1, <1>2, <1>11

(* What the pending operations are foreseen to leave is an order. *)
LEMMA ModelOrderIs ==
    ASSUME local.order \in Seq(Nodes), Len(Unconfirmed) \in Nat,
           \A k \in 1..Len(Unconfirmed) : Aims(Unconfirmed[k])
    PROVE  ModelOrder \in Seq(Nodes)
<1> DEFINE u    == Unconfirmed
           n    == Len(u)
           first == Staying
           P(f) == f = [k \in 0..n |-> IF k = 0 THEN first ELSE Placed(f[k - 1], u[k])]
           step == [k \in Nat |-> [s \in Seq(Nodes) |-> IF k \in 1..n THEN Placed(s, u[k]) ELSE s]]
           h    == CHOOSE f : P(f)
<1>1. ModelOrder = h[n]
  BY DEF ModelOrder
<1>2. n \in Nat /\ (\A k \in 1..n : Aims(u[k])) /\ first \in Seq(Nodes)
  BY StayingIs
<1> HIDE DEF n, u, first
<1>3. step \in [Nat -> [Seq(Nodes) -> Seq(Nodes)]]
  <2> SUFFICES ASSUME NEW k \in Nat, NEW s \in Seq(Nodes)
               PROVE  (IF k \in 1..n THEN Placed(s, u[k]) ELSE s) \in Seq(Nodes)
    OBVIOUS
  <2> QED
    BY <1>2, PlacedSeq
<1>4. PICK g \in [0..n -> Seq(Nodes)] : Recursion(g, n, first, step)
  <2> HIDE DEF step
  <2> QED
    BY <1>2, <1>3, RecursionExists
<1>5. P(g)
  <2>1. ASSUME NEW k \in 0..n
        PROVE  g[k] = IF k = 0 THEN first ELSE Placed(g[k - 1], u[k])
    <3>1. g[k] = IF k = 0 THEN first ELSE step[k][g[k - 1]]
      BY <1>4 DEF Recursion
    <3>2. k # 0 => k \in Nat /\ k \in 1..n /\ g[k - 1] \in Seq(Nodes)
      BY <1>2, <1>4
    <3> QED
      BY <3>1, <3>2
  <2> QED
    BY <1>4, <2>1
<1>6. P(h)
  <2> HIDE DEF P
  <2> QED
    BY <1>5
<1>7. \A k \in 0..n : h[k] = IF k = 0 THEN first ELSE Placed(h[k - 1], u[k])
  <2> HIDE DEF h
  <2> QED
    BY <1>6
<1> HIDE DEF h
<1> DEFINE T == {k \in Nat : k <= n => h[k] \in Seq(Nodes)}
<1>8. 0 \in T
  BY <1>2, <1>7
<1>9. ASSUME NEW k \in Nat, k \in T
      PROVE  k + 1 \in T
  <2> SUFFICES ASSUME k + 1 <= n
               PROVE  h[k + 1] \in Seq(Nodes)
    OBVIOUS
  <2>1. h[k] \in Seq(Nodes) /\ k + 1 \in 0..n /\ k + 1 \in 1..n /\ (k + 1) - 1 = k
    BY <1>2, <1>9
  <2>2. h[k + 1] = Placed(h[k], u[k + 1])
    BY <1>7, <2>1
  <2> QED
    BY <1>2, <2>1, <2>2, PlacedSeq
<1>10. Nat \subseteq T
  <2> HIDE DEF T
  <2> QED
    BY <1>8, <1>9, Induction
<1> QED
  BY <1>1, <1>2, <1>10

-----------------------------------------------------------------------------
(* Types.                                                                  *)

(* An edit of the client writes the field of one node, which an insert     *)
(* brings along, or places a node that is there.                           *)
Shape(o) ==
    \/ o.kind = "none" /\ \E x \in Nodes : DOMAIN o.state = {x}
    \/ o.kind = "insert" /\ DOMAIN o.state = {o.node} /\ o.node \in Nodes \ ToSet(Start)
    \/ o.kind \in {"delete", "move"} /\ DOMAIN o.state = {} /\ o.node \in Nodes

Own     == {o \in Ops : Wire(o) /\ Shape(o)}
Commit  == {o \in Ops : Wire(o) /\ (o.kind = "insert" => o.node \notin ToSet(Start))}
Request == [id : 1..MaxEdits, ops : Own]
Echo    == [type : {"patch"}, ref : {0}, ops : Commit]
Parcel  == [type : {"patch"}, ref : 0..MaxEdits, ops : Commit]
             \cup [type : {"error"}, ref : 1..MaxEdits]
             \cup [type : {"snapshot"}, doc : {d \in Doc : Sound(d)}]
KeptOp  == {p \in [id : 1..MaxEdits, ops : Own, applied : BOOLEAN,
                   orig : State, shadowed : BOOLEAN] :
              /\ p.applied => p.ops.kind = "none" /\ DOMAIN p.orig = DOMAIN p.ops.state
              /\ ~p.applied => DOMAIN p.orig = {}}

TypeInv ==
    /\ Sound(sdoc) /\ Sound(local) /\ Sound(base) /\ local.order = base.order
    /\ srv \in {"idle", "reject", "resync"}
    /\ link \in {"down", "pending", "up"}
    /\ rejected \in BOOLEAN /\ doubled \in BOOLEAN
    /\ up \in Seq(Request) /\ ghost \in Seq(Request) /\ buffered \in Seq(Request)
    /\ down \in Seq(Parcel) /\ late \in Seq(Echo)
    /\ pending \in Seq(KeptOp)
    /\ ToSet(Start) \subseteq minted /\ minted \subseteq Nodes
    /\ decided \cup dropped \subseteq 1..MaxEdits
    /\ edits \in 0..MaxEdits /\ hosts \in 0..MaxHost /\ breaks \in 0..MaxBreaks

LEMMA OwnIs ==
    ASSUME NEW o \in Own
    PROVE  o \in Commit /\ o \in Ops /\ Wire(o) /\ Aims(o) /\ Shape(o) /\ o.state \in State
BY DEF Own, Commit, Shape, Wire

LEMMA CommitIs ==
    ASSUME NEW o \in Commit
    PROVE  o \in Ops /\ Wire(o) /\ Aims(o) /\ o.state \in State
BY DEF Commit, Wire

LEMMA ParcelIs ==
    ASSUME NEW m \in Parcel
    PROVE  /\ m.type \in {"patch", "error", "snapshot"}
           /\ m.type = "patch" => m.ops \in Commit /\ m.ref \in 0..MaxEdits
           /\ m.type = "error" => m.ref \in 1..MaxEdits
           /\ m.type = "snapshot" => m.doc \in Doc /\ Sound(m.doc)
BY DEF Parcel

LEMMA EchoIs ==
    ASSUME NEW m \in Echo
    PROVE  m \in Parcel /\ m.type = "patch" /\ m.ref = 0 /\ m.ops \in Commit
BY BoundsAssumption DEF Parcel, Echo

LEMMA MessagesAre ==
    /\ \A o \in Commit, r \in 0..MaxEdits : PatchMsg(r, o) \in Parcel
    /\ \A o \in Commit : PatchMsg(0, o) \in Echo
    /\ \A r \in 1..MaxEdits : ErrorMsg(r) \in Parcel
    /\ \A d : Sound(d) => SnapshotMsg(d) \in Parcel
BY DEF Parcel, Echo, PatchMsg, ErrorMsg, SnapshotMsg, Sound

(* The invariant is about types of the variables, and more.                *)
LEMMA TypeInvTypes == TypeInv => TypeOK
<1> SUFFICES ASSUME TypeInv
             PROVE  TypeOK
  OBVIOUS
<1>1. /\ sdoc \in Doc /\ local \in Doc /\ base \in Doc
      /\ IsInjective(sdoc.order) /\ IsInjective(local.order)
  BY DEF TypeInv, Sound, Order
<1>2. Request \subseteq Sent
  BY DEF Request, Sent, Own
<1>3. Parcel \subseteq Frame
  <2>1. ASSUME NEW m \in Parcel
        PROVE  m \in Frame
    BY DEF Parcel, Frame, Commit
  <2> QED
    BY <2>1
<1>4. Echo \subseteq Frame
  BY <1>3, EchoIs
<1>5. KeptOp \subseteq [id : 1..MaxEdits, ops : Ops, applied : BOOLEAN,
                        orig : State, shadowed : BOOLEAN]
  BY DEF KeptOp, Own
<1>6. up \in Seq(Sent) /\ ghost \in Seq(Sent) /\ buffered \in Seq(Sent)
  BY <1>2, SeqMonotonic DEF TypeInv
<1>7. down \in Seq(Frame) /\ late \in Seq(Frame)
  BY <1>3, <1>4, SeqMonotonic DEF TypeInv
<1>8. pending \in Seq([id : 1..MaxEdits, ops : Ops, applied : BOOLEAN,
                       orig : State, shadowed : BOOLEAN])
  BY <1>5, SeqMonotonic DEF TypeInv
<1> QED
  BY <1>1, <1>6, <1>7, <1>8 DEF TypeInv, TypeOK

(* The types hold at first ... *)
LEMMA InitType == Init => TypeInv
<1> SUFFICES ASSUME Init
             PROVE  TypeInv
  OBVIOUS
<1>1. Start \in Order
  BY StartAssumption DEF Order
<1>2. ToSet(Start) \subseteq Nodes
  BY <1>1, OrderIs DEF Order
<1>3. Sound(sdoc)
  <2>1. \A x \in ToSet(Start) : [n \in Nodes |-> 0][x] \in Values
    BY <1>2, ValuesAssumption
  <2> QED
    BY <1>1, <2>1, DocumentIs DEF Init
<1>4. \A S : <<>> \in Seq(S)
  BY EmptySeq
<1>5. Sound(local) /\ Sound(base) /\ local.order = base.order
  BY <1>3 DEF Init
<1>6. /\ up \in Seq(Request) /\ ghost \in Seq(Request) /\ buffered \in Seq(Request)
      /\ down \in Seq(Parcel) /\ late \in Seq(Echo) /\ pending \in Seq(KeptOp)
  BY <1>4 DEF Init
<1>7. edits \in 0..MaxEdits /\ hosts \in 0..MaxHost /\ breaks \in 0..MaxBreaks
  BY BoundsAssumption DEF Init
<1> QED
  BY <1>2, <1>3, <1>5, <1>6, <1>7 DEF Init, TypeInv

-----------------------------------------------------------------------------
(* What a commit sends.                                                    *)

LEMMA AppliesFits ==
    ASSUME NEW d, NEW o \in Own, Applies(d, o)
    PROVE  Fits(d, o)
BY OwnIs DEF Applies, Fits

LEMMA RecordedCommit ==
    ASSUME NEW d, Sound(d), NEW o \in Commit, NEW new, Sound(new)
    PROVE  Recorded(d, o, new) \in Commit
BY RecordedIs, CommitIs DEF Commit

LEMMA AnswerCommit ==
    ASSUME NEW d, Sound(d), NEW o \in Commit, NEW new, Sound(new),
           DOMAIN o.state \subseteq ToSet(new.order)
    PROVE  Answer(d, o, new) \in Commit
<1>1. CASE new # d
  BY <1>1, RecordedCommit DEF Answer
<1>2. CASE new = d
  <2> DEFINE s == [n \in DOMAIN o.state |-> new.val[n]]
             a == Patch("none", NoNode, NoNode, NoNode, s)
  <2>1. DOMAIN o.state \subseteq Nodes
    BY CommitIs, StateIs
  <2>2. s \in [DOMAIN o.state -> Values]
    BY <2>1 DEF Sound, Doc
  <2>3. s \in State
    BY <2>1, <2>2 DEF State
  <2> HIDE DEF s
  <2>4. a.kind = "none" /\ a.state \in State /\ a \in Ops
    BY <2>3 DEF Patch, Ops
  <2>5. a \in Commit
    BY <2>4 DEF Commit, Wire, Aims
  <2> QED
    BY <1>2, <2>5 DEF Answer, s
<1> QED
  BY <1>1, <1>2

LEMMA BroadcastType ==
    ASSUME TypeInv, NEW o \in Commit, Fits(sdoc, o), Broadcast(o)
    PROVE  Sound(sdoc') /\ down' \in Seq(Parcel) /\ late' \in Seq(Echo)
<1> DEFINE m == PatchMsg(0, Recorded(sdoc, o, sdoc'))
<1>1. Sound(sdoc')
  BY CommittedIs DEF Broadcast, TypeInv
<1>2. m \in Echo /\ m \in Parcel
  BY <1>1, RecordedCommit, MessagesAre, EchoIs DEF TypeInv
<1>3. /\ down \in Seq(Parcel) /\ late \in Seq(Echo)
      /\ Append(down, m) \in Seq(Parcel) /\ Append(late, m) \in Seq(Echo)
  BY <1>2, AppendProperties DEF TypeInv
<1>4. (down' = down \/ down' = Append(down, m)) /\ (late' = late \/ late' = Append(late, m))
  BY DEF Broadcast
<1> QED
  BY <1>1, <1>3, <1>4

LEMMA HostEditFits ==
    ASSUME TypeInv, NEW o \in HostEdits
    PROVE  o \in Commit /\ Fits(sdoc, o) /\ o.kind # "insert"
<1>1. sdoc.order \in Seq(Nodes) /\ \A x : x \in ToSet(sdoc.order) => x \in Nodes /\ Contains(sdoc.order, x)
  BY OrderIs DEF TypeInv, Sound, Order
<1>2. NoState \in State
  BY DEF NoState, State
<1>3. CASE \E n \in ToSet(sdoc.order), v \in Values : o = Write(n, v)
  <2>1. PICK n \in ToSet(sdoc.order), v \in Values : o = Write(n, v)
    BY <1>3
  <2>2. Only(n, v) \in State
    <3>1. Only(n, v) \in [{n} -> Values] /\ {n} \in SUBSET Nodes
      BY <1>1 DEF Only
    <3> QED
      BY <3>1 DEF State
  <2>3. o.kind = "none" /\ o.state \in State /\ o \in Ops
    BY <2>1, <2>2 DEF Write, Patch, Ops
  <2> QED
    BY <2>3 DEF Commit, Wire, Aims, Fits
<1>4. CASE \E n \in ToSet(sdoc.order) : o = Patch("delete", n, NoNode, NoNode, NoState)
  <2>1. PICK n \in ToSet(sdoc.order) : o = Patch("delete", n, NoNode, NoNode, NoState)
    BY <1>4
  <2>2. o.kind = "delete" /\ o.node = n /\ o.state \in State /\ o \in Ops
    BY <1>1, <1>2, <2>1 DEF Patch, Ops
  <2> QED
    BY <1>1, <2>2 DEF Commit, Wire, Aims, Fits
<1>5. CASE \E n \in ToSet(sdoc.order), p \in ToSet(sdoc.order) \cup {NoNode} :
              o = Patch("move", n, p, NoNode, NoState)
  <2>1. PICK n \in ToSet(sdoc.order), p \in ToSet(sdoc.order) \cup {NoNode} :
              o = Patch("move", n, p, NoNode, NoState)
    BY <1>5
  <2>2. o.kind = "move" /\ o.node = n /\ o.state \in State /\ o \in Ops
    BY <1>1, <1>2, <2>1 DEF Patch, Ops
  <2> QED
    BY <1>1, <2>2 DEF Commit, Wire, Aims, Fits
<1> QED
  BY <1>3, <1>4, <1>5 DEF HostEdits

LEMMA HeadTailSeq ==
    ASSUME NEW S, NEW s \in Seq(S), s # <<>>
    PROVE  /\ Head(s) \in S /\ Tail(s) \in Seq(S) /\ Head(s) = s[1]
           /\ Len(s) \in Nat \ {0} /\ 1 \in DOMAIN s /\ DOMAIN s = 1..Len(s)
           /\ Len(Tail(s)) = Len(s) - 1 /\ DOMAIN Tail(s) = 1..(Len(s) - 1)
           /\ \A i \in 1..(Len(s) - 1) : Tail(s)[i] = s[i + 1]
<1>1. Len(s) \in Nat \ {0} /\ DOMAIN s = 1..Len(s)
  BY EmptySeq, LenProperties
<1>2. /\ Head(s) \in S /\ Tail(s) \in Seq(S) /\ Len(Tail(s)) = Len(s) - 1
      /\ \A i \in 1..Len(Tail(s)) : Tail(s)[i] = s[i + 1]
  BY HeadTailProperties
<1>3. DOMAIN Tail(s) = 1..(Len(s) - 1)
  BY <1>2, LenProperties
<1> QED
  BY <1>1, <1>2, <1>3

LEMMA MappedSeq ==
    ASSUME NEW S, NEW n \in Nat, NEW f, f = [i \in 1..n |-> f[i]], \A i \in 1..n : f[i] \in S
    PROVE  f \in Seq(S)
<1>1. f \in [1..n -> S]
  OBVIOUS
<1> QED
  BY <1>1, SeqDef

(* ... and every step keeps them: the server's ... *)
LEMMA ServeType ==
    ASSUME TypeInv, Serve
    PROVE  TypeInv'
<1> DEFINE r == Head(up)
<1>1. r \in Request /\ Tail(up) \in Seq(Request)
  BY HeadTailSeq DEF Serve, TypeInv
<1>2. r.id \in 1..MaxEdits /\ r.ops \in Own /\ r.ops \in Commit
  BY <1>1, OwnIs DEF Request
<1> HIDE DEF r
<1>3. CASE Applies(sdoc, r.ops) /\ sdoc' = Committed(sdoc, r.ops)
           /\ down' = Append(down, PatchMsg(r.id, Answer(sdoc, r.ops, sdoc')))
           /\ srv' = srv /\ up' = Tail(up)
  <2>1. Fits(sdoc, r.ops)
    BY <1>2, <1>3, AppliesFits
  <2>2. Sound(sdoc') /\ sdoc'.order = Placed(sdoc.order, r.ops)
    BY <1>3, <2>1, CommittedIs DEF TypeInv
  <2>3. Answer(sdoc, r.ops, sdoc') \in Commit
    BY <1>2, <1>3, <2>2, AnswerCommit DEF TypeInv, Applies
  <2>4. PatchMsg(r.id, Answer(sdoc, r.ops, sdoc')) \in Parcel
    BY <1>2, <2>3, MessagesAre, BoundsAssumption
  <2>5. down' \in Seq(Parcel)
    BY <1>3, <2>4, AppendProperties DEF TypeInv
  <2> QED
    BY <1>1, <1>2, <1>3, <2>2, <2>5 DEF TypeInv, Serve, counts, client, r
<1>4. CASE ~Applies(sdoc, r.ops) /\ srv' = "reject" /\ UNCHANGED <<sdoc, down, up>>
  BY <1>2, <1>4 DEF TypeInv, Serve, counts, client, r
<1> QED
  BY <1>3, <1>4 DEF Serve, r

(* ... its rejections ... *)
LEMMA SendErrorType ==
    ASSUME TypeInv, Linked, SendError
    PROVE  TypeInv'
<1>1. up # <<>>
  BY DEF Linked, SendError
<1>2. Head(up) \in Request /\ Tail(up) \in Seq(Request)
  BY <1>1, HeadTailSeq DEF TypeInv
<1>3. ErrorMsg(Head(up).id) \in Parcel
  BY <1>2, MessagesAre DEF Request
<1>4. down' \in Seq(Parcel)
  BY <1>3, AppendProperties DEF TypeInv, SendError
<1> QED
  BY <1>2, <1>4 DEF TypeInv, SendError, counts, client

(* ... their snapshots ... *)
LEMMA ResyncType ==
    ASSUME TypeInv, Resync
    PROVE  TypeInv'
<1>1. Append(down, SnapshotMsg(sdoc)) \in Seq(Parcel)
  BY MessagesAre, AppendProperties DEF TypeInv
<1>2. late \in Seq(Parcel)
  BY EchoIs, SeqMonotonic DEF TypeInv
<1>3. down' \in Seq(Parcel)
  BY <1>1, <1>2, ConcatProperties DEF Resync
<1>4. late' \in Seq(Echo)
  BY EmptySeq DEF Resync
<1>5. doubled' \in BOOLEAN
  BY DEF Resync, TypeInv
<1> QED
  BY <1>3, <1>4, <1>5 DEF TypeInv, Resync, counts, client

(* ... the host's edits ... *)
LEMMA HostCommitType ==
    ASSUME TypeInv, HostCommit
    PROVE  TypeInv'
<1>1. PICK o \in HostEdits : Broadcast(o)
  BY DEF HostCommit
<1>2. Sound(sdoc') /\ down' \in Seq(Parcel) /\ late' \in Seq(Echo)
  BY <1>1, HostEditFits, BroadcastType
<1>3. hosts' \in 0..MaxHost
  BY BoundsAssumption DEF HostCommit, TypeInv
<1> QED
  BY <1>1, <1>2, <1>3 DEF TypeInv, HostCommit, Broadcast, client

(* ... requests of a connection that broke ... *)
LEMMA ServeGhostType ==
    ASSUME TypeInv, ServeGhost
    PROVE  TypeInv'
<1> DEFINE r == Head(ghost)
<1>1. r \in Request /\ Tail(ghost) \in Seq(Request)
  BY HeadTailSeq DEF ServeGhost, TypeInv
<1>2. r.id \in 1..MaxEdits /\ r.ops \in Own /\ r.ops \in Commit
  BY <1>1, OwnIs DEF Request
<1> HIDE DEF r
<1>3. CASE Applies(sdoc, r.ops) /\ Broadcast(r.ops)
  <2>1. Fits(sdoc, r.ops)
    BY <1>2, <1>3, AppliesFits
  <2>2. Sound(sdoc') /\ down' \in Seq(Parcel) /\ late' \in Seq(Echo)
    BY <1>2, <1>3, <2>1, BroadcastType
  <2> QED
    BY <1>1, <1>2, <1>3, <2>2 DEF TypeInv, ServeGhost, Broadcast, client, r
<1>4. CASE UNCHANGED <<sdoc, srv, late, up, down, link, client, minted, edits, breaks, dropped>>
  BY <1>1, <1>2, <1>4 DEF TypeInv, ServeGhost, client, r
<1> QED
  BY <1>3, <1>4 DEF ServeGhost, r

(* ... the client's handling of a rejection ... *)
LEMMA HandleErrorType ==
    ASSUME TypeInv, Inv, HandleError
    PROVE  TypeInv'
<1>1. Tail(down) \in Seq(Parcel)
  BY HeadTailSeq DEF HandleError, Received, TypeInv
<1>2. \A ref : Position(ref) # 0 => TakePending(ref) \in Seq(KeptOp)
  <2> SUFFICES ASSUME NEW ref, Position(ref) # 0
               PROVE  TakePending(ref) \in Seq(KeptOp)
    OBVIOUS
  <2>1. Position(ref) \in 0..Len(pending) /\ Len(pending) \in Nat
    BY PositionIs, ListedIs DEF Inv, Lists, Held
  <2>2. \A i \in (Position(ref) + 1)..Len(pending) : pending[i] \in KeptOp
    BY <2>1, ElementOfSeq DEF TypeInv
  <2>3. Position(ref) + 1 \in Int /\ Len(pending) \in Int
    BY <2>1
  <2> QED
    BY <2>2, <2>3, SubSeqProperties DEF TakePending
<1>3. pending' \in Seq(KeptOp)
  BY <1>2 DEF HandleError, TypeInv
<1>4. rejected' = TRUE /\ down' = Tail(down)
  BY DEF HandleError, Received
<1> QED
  BY <1>1, <1>3, <1>4 DEF TypeInv, HandleError, Received

(* ... of a snapshot ... *)
LEMMA InitDocType ==
    ASSUME TypeInv, InitDoc
    PROVE  TypeInv'
<1>1. Head(down) \in Parcel /\ Tail(down) \in Seq(Parcel) /\ Head(down).type = "snapshot"
  BY HeadTailSeq DEF InitDoc, Received, TypeInv
<1>2. Sound(Head(down).doc)
  BY <1>1, ParcelIs
<1>3. Len(buffered) \in Nat /\ DOMAIN buffered = 1..Len(buffered)
      /\ \A i \in 1..Len(buffered) : buffered[i] \in Request
  BY LenProperties, ElementOfSeq DEF TypeInv
<1> DEFINE f == [i \in DOMAIN buffered |->
                     Entry(buffered[i].id, buffered[i].ops, FALSE, NoState, FALSE)]
<1>4. \A i \in 1..Len(buffered) : f[i] \in KeptOp
  <2> SUFFICES ASSUME NEW i \in 1..Len(buffered)
               PROVE  Entry(buffered[i].id, buffered[i].ops, FALSE, NoState, FALSE) \in KeptOp
    BY <1>3
  <2>1. buffered[i].id \in 1..MaxEdits /\ buffered[i].ops \in Own
    BY <1>3 DEF Request
  <2>2. NoState \in State /\ DOMAIN NoState = {}
    BY DEF NoState, State
  <2> QED
    BY <2>1, <2>2 DEF Entry, KeptOp
<1>5. f \in Seq(KeptOp)
  <2>1. f = [i \in 1..Len(buffered) |-> f[i]]
    BY <1>3
  <2> HIDE DEF f
  <2> QED
    BY <1>3, <1>4, <2>1, MappedSeq
<1>6. up' \in Seq(Request)
  BY ConcatProperties DEF InitDoc, TypeInv
<1>7. buffered' \in Seq(Request)
  BY EmptySeq DEF InitDoc
<1>8. dropped' \subseteq 1..MaxEdits
  <2>1. \A i \in DOMAIN pending : pending[i].id \in 1..MaxEdits
    <3>1. \A i \in DOMAIN pending : pending[i] \in KeptOp
      BY LenProperties, ElementOfSeq DEF TypeInv
    <3> QED
      BY <3>1 DEF KeptOp
  <2> QED
    BY <2>1 DEF InitDoc, TypeInv, Ids
<1> QED
  BY <1>1, <1>2, <1>5, <1>6, <1>7, <1>8 DEF TypeInv, InitDoc, Received, f

(* ... connecting ... *)
LEMMA ConnectType ==
    ASSUME TypeInv, Connect
    PROVE  TypeInv'
<1>1. SnapshotMsg(sdoc) \in Parcel
  BY MessagesAre DEF TypeInv
<1>2. <<SnapshotMsg(sdoc)>> \in Seq(Parcel)
  BY <1>1
<1> QED
  BY <1>2 DEF TypeInv, Connect, client, counts

LEMMA ResentSeq ==
    ASSUME TypeInv
    PROVE  Resend(pending) \in Seq(Request)
<1>1. /\ Len(pending) \in Nat /\ DOMAIN pending = 1..Len(pending)
      /\ \A i \in 1..Len(pending) : pending[i] \in KeptOp
  BY LenProperties, ElementOfSeq DEF TypeInv
<1> DEFINE f == [i \in DOMAIN pending |-> [id |-> pending[i].id, ops |-> pending[i].ops]]
<1>2. \A i \in 1..Len(pending) : f[i] \in Request
  BY <1>1 DEF KeptOp, Request
<1>3. f = [i \in 1..Len(pending) |-> f[i]]
  BY <1>1
<1>4. Resend(pending) = f
  BY DEF Resend
<1> HIDE DEF f
<1> QED
  BY <1>1, <1>2, <1>3, <1>4, MappedSeq

(* ... breaking ... *)
LEMMA GoOfflineType ==
    ASSUME TypeInv, GoOffline
    PROVE  TypeInv'
<1>1. buffered' \in Seq(Request)
  BY ResentSeq, ConcatProperties DEF GoOffline, TypeInv
<1>2. ghost' \in Seq(Request)
  <2>1. PICK k \in 0..Len(up) : ghost' = ghost \o SubSeq(up, IF srv = "reject" THEN 2 ELSE 1, k)
    BY DEF GoOffline
  <2> DEFINE m == IF srv = "reject" THEN 2 ELSE 1
  <2>2. Len(up) \in Nat /\ \A i \in 1..Len(up) : up[i] \in Request
    BY LenProperties, ElementOfSeq DEF TypeInv
  <2>3. m \in Int /\ k \in Int /\ \A i \in m..k : up[i] \in Request
    BY <2>2
  <2> HIDE DEF m
  <2>4. SubSeq(up, m, k) \in Seq(Request)
    BY <2>3, SubSeqProperties
  <2>5. ghost \o SubSeq(up, m, k) \in Seq(Request)
    BY <2>4, ConcatProperties DEF TypeInv
  <2> QED
    BY <2>1, <2>5 DEF m
<1>3. \A S : <<>> \in Seq(S)
  BY EmptySeq
<1>4. breaks' \in 0..MaxBreaks
  BY BoundsAssumption DEF GoOffline, TypeInv
<1> QED
  BY <1>1, <1>2, <1>3, <1>4 DEF TypeInv, GoOffline

-----------------------------------------------------------------------------
(* A patch.                                                                *)

(* A patch without the values of some fields. *)
Masked(o, s) == [o EXCEPT !.state = s]

LEMMA MaskIs ==
    ASSUME NEW s \in State, NEW rest, NEW b
    PROVE  /\ Mask(s, rest, b) \in State
           /\ DOMAIN Mask(s, rest, b) =
                {x \in DOMAIN s : \A i \in DOMAIN rest :
                     ~(Covers(rest[i], x) /\ (rest[i].applied \/ ~b))}
           /\ \A x \in DOMAIN Mask(s, rest, b) : Mask(s, rest, b)[x] = s[x]
<1> DEFINE D == {x \in DOMAIN s : \A i \in DOMAIN rest :
                     ~(Covers(rest[i], x) /\ (rest[i].applied \/ ~b))}
<1>1. Mask(s, rest, b) = [x \in D |-> s[x]]
  BY DEF Mask
<1>2. D \subseteq DOMAIN s /\ DOMAIN s \subseteq Nodes /\ \A x \in DOMAIN s : s[x] \in Values
  BY StateIs
<1> HIDE DEF D
<1>3. [x \in D |-> s[x]] \in [D -> Values] /\ D \in SUBSET Nodes
  BY <1>2
<1>4. [x \in D |-> s[x]] \in State
  BY <1>3 DEF State
<1> QED
  BY <1>1, <1>4 DEF D

LEMMA MaskedIs ==
    ASSUME NEW o \in Ops, Wire(o), NEW s \in State
    PROVE  LET w == Masked(o, s)
           IN  /\ w \in Ops /\ Wire(w) /\ w.state = s /\ w.kind = o.kind /\ w.node = o.node
               /\ \A q : Placed(q, w) = Placed(q, o) /\ Settled(q, w) = Settled(q, o)
               /\ \A d : Skips(d, w) <=> Skips(d, o)
<1> DEFINE w == Masked(o, s)
<1>1. /\ w \in Ops /\ w.state = s /\ w.kind = o.kind /\ w.node = o.node
      /\ w.prev = o.prev /\ w.next = o.next
  BY DEF Ops, Masked
<1> HIDE DEF w
<1>2. Wire(w)
  BY <1>1 DEF Wire, Aims
<1>3. \A q : Placed(q, w) = Placed(q, o)
  BY <1>1 DEF Placed
<1>4. \A q : Settled(q, w) = Settled(q, o)
  BY <1>1, <1>3 DEF Settled, Stays
<1>5. \A d : Skips(d, w) <=> Skips(d, o)
  BY <1>1 DEF Skips
<1> QED
  BY <1>1, <1>2, <1>3, <1>4, <1>5 DEF w

(* Refreshing inverses changes nothing else of the pending operations. *)
LEMMA RefreshSeq ==
    ASSUME TypeInv, NEW s \in State
    PROVE  Refresh(s, pending) \in Seq(KeptOp)
<1>1. /\ Len(pending) \in Nat /\ DOMAIN pending = 1..Len(pending)
      /\ \A i \in 1..Len(pending) : pending[i] \in KeptOp
  BY LenProperties, ElementOfSeq DEF TypeInv
<1> DEFINE f == Refresh(s, pending)
<1>2. f = [i \in 1..Len(pending) |-> f[i]]
  BY <1>1 DEF Refresh
<1>3. ASSUME NEW i \in 1..Len(pending)
      PROVE  f[i] \in KeptOp
  <2> DEFINE p == pending[i]
             g == [n \in DOMAIN p.orig |->
                     IF n \in DOMAIN s /\ \A j \in 1..(i - 1) : ~Covers(pending[j], n)
                       THEN s[n] ELSE p.orig[n]]
  <2>1. p \in KeptOp
    BY <1>1
  <2>2. f[i] = IF ~p.applied THEN p ELSE [p EXCEPT !.orig = g]
    BY <1>1 DEF Refresh
  <2>3. p.orig \in State
    BY <2>1 DEF KeptOp
  <2>4. /\ DOMAIN p.orig \subseteq Nodes /\ \A x \in DOMAIN p.orig : p.orig[x] \in Values
        /\ \A x \in DOMAIN s : s[x] \in Values
    BY <2>3, StateIs
  <2>5. g \in [DOMAIN p.orig -> Values]
    BY <2>4
  <2>6. g \in State /\ DOMAIN g = DOMAIN p.orig
    BY <2>4, <2>5 DEF State
  <2> HIDE DEF g
  <2>7. [p EXCEPT !.orig = g] \in KeptOp \/ ~p.applied
    BY <2>1, <2>6 DEF KeptOp
  <2> QED
    BY <2>1, <2>2, <2>7
<1> HIDE DEF f
<1>4. f \in Seq(KeptOp)
  BY <1>1, <1>2, <1>3, MappedSeq
<1> QED
  BY <1>4 DEF f

(* Taking pending operations leaves the rest of them. *)
LEMMA TakePendingSeq ==
    ASSUME TypeInv, Inv, NEW ref, Position(ref) # 0
    PROVE  TakePending(ref) \in Seq(KeptOp) /\ pending[Position(ref)] \in KeptOp
<1>1. Position(ref) \in 0..Len(pending) /\ Len(pending) \in Nat
  BY PositionIs, ListedIs DEF Inv, Lists, Held
<1>2. \A i \in (Position(ref) + 1)..Len(pending) : pending[i] \in KeptOp
  BY <1>1, ElementOfSeq DEF TypeInv
<1>3. Position(ref) + 1 \in Int /\ Len(pending) \in Int /\ Position(ref) \in 1..Len(pending)
  BY <1>1
<1>4. pending[Position(ref)] \in KeptOp
  BY <1>3, ElementOfSeq DEF TypeInv
<1> QED
  BY <1>2, <1>3, <1>4, SubSeqProperties DEF TakePending

(* ... patches ... *)
LEMMA HandlePatchType ==
    ASSUME TypeInv, Inv, HandlePatch
    PROVE  TypeInv'
<1> DEFINE m == Head(down)
           o == m.ops
           i == Position(m.ref)
<1>1. m \in Parcel /\ Tail(down) \in Seq(Parcel) /\ m.type = "patch"
  BY HeadTailSeq DEF HandlePatch, Received, TypeInv
<1>2. o \in Commit /\ o \in Ops /\ Wire(o) /\ o.state \in State
  BY <1>1, ParcelIs, CommitIs
<1>3. /\ IF i = 0 THEN Foreign(o)
         ELSE \/ Confirm(pending[i], o, TakePending(m.ref))
              \/ Land(pending[i], o, TakePending(m.ref))
      /\ base' = Lenient(base, o) /\ down' = Tail(down)
      /\ UNCHANGED <<sdoc, srv, late, ghost, decided, doubled, minted, edits, hosts, breaks,
                     up, link, buffered, rejected, dropped>>
  BY DEF HandlePatch, Received
<1> HIDE DEF m, o, i
<1>4. \E s \in State : local' = Lenient(local, Masked(o, s))
  <2>1. CASE i = 0
    BY <1>2, <1>3, <2>1, MaskIs DEF Foreign, Masked
  <2>2. CASE i # 0
    BY <1>2, <1>3, <2>2, MaskIs DEF Confirm, Land, Masked
  <2> QED
    BY <2>1, <2>2
<1>5. pending' \in Seq(KeptOp)
  <2>1. CASE i = 0
    BY <1>2, <1>3, <2>1, RefreshSeq DEF Foreign
  <2>2. CASE i # 0
    BY <1>3, <2>2, TakePendingSeq DEF Confirm, Land, i
  <2> QED
    BY <2>1, <2>2
<1>6. PICK s \in State : local' = Lenient(local, Masked(o, s))
  BY <1>4
<1>7. /\ Wire(Masked(o, s))
      /\ Settled(local.order, Masked(o, s)) = Settled(local.order, o)
  BY <1>2, MaskedIs
<1>8. Sound(local') /\ local'.order = Settled(local.order, o)
  BY <1>6, <1>7, LenientIs DEF TypeInv
<1>9. Sound(base') /\ base'.order = Settled(base.order, o)
  BY <1>2, <1>3, LenientIs DEF TypeInv
<1> QED
  BY <1>1, <1>3, <1>5, <1>8, <1>9 DEF TypeInv

-----------------------------------------------------------------------------
(* Edits.                                                                  *)

LEMMA QueueType ==
    ASSUME TypeInv, edits < MaxEdits, NEW o \in Own, NEW a, NEW g, NEW w,
           Entry(edits + 1, o, a, g, w) \in KeptOp, Queue(o, a, g, w),
           Sound(local'), local'.order = local.order,
           minted \subseteq minted', minted' \subseteq Nodes
    PROVE  TypeInv'
<1>1. edits + 1 \in 1..MaxEdits
  BY BoundsAssumption DEF TypeInv
<1>2. [id |-> edits + 1, ops |-> o] \in Request
  BY <1>1 DEF Request
<1> DEFINE r == [id |-> edits + 1, ops |-> o]
           e == Entry(edits + 1, o, a, g, w)
<1>6. /\ up' = up \/ up' = Append(up, r)
      /\ buffered' = buffered \/ buffered' = Append(buffered, r)
      /\ pending' = pending \/ pending' = Append(pending, e)
  BY DEF Queue
<1> HIDE DEF r, e
<1>7. up \in Seq(Request) /\ buffered \in Seq(Request) /\ pending \in Seq(KeptOp)
  BY DEF TypeInv
<1>8. r \in Request /\ e \in KeptOp
  BY <1>2 DEF r, e
<1>9. Append(up, r) \in Seq(Request) /\ Append(buffered, r) \in Seq(Request)
  BY <1>7, <1>8, AppendProperties
<1>10. Append(pending, e) \in Seq(KeptOp)
  BY <1>7, <1>8, AppendProperties
<1>3. up' \in Seq(Request) /\ buffered' \in Seq(Request)
  BY <1>6, <1>7, <1>9
<1>4. pending' \in Seq(KeptOp)
  BY <1>6, <1>7, <1>10
<1>5. edits' \in 0..MaxEdits
  BY <1>1 DEF Queue
<1> QED
  BY <1>3, <1>4, <1>5 DEF TypeInv, Queue

LEMMA EntryKept ==
    ASSUME NEW i \in 1..MaxEdits, NEW o \in Own
    PROVE  Entry(i, o, FALSE, NoState, FALSE) \in KeptOp
<1>1. NoState \in State /\ DOMAIN NoState = {}
  BY DEF NoState, State
<1> QED
  BY <1>1 DEF Entry, KeptOp

LEMMA BuiltType ==
    ASSUME TypeInv, edits < MaxEdits, NEW o \in Own, Built(o),
           minted \subseteq minted', minted' \subseteq Nodes
    PROVE  TypeInv'
<1>1. edits + 1 \in 1..MaxEdits
  BY BoundsAssumption DEF TypeInv
<1>2. Entry(edits + 1, o, FALSE, NoState, FALSE) \in KeptOp
  BY <1>1, EntryKept
<1>3. Queue(o, FALSE, NoState, FALSE) /\ local' = local
  BY DEF Built
<1>4. Sound(local') /\ local'.order = local.order
  BY <1>3 DEF TypeInv
<1> QED
  BY <1>2, <1>3, <1>4, QueueType

LEMMA OnlyIs ==
    ASSUME NEW n \in Nodes, NEW v \in Values
    PROVE  Only(n, v) \in State /\ DOMAIN Only(n, v) = {n} /\ Only(n, v)[n] = v
<1>1. Only(n, v) \in [{n} -> Values] /\ {n} \in SUBSET Nodes
  BY DEF Only
<1> QED
  BY <1>1 DEF State, Only

LEMMA WriteIs ==
    ASSUME NEW n \in Nodes, NEW v \in Values
    PROVE  Write(n, v) \in Own /\ Write(n, v).kind = "none" /\ Write(n, v).state = Only(n, v)
<1>1. Only(n, v) \in State /\ DOMAIN Only(n, v) = {n}
  BY OnlyIs
<1>2. Write(n, v) \in Ops /\ Write(n, v).kind = "none" /\ Write(n, v).state = Only(n, v)
  BY <1>1 DEF Write, Patch, Ops
<1> QED
  BY <1>1, <1>2 DEF Own, Wire, Aims, Shape

(* A structural edit. *)
LEMMA StructuralIs ==
    ASSUME NEW n \in Nodes, NEW k \in {"delete", "move"},
           NEW p \in Nodes \cup {NoNode}, NEW q \in Nodes \cup {NoNode}
    PROVE  Patch(k, n, p, q, NoState) \in Own
<1>1. NoState \in State /\ DOMAIN NoState = {}
  BY DEF NoState, State
<1>2. Patch(k, n, p, q, NoState) \in Ops
  BY <1>1 DEF Patch, Ops
<1> QED
  BY <1>1, <1>2, PatchIs DEF Own, Wire, Aims, Shape

LEMMA InsertIs ==
    ASSUME NEW n \in Nodes, n \notin ToSet(Start), NEW v \in Values,
           NEW p \in Nodes \cup {NoNode}, NEW q \in Nodes \cup {NoNode}
    PROVE  Patch("insert", n, p, q, Only(n, v)) \in Own
<1>1. Only(n, v) \in State /\ DOMAIN Only(n, v) = {n}
  BY OnlyIs
<1>2. Patch("insert", n, p, q, Only(n, v)) \in Ops
  BY <1>1 DEF Patch, Ops
<1> QED
  BY <1>1, <1>2, PatchIs DEF Own, Wire, Aims, Shape

LEMMA ModelOrderSeq ==
    ASSUME TypeInv
    PROVE  /\ ModelOrder \in Seq(Nodes)
           /\ LastOf(ModelOrder) \in Nodes \cup {NoNode}
           /\ ModelOrder # <<>> => Head(ModelOrder) \in Nodes
<1>1. /\ Len(pending) \in Nat /\ DOMAIN pending = 1..Len(pending)
      /\ \A i \in 1..Len(pending) : pending[i] \in KeptOp
      /\ Len(buffered) \in Nat /\ DOMAIN buffered = 1..Len(buffered)
      /\ \A i \in 1..Len(buffered) : buffered[i] \in Request
  BY LenProperties, ElementOfSeq DEF TypeInv
<1>2. OpsOf(pending) \in Seq(Own)
  <2> DEFINE f == OpsOf(pending)
  <2>1. f = [i \in 1..Len(pending) |-> pending[i].ops]
    BY <1>1 DEF OpsOf
  <2>2. f = [i \in 1..Len(pending) |-> f[i]]
    BY <2>1
  <2>3. \A i \in 1..Len(pending) : f[i] \in Own
    BY <1>1, <2>1 DEF KeptOp
  <2> HIDE DEF f
  <2>4. f \in Seq(Own)
    BY <1>1, <2>2, <2>3, MappedSeq
  <2> QED
    BY <2>4 DEF f
<1>3. OpsOf(buffered) \in Seq(Own)
  <2> DEFINE f == OpsOf(buffered)
  <2>1. f = [i \in 1..Len(buffered) |-> buffered[i].ops]
    BY <1>1 DEF OpsOf
  <2>2. f = [i \in 1..Len(buffered) |-> f[i]]
    BY <2>1
  <2>3. \A i \in 1..Len(buffered) : f[i] \in Own
    BY <1>1, <2>1 DEF Request
  <2> HIDE DEF f
  <2>4. f \in Seq(Own)
    BY <1>1, <2>2, <2>3, MappedSeq
  <2> QED
    BY <2>4 DEF f
<1>4. Unconfirmed \in Seq(Own)
  BY <1>2, <1>3, ConcatProperties DEF Unconfirmed
<1>5. Len(Unconfirmed) \in Nat /\ \A k \in 1..Len(Unconfirmed) : Unconfirmed[k] \in Own
  BY <1>4, LenProperties, ElementOfSeq
<1>6. \A k \in 1..Len(Unconfirmed) : Aims(Unconfirmed[k])
  BY <1>5, OwnIs
<1>7. local.order \in Seq(Nodes)
  BY DEF TypeInv, Sound, Order
<1>8. ModelOrder \in Seq(Nodes)
  BY <1>5, <1>6, <1>7, ModelOrderIs
<1>9. ModelOrder # <<>> => Len(ModelOrder) \in Nat \ {0} /\ Head(ModelOrder) \in Nodes
  BY <1>8, EmptySeq, HeadTailProperties
<1>10. ModelOrder # <<>> => ModelOrder[Len(ModelOrder)] \in Nodes
  <2>1. ModelOrder # <<>> => Len(ModelOrder) \in 1..Len(ModelOrder)
    BY <1>9
  <2> QED
    BY <1>8, <2>1, ElementOfSeq
<1> QED
  BY <1>8, <1>9, <1>10 DEF LastOf

LEMMA LastOfIs ==
    ASSUME NEW s \in Seq(Nodes)
    PROVE  LastOf(s) \in Nodes \cup {NoNode}
<1>1. CASE s = <<>>
  BY <1>1 DEF LastOf
<1>2. CASE s # <<>>
  <2>1. Len(s) \in 1..Len(s)
    BY <1>2, EmptySeq
  <2>2. s[Len(s)] \in Nodes
    BY <2>1, ElementOfSeq
  <2> QED
    BY <1>2, <2>2 DEF LastOf
<1> QED
  BY <1>1, <1>2

(* ... and the client's edits. *)
LEMMA EditType ==
    ASSUME TypeInv, Edit
    PROVE  TypeInv'
<1>0. edits < MaxEdits /\ minted \subseteq Nodes /\ ToSet(Start) \subseteq minted
  BY DEF Edit, TypeInv
<1>1. ASSUME NEW n \in Nodes, NEW v \in Values, SetField(n, v)
      PROVE  TypeInv'
  <2>1. local.val[n] \in Values /\ Contains(local.order, n)
    BY <1>1 DEF SetField, TypeInv, Sound, Doc
  <2>2. Write(n, v) \in Own /\ Write(n, v).kind = "none" /\ Write(n, v).state = Only(n, v)
    BY WriteIs
  <2>3. Only(n, v) \in State /\ DOMAIN Only(n, v) = {n}
    BY OnlyIs
  <2>4. Only(n, local.val[n]) \in State /\ DOMAIN Only(n, local.val[n]) = {n}
    BY <2>1, OnlyIs
  <2> DEFINE w == \E i \in DOMAIN pending : ~pending[i].applied /\ Covers(pending[i], n)
             e == Entry(edits + 1, Write(n, v), TRUE, Only(n, local.val[n]), w)
  <2>5. edits + 1 \in 1..MaxEdits /\ w \in BOOLEAN
    BY <1>0, BoundsAssumption DEF TypeInv
  <2> HIDE DEF w
  <2>6. e \in KeptOp
    BY <2>2, <2>3, <2>4, <2>5 DEF Entry, KeptOp
  <2>7. Queue(Write(n, v), TRUE, Only(n, local.val[n]), w) /\ minted' = minted
        /\ local' = Applied(local, Write(n, v))
    BY <1>1 DEF SetField, w
  <2>8. Sound(local') /\ local'.order = local.order
    <3>1. Wire(Write(n, v)) /\ Aims(Write(n, v)) /\ Placed(local.order, Write(n, v)) = local.order
      BY <2>2, OwnIs DEF Placed
    <3> QED
      BY <2>2, <2>7, <3>1, AppliedIs DEF TypeInv
  <2> QED
    BY <1>0, <2>2, <2>6, <2>7, <2>8, QueueType
<1>2. ASSUME NEW n \in Nodes, NEW v \in Values, SetPendingField(n, v)
      PROVE  TypeInv'
  BY <1>0, <1>2, WriteIs, BuiltType DEF SetPendingField
<1>3. ASSUME NEW n \in Nodes, NEW v \in Values, NEW w \in {"append", "prepend"},
             CreateNode(n, v, w)
      PROVE  TypeInv'
  <2>1. n \notin ToSet(Start) /\ minted' = minted \cup {n}
    BY <1>0, <1>3 DEF CreateNode
  <2>2. \E p, q \in Nodes \cup {NoNode} : Built(Patch("insert", n, p, q, Only(n, v)))
    BY <1>3, ModelOrderSeq DEF CreateNode
  <2>3. PICK p \in Nodes \cup {NoNode}, q \in Nodes \cup {NoNode} :
            Built(Patch("insert", n, p, q, Only(n, v)))
    BY <2>2
  <2>4. Patch("insert", n, p, q, Only(n, v)) \in Own
    BY <2>1, InsertIs
  <2> QED
    BY <1>0, <2>1, <2>3, <2>4, BuiltType
<1>4. ASSUME NEW n \in Nodes, DeleteNode(n)
      PROVE  TypeInv'
  <2>1. Patch("delete", n, NoNode, NoNode, NoState) \in Own
    BY StructuralIs
  <2> QED
    BY <1>0, <1>4, <2>1, BuiltType DEF DeleteNode
<1>5. ASSUME NEW n \in Nodes, MoveNode(n)
      PROVE  TypeInv'
  <2>1. LastOf(RemoveFirst(ModelOrder, n)) \in Nodes \cup {NoNode}
    BY ModelOrderSeq, RemoveFirstIs, LastOfIs
  <2>2. Patch("move", n, LastOf(RemoveFirst(ModelOrder, n)), NoNode, NoState) \in Own
    BY <2>1, StructuralIs
  <2> QED
    BY <1>0, <1>5, <2>2, BuiltType DEF MoveNode
<1>6. ASSUME NEW n \in Nodes, NEW t \in Nodes, NEW w \in {"before", "after"},
             MoveNodeRelative(n, t, w)
      PROVE  TypeInv'
  <2>1. RemoveFirst(ModelOrder, n) \in Seq(Nodes)
    BY ModelOrderSeq, RemoveFirstIs
  <2>2. /\ PrevOf(RemoveFirst(ModelOrder, n), t) \in Nodes \cup {NoNode}
        /\ NextOf(RemoveFirst(ModelOrder, n), t) \in Nodes \cup {NoNode}
    BY <2>1, NeighboursAre
  <2>3. /\ Patch("move", n, PrevOf(RemoveFirst(ModelOrder, n), t), t, NoState) \in Own
        /\ Patch("move", n, t, NextOf(RemoveFirst(ModelOrder, n), t), NoState) \in Own
    BY <2>2, StructuralIs
  <2> QED
    BY <1>0, <1>6, <2>3, BuiltType DEF MoveNodeRelative
<1> QED
  BY <1>1, <1>2, <1>3, <1>4, <1>5, <1>6 DEF Edit

(* Every step keeps the types. *)
LEMMA NextType ==
    ASSUME TypeInv, Inv, [Next]_vars
    PROVE  TypeInv'
<1>1. CASE UNCHANGED vars
  BY <1>1 DEF vars, client, counts, TypeInv
<1>2. CASE Next
  BY <1>2, EditType, ServeType, SendErrorType, ResyncType, ServeGhostType, HostCommitType,
     HandlePatchType, HandleErrorType, InitDocType, GoOfflineType, ConnectType DEF Next, Inv
<1> QED
  BY <1>1, <1>2

-----------------------------------------------------------------------------
(* Until the connection breaks, a node the client creates is new to all.   *)

Inserts(o, x) == o.kind = "insert" /\ o.node = x

Sends(i, x) == i \in DOMAIN up /\ Inserts(up[i].ops, x)
Tells(i, x) == i \in DOMAIN down /\ down[i].type = "patch" /\ Inserts(down[i].ops, x)
Shows(i, x) == i \in DOMAIN down /\ down[i].type = "snapshot" /\ x \in ToSet(down[i].doc.order)

WritesTo(x) == \E k \in DOMAIN pending : pending[k].applied /\ Covers(pending[k], x)

(* The client has nothing of x yet. *)
Unseen(x) == x \notin ToSet(local.order) /\ ~WritesTo(x)

Single(x) ==
    /\ x \notin minted =>
         /\ Unseen(x) /\ x \notin ToSet(sdoc.order)
         /\ \A i : ~Sends(i, x) /\ ~Tells(i, x) /\ ~Shows(i, x)
    /\ \A i : Sends(i, x) =>
         /\ Unseen(x) /\ x \notin ToSet(sdoc.order)
         /\ \A j : ~Tells(j, x) /\ ~Shows(j, x) /\ (Sends(j, x) => j = i)
    /\ \A i : Tells(i, x) =>
         /\ Unseen(x)
         /\ \A j : ~(j < i /\ Shows(j, x)) /\ (Tells(j, x) => j = i)

Once ==
    breaks = 0 =>
      /\ link = "up" /\ ghost = <<>> /\ buffered = <<>>
      /\ \A i \in DOMAIN late : late[i].ops.kind # "insert"
      /\ \A x \in Nodes : Single(x)

(* At first no node is created ... *)
LEMMA InitOnce == Init => Once
<1> SUFFICES ASSUME Init
             PROVE  Once
  OBVIOUS
<1>1. DOMAIN up = {} /\ DOMAIN down = {} /\ DOMAIN pending = {} /\ DOMAIN late = {}
  BY EmptyListed DEF Init
<1>2. Start \in Order
  BY StartAssumption DEF Order
<1>3. sdoc.order = Start /\ local.order = Start
  BY DEF Init, Document
<1> QED
  BY <1>1, <1>3 DEF Init, Once, Single, Sends, Tells, Shows, Unseen, WritesTo

(* What a step may do without making x any newer. *)
LEMMA UnseenKept ==
    ASSUME NEW x, Unseen(x),
           x \in ToSet(local'.order) => x \in ToSet(local.order),
           \A k \in DOMAIN pending' : \E j \in DOMAIN pending :
              /\ pending'[k].applied = pending[j].applied
              /\ pending'[k].ops = pending[j].ops
    PROVE  Unseen(x)'
BY DEF Unseen, WritesTo, Covers

(* What is appended is last. *)
LEMMA AppendedAt ==
    ASSUME NEW S, NEW s \in Seq(S), NEW e \in S
    PROVE  /\ DOMAIN s = 1..Len(s) /\ Len(s) \in Nat
           /\ DOMAIN Append(s, e) = 1..(Len(s) + 1)
           /\ \A i \in 1..Len(s) : Append(s, e)[i] = s[i]
           /\ Append(s, e)[Len(s) + 1] = e
<1>1. Append(s, e) \in Seq(S) /\ Len(Append(s, e)) = Len(s) + 1
      /\ \A i \in 1..Len(s) : Append(s, e)[i] = s[i]
      /\ Append(s, e)[Len(s) + 1] = e
  BY AppendProperties
<1>2. DOMAIN Append(s, e) = 1..(Len(s) + 1)
  BY <1>1, LenProperties
<1> QED
  BY <1>1, <1>2, LenProperties

(* An edit that creates no node.                                           *)
LEMMA QueueOnce ==
    ASSUME TypeInv, Once, breaks = 0, NEW o \in Own, NEW a, NEW g, NEW w, Queue(o, a, g, w),
           edits < MaxEdits, Entry(edits + 1, o, a, g, w) \in KeptOp,
           local'.order = local.order, minted \subseteq minted',
           a => DOMAIN o.state \subseteq ToSet(local.order),
           o.kind = "insert" => o.node \notin minted /\ minted' = minted \cup {o.node}
    PROVE  Once'
<1> DEFINE r == [id |-> edits + 1, ops |-> o]
           e == Entry(edits + 1, o, a, g, w)
<1>1. /\ link = "up" /\ ghost = <<>> /\ buffered = <<>>
      /\ \A i \in DOMAIN late : late[i].ops.kind # "insert"
  BY DEF Once
<1>2. /\ up' = Append(up, r) /\ pending' = Append(pending, e)
      /\ UNCHANGED <<buffered, sdoc, late, down, ghost, link, breaks>>
  BY <1>1 DEF Queue, Online
<1>3. edits + 1 \in 1..MaxEdits
  BY BoundsAssumption DEF TypeInv
<1>4. r \in Request /\ e \in KeptOp /\ r.ops = o /\ e.applied = a /\ e.ops = o
  BY <1>3 DEF Request, Entry
<1> HIDE DEF r, e
<1>5. /\ DOMAIN up = 1..Len(up) /\ Len(up) \in Nat /\ DOMAIN up' = 1..(Len(up) + 1)
      /\ \A i \in 1..Len(up) : up'[i] = up[i]
      /\ up'[Len(up) + 1] = r
  BY <1>2, <1>4, AppendedAt DEF TypeInv
<1>6. /\ DOMAIN pending = 1..Len(pending) /\ Len(pending) \in Nat
      /\ DOMAIN pending' = 1..(Len(pending) + 1)
      /\ \A i \in 1..Len(pending) : pending'[i] = pending[i]
      /\ pending'[Len(pending) + 1] = e
  BY <1>2, <1>4, AppendedAt DEF TypeInv
<1>7. \A x : Unseen(x) => Unseen(x)'
  <2> SUFFICES ASSUME NEW x, Unseen(x), NEW k \in DOMAIN pending', pending'[k].applied, Covers(pending'[k], x)
               PROVE  FALSE
    BY DEF Unseen, WritesTo, Covers
  <2>1. CASE k \in 1..Len(pending)
    BY <1>6, <2>1 DEF Unseen, WritesTo
  <2>2. CASE k = Len(pending) + 1
    BY <1>4, <1>6, <2>2 DEF Unseen, Covers
  <2> QED
    BY <1>6, <2>1, <2>2
<1>8. ASSUME NEW x, NEW i, Sends(i, x)'
      PROVE  Sends(i, x) \/ (i = Len(up) + 1 /\ Inserts(o, x))
  <2>1. i \in 1..(Len(up) + 1) /\ Inserts(up'[i].ops, x)
    BY <1>5, <1>8 DEF Sends
  <2>2. CASE i \in 1..Len(up)
    BY <1>5, <2>1, <2>2 DEF Sends, Inserts
  <2>3. CASE i = Len(up) + 1
    BY <1>4, <1>5, <2>1, <2>3
  <2> QED
    BY <1>5, <2>1, <2>2, <2>3
<1>9. \A x, i : (Tells(i, x)' <=> Tells(i, x)) /\ (Shows(i, x)' <=> Shows(i, x))
  BY <1>2 DEF Tells, Shows
<1>10. \A x, i : Sends(i, x) => i \in 1..Len(up)
  BY <1>5 DEF Sends
<1>11. ASSUME NEW x \in Nodes
       PROVE  Single(x)'
  <2>1. Single(x)
    BY DEF Once
  <2>2. Inserts(o, x) => x \notin minted /\ x \in minted'
    BY DEF Inserts
  <2>3. sdoc' = sdoc
    BY <1>2
  <2>4. ASSUME x \notin minted'
        PROVE  /\ Unseen(x)' /\ x \notin ToSet(sdoc'.order)
               /\ \A i : ~Sends(i, x)' /\ ~Tells(i, x)' /\ ~Shows(i, x)'
    <3>1. x \notin minted
      BY <2>4
    <3> QED
      BY <1>7, <1>8, <1>9, <2>1, <2>2, <2>3, <2>4, <3>1 DEF Single
  <2>5. ASSUME NEW i, Sends(i, x)'
        PROVE  /\ Unseen(x)' /\ x \notin ToSet(sdoc'.order)
               /\ \A j : ~Tells(j, x)' /\ ~Shows(j, x)' /\ (Sends(j, x)' => j = i)
    <3>1. CASE Sends(i, x)
      <4>1. ~Inserts(o, x)
        BY <2>1, <2>2, <3>1 DEF Single
      <4> QED
        BY <1>7, <1>8, <1>9, <2>1, <2>3, <3>1, <4>1 DEF Single
    <3>2. CASE i = Len(up) + 1 /\ Inserts(o, x)
      <4>1. x \notin minted
        BY <2>2, <3>2
      <4> QED
        BY <1>7, <1>8, <1>9, <2>1, <2>3, <3>2, <4>1 DEF Single
    <3> QED
      BY <1>8, <2>5, <3>1, <3>2
  <2>6. ASSUME NEW i, Tells(i, x)'
        PROVE  /\ Unseen(x)'
               /\ \A j : ~(j < i /\ Shows(j, x)') /\ (Tells(j, x)' => j = i)
    BY <1>7, <1>9, <2>1, <2>6 DEF Single
  <2> QED
    BY <2>4, <2>5, <2>6 DEF Single
<1> QED
  BY <1>1, <1>2, <1>11 DEF Once

(* A step that shows, sends and tells of x nothing more, and may take the  *)
(* first of what is sent or told.                                          *)
LEMMA SingleKept ==
    ASSUME NEW x, Single(x), NEW a \in Nat, NEW b \in Nat,
           \A i : Sends(i, x)' => i \in Nat /\ Sends(i + a, x),
           \A i : Tells(i, x)' => i \in Nat /\ Tells(i + b, x),
           \A i : Shows(i, x)' => i \in Nat /\ Shows(i + b, x),
           Unseen(x) => Unseen(x)' \/ (x \in minted /\ (\A i : ~Sends(i, x)' /\ ~Tells(i, x)')),
           x \in ToSet(sdoc'.order) => x \in ToSet(sdoc.order),
           minted' = minted
    PROVE  Single(x)'
<1>1. ASSUME x \notin minted'
      PROVE  /\ Unseen(x)' /\ x \notin ToSet(sdoc'.order)
             /\ \A i : ~Sends(i, x)' /\ ~Tells(i, x)' /\ ~Shows(i, x)'
  BY <1>1 DEF Single
<1>2. ASSUME NEW i, Sends(i, x)'
      PROVE  /\ Unseen(x)' /\ x \notin ToSet(sdoc'.order)
             /\ \A j : ~Tells(j, x)' /\ ~Shows(j, x)' /\ (Sends(j, x)' => j = i)
  <2>1. Sends(i + a, x) /\ i \in Nat
    BY <1>2
  <2>2. /\ Unseen(x) /\ x \notin ToSet(sdoc.order)
        /\ \A j : ~Tells(j, x) /\ ~Shows(j, x) /\ (Sends(j, x) => j = i + a)
    BY <2>1 DEF Single
  <2>3. Unseen(x)'
    BY <1>2, <2>2
  <2>4. ASSUME NEW j, Sends(j, x)'
        PROVE  j = i
    <3>1. j \in Nat /\ j + a = i + a
      BY <2>2, <2>4
    <3> QED
      BY <2>1, <3>1
  <2> QED
    BY <2>2, <2>3, <2>4
<1>3. ASSUME NEW i, Tells(i, x)'
      PROVE  /\ Unseen(x)'
             /\ \A j : ~(j < i /\ Shows(j, x)') /\ (Tells(j, x)' => j = i)
  <2>1. Tells(i + b, x) /\ i \in Nat
    BY <1>3
  <2>2. /\ Unseen(x)
        /\ \A j : ~(j < i + b /\ Shows(j, x)) /\ (Tells(j, x) => j = i + b)
    BY <2>1 DEF Single
  <2>3. Unseen(x)'
    BY <1>3, <2>2
  <2>4. ASSUME NEW j, Tells(j, x)'
        PROVE  j = i
    <3>1. j \in Nat /\ j + b = i + b
      BY <2>2, <2>4
    <3> QED
      BY <2>1, <3>1
  <2>5. ASSUME NEW j, j < i, Shows(j, x)'
        PROVE  FALSE
    <3>1. j \in Nat /\ Shows(j + b, x)
      BY <2>5
    <3>2. j + b < i + b
      BY <2>1, <2>5, <3>1
    <3> QED
      BY <2>2, <3>1, <3>2
  <2> QED
    BY <2>3, <2>4, <2>5
<1> QED
  BY <1>1, <1>2, <1>3 DEF Single

LEMMA TakenFirst ==
    ASSUME NEW S, NEW s \in Seq(S), s # <<>>, NEW i, i \in DOMAIN Tail(s)
    PROVE  i \in Nat /\ i + 1 \in DOMAIN s /\ Tail(s)[i] = s[i + 1]
BY HeadTailSeq

LEMMA Positions ==
    ASSUME NEW S, NEW s \in Seq(S), NEW i \in DOMAIN s
    PROVE  i \in Nat /\ i + 0 = i
BY LenProperties

(* The first request answered. *)
LEMMA UpTaken ==
    ASSUME TypeInv, up # <<>>, up' = Tail(up), NEW x
    PROVE  \A i : Sends(i, x)' => i \in Nat /\ Sends(i + 1, x)
BY TakenFirst DEF TypeInv, Sends

LEMMA DownTaken ==
    ASSUME TypeInv, down # <<>>, down' = Tail(down), NEW x
    PROVE  /\ \A i : Tells(i, x)' => i \in Nat /\ Tells(i + 1, x)
           /\ \A i : Shows(i, x)' => i \in Nat /\ Shows(i + 1, x)
BY TakenFirst DEF TypeInv, Tells, Shows

LEMMA UpSame ==
    ASSUME TypeInv, up' = up, NEW x
    PROVE  \A i : Sends(i, x)' => i \in Nat /\ Sends(i + 0, x)
BY Positions DEF TypeInv, Sends

LEMMA DownSame ==
    ASSUME TypeInv, down' = down, NEW x
    PROVE  /\ \A i : Tells(i, x)' => i \in Nat /\ Tells(i + 0, x)
           /\ \A i : Shows(i, x)' => i \in Nat /\ Shows(i + 0, x)
BY Positions DEF TypeInv, Tells, Shows

(* A frame is sent. *)
LEMMA DownAppended ==
    ASSUME TypeInv, NEW m \in Parcel, down' = Append(down, m), NEW x
    PROVE  /\ Len(down) \in Nat
           /\ \A i : Tells(i, x) <=> i \in 1..Len(down) /\ Tells(i, x)'
           /\ \A i : Shows(i, x) <=> i \in 1..Len(down) /\ Shows(i, x)'
           /\ \A i : Tells(i, x)' => i \in Nat /\ (Tells(i, x) \/
                 (i = Len(down) + 1 /\ m.type = "patch" /\ Inserts(m.ops, x)))
           /\ \A i : Shows(i, x)' => i \in Nat /\ (Shows(i, x) \/
                 (i = Len(down) + 1 /\ m.type = "snapshot" /\ x \in ToSet(m.doc.order)))
<1>1. /\ DOMAIN down = 1..Len(down) /\ Len(down) \in Nat
      /\ DOMAIN down' = 1..(Len(down) + 1)
      /\ \A i \in 1..Len(down) : down'[i] = down[i]
      /\ down'[Len(down) + 1] = m
  BY AppendedAt DEF TypeInv
<1>2. \A i : i \in 1..(Len(down) + 1) <=> i \in 1..Len(down) \/ i = Len(down) + 1
  BY <1>1
<1> QED
  BY <1>1, <1>2 DEF Tells, Shows, Inserts

LEMMA SingleSent ==
    ASSUME TypeInv, NEW x, Single(x), NEW m \in Parcel, down' = Append(down, m),
           m.type = "patch" => ~Inserts(m.ops, x), m.type # "snapshot",
           up' = up \/ (up # <<>> /\ up' = Tail(up)),
           Unseen(x) => Unseen(x)',
           x \in ToSet(sdoc'.order) => x \in ToSet(sdoc.order),
           minted' = minted
    PROVE  Single(x)'
<1>1. /\ \A i : Tells(i, x)' => i \in Nat /\ Tells(i + 0, x)
      /\ \A i : Shows(i, x)' => i \in Nat /\ Shows(i + 0, x)
  <2>1. \A i : i \in Nat => i + 0 = i
    OBVIOUS
  <2> QED
    BY <2>1, DownAppended
<1>2. CASE up' = up
  BY <1>1, <1>2, UpSame, SingleKept
<1>3. CASE up # <<>> /\ up' = Tail(up)
  BY <1>1, <1>3, UpTaken, SingleKept
<1> QED
  BY <1>2, <1>3

(* A commit's document holds what was there and what it inserts. *)
LEMMA CommittedHolds ==
    ASSUME NEW d, Sound(d), NEW o, Fits(d, o), NEW x, x \in ToSet(Committed(d, o).order)
    PROVE  x \in ToSet(d.order) \/ Inserts(o, x)
<1>1. Committed(d, o).order = Settled(d.order, o)
  BY CommittedIs
<1>2. d.order \in Order /\ Wire(o)
  BY DEF Sound, Fits
<1>3. o.kind \in {"none", "insert", "move", "delete"}
  BY <1>2 DEF Wire
<1> QED
  BY <1>1, <1>2, <1>3, SettledOrder DEF Inserts

LEMMA SettledHolds ==
    ASSUME NEW s \in Order, NEW o, Wire(o), NEW x, x \in ToSet(Settled(s, o))
    PROVE  x \in ToSet(s) \/ Inserts(o, x)
<1>1. o.kind \in {"none", "insert", "move", "delete"}
  BY DEF Wire
<1> QED
  BY <1>1, SettledOrder DEF Inserts

(* A commit that records an insertion inserted that node. *)
LEMMA RecordedInserts ==
    ASSUME NEW d, Sound(d), NEW o \in Commit, NEW new, Sound(new), NEW x
    PROVE  Inserts(Recorded(d, o, new), x) => Inserts(o, x)
<1> DEFINE r == Recorded(d, o, new)
<1>1. CASE new.order = d.order
  BY <1>1, PatchIs DEF Recorded, Inserts
<1>2. CASE new.order # d.order
  <2>1. r.kind = o.kind /\ r.node = o.node
    BY <1>2 DEF Recorded, Patch
  <2> HIDE DEF r
  <2>2. Inserts(r, x) => Inserts(o, x)
    BY <2>1 DEF Inserts
  <2> QED
    BY <2>2 DEF r
<1> QED
  BY <1>1, <1>2

(* So does an answer. *)
LEMMA AnswerInserts ==
    ASSUME NEW d, Sound(d), NEW o \in Commit, NEW new, Sound(new), NEW x
    PROVE  Inserts(Answer(d, o, new), x) => Inserts(o, x)
<1>1. CASE new # d
  BY <1>1, RecordedInserts DEF Answer
<1>2. CASE new = d
  BY <1>2, PatchIs DEF Answer, Inserts
<1> QED
  BY <1>1, <1>2

(* A step that leaves the local document and the pending operations alone. *)
LEMMA NothingWritten ==
    ASSUME NEW x, UNCHANGED <<local, pending>>
    PROVE  Unseen(x) => Unseen(x)'
BY DEF Unseen, WritesTo

(* ... and no step shows, sends or tells of a node before the client has   *)
(* created it, or twice: the server's ...                                  *)
LEMMA ServeOnce ==
    ASSUME TypeInv, Once, Serve
    PROVE  Once'
<1> SUFFICES ASSUME breaks = 0
             PROVE  Once'
  BY DEF Once, Serve, counts
<1> DEFINE r == Head(up)
           n == Answer(sdoc, r.ops, sdoc')
<1>1. r \in Request /\ Tail(up) \in Seq(Request) /\ up # <<>> /\ 1 \in DOMAIN up /\ r = up[1]
  BY HeadTailSeq DEF Serve, TypeInv
<1>2. r.id \in 1..MaxEdits /\ r.ops \in Own /\ r.ops \in Commit
  BY <1>1, OwnIs DEF Request
<1>3. UNCHANGED <<late, ghost, link, local, pending, buffered, minted, breaks>>
  BY DEF Serve, client, counts
<1>4. /\ link = "up" /\ ghost = <<>> /\ buffered = <<>>
      /\ \A i \in DOMAIN late : late[i].ops.kind # "insert"
      /\ \A x \in Nodes : Single(x)
  BY DEF Once
<1>5. \A x : Inserts(r.ops, x) => Sends(1, x)
  BY <1>1 DEF Sends
<1>6. \A x : Unseen(x) => Unseen(x)'
  BY <1>3, NothingWritten
<1>7. /\ Applies(sdoc, r.ops) => Fits(sdoc, r.ops) /\ Sound(Committed(sdoc, r.ops))
                                 /\ Answer(sdoc, r.ops, Committed(sdoc, r.ops)) \in Commit
      /\ Sound(sdoc)
  <2> SUFFICES ASSUME Applies(sdoc, r.ops)
               PROVE  /\ Fits(sdoc, r.ops) /\ Sound(Committed(sdoc, r.ops))
                      /\ Answer(sdoc, r.ops, Committed(sdoc, r.ops)) \in Commit
    BY DEF TypeInv
  <2>1. Fits(sdoc, r.ops)
    BY <1>2, AppliesFits
  <2>2. Sound(Committed(sdoc, r.ops)) /\ Committed(sdoc, r.ops).order = Placed(sdoc.order, r.ops)
    BY <2>1, CommittedIs DEF TypeInv
  <2> QED
    BY <1>2, <2>1, <2>2, AnswerCommit DEF TypeInv, Applies
<1>8. CASE Applies(sdoc, r.ops) /\ sdoc' = Committed(sdoc, r.ops)
           /\ down' = Append(down, PatchMsg(r.id, n))
           /\ srv' = srv /\ up' = Tail(up)
  <2> DEFINE m == PatchMsg(r.id, n)
  <2>1. n \in Commit /\ m \in Parcel
    BY <1>2, <1>7, <1>8, MessagesAre, BoundsAssumption
  <2>2. m.type = "patch" /\ m.ops = n
    BY DEF PatchMsg
  <2>3. \A x : Inserts(n, x) => Inserts(r.ops, x)
    BY <1>2, <1>7, <1>8, AnswerInserts
  <2>4. \A x : x \in ToSet(sdoc'.order) => x \in ToSet(sdoc.order) \/ Inserts(r.ops, x)
    BY <1>7, <1>8, CommittedHolds
  <2>5. down' = Append(down, m) /\ up' = Tail(up)
    BY <1>8
  <2> HIDE DEF m, n, r
  <2>6. ASSUME NEW x \in Nodes
        PROVE  Single(x)'
    <3>1. CASE Inserts(r.ops, x)
      <4>1. /\ Sends(1, x) /\ Unseen(x) /\ x \in minted
            /\ \A j : ~Tells(j, x) /\ ~Shows(j, x) /\ (Sends(j, x) => j = 1)
        BY <1>4, <1>5, <3>1 DEF Single
      <4>2. \A i : ~Sends(i, x)'
        <5> SUFFICES ASSUME NEW i, Sends(i, x)'
                     PROVE  FALSE
          OBVIOUS
        <5>1. i \in Nat /\ Sends(i + 1, x)
          BY <1>1, <2>5, UpTaken
        <5>2. i + 1 = 1 /\ i \in DOMAIN Tail(up)
          BY <2>5, <4>1, <5>1 DEF Sends
        <5>3. DOMAIN Tail(up) = 1..(Len(up) - 1) /\ Len(up) \in Nat
          BY <1>1, HeadTailSeq DEF TypeInv
        <5> QED
          BY <5>1, <5>2, <5>3
      <4>3. \A i : Tells(i, x)' => i = Len(down) + 1
        BY <2>1, <2>5, <4>1, DownAppended
      <4>4. \A i : ~Shows(i, x)'
        BY <2>1, <2>2, <2>5, <4>1, DownAppended
      <4> QED
        BY <1>3, <1>6, <4>1, <4>2, <4>3, <4>4 DEF Single
    <3>2. CASE ~Inserts(r.ops, x)
      <4>1. Single(x) /\ (x \in ToSet(sdoc'.order) => x \in ToSet(sdoc.order))
            /\ ~Inserts(m.ops, x) /\ (Unseen(x) => Unseen(x)') /\ minted' = minted
        BY <1>3, <1>4, <1>6, <2>2, <2>3, <2>4, <3>2
      <4> QED
        BY <1>1, <2>1, <2>2, <2>5, <4>1, SingleSent
    <3> QED
      BY <3>1, <3>2
  <2> QED
    BY <1>3, <1>4, <2>6 DEF Once
<1>9. CASE UNCHANGED <<sdoc, down, up>>
  <2>1. ASSUME NEW x \in Nodes
        PROVE  Single(x)'
    <3>1. /\ Single(x) /\ minted' = minted /\ (Unseen(x) => Unseen(x)') /\ sdoc' = sdoc
          /\ up' = up /\ down' = down
      BY <1>3, <1>4, <1>6, <1>9
    <3> QED
      BY <3>1, UpSame, DownSame, SingleKept
  <2> QED
    BY <1>3, <1>4, <2>1 DEF Once
<1> QED
  BY <1>8, <1>9 DEF Serve

(* ... its rejections ... *)
LEMMA SendErrorOnce ==
    ASSUME TypeInv, Linked, Once, SendError
    PROVE  Once'
<1>1. up # <<>> /\ up' = Tail(up) /\ down' = Append(down, ErrorMsg(Head(up).id))
      /\ UNCHANGED <<sdoc, late, ghost, link, local, pending, buffered, minted, breaks>>
  BY DEF Linked, SendError, client, counts
<1> DEFINE m == ErrorMsg(Head(up).id)
<1>2. m \in Parcel /\ m.type = "error"
  <2>1. Head(up) \in Request
    BY <1>1, HeadTailSeq DEF TypeInv
  <2> QED
    BY <2>1, MessagesAre DEF Request, ErrorMsg
<1>3. down' = Append(down, m)
  BY <1>1
<1> HIDE DEF m
<1>4. ASSUME NEW x, Single(x)
      PROVE  Single(x)'
  <2>1. (Unseen(x) => Unseen(x)') /\ minted' = minted /\ sdoc' = sdoc
    BY <1>1, NothingWritten
  <2>2. m.type # "patch" /\ m.type # "snapshot"
    BY <1>2
  <2> QED
    BY <1>1, <1>2, <1>3, <1>4, <2>1, <2>2, SingleSent
<1> QED
  BY <1>1, <1>4 DEF Once

(* ... their snapshots ... *)
LEMMA ResyncOnce ==
    ASSUME TypeInv, Once, Resync
    PROVE  Once'
<1> SUFFICES ASSUME breaks = 0
             PROVE  Once'
  BY DEF Once, Resync, counts
<1>1. /\ down' = Append(down, SnapshotMsg(sdoc)) \o late /\ late' = <<>>
      /\ UNCHANGED <<sdoc, up, ghost, link, local, pending, buffered, minted, breaks>>
  BY DEF Resync, client, counts
<1>2. /\ link = "up" /\ ghost = <<>> /\ buffered = <<>>
      /\ \A i \in DOMAIN late : late[i].ops.kind # "insert"
      /\ \A x \in Nodes : Single(x)
  BY DEF Once
<1> DEFINE m == SnapshotMsg(sdoc)
           s == Append(down, m)
<1>3. m \in Parcel /\ m.type = "snapshot" /\ m.doc = sdoc
  BY MessagesAre DEF TypeInv, SnapshotMsg
<1> HIDE DEF m
<1>4. /\ DOMAIN down = 1..Len(down) /\ Len(down) \in Nat /\ DOMAIN s = 1..(Len(down) + 1)
      /\ Len(s) = Len(down) + 1
      /\ \A i \in 1..Len(down) : s[i] = down[i]
      /\ s[Len(down) + 1] = m /\ s \in Seq(Parcel)
  BY <1>3, AppendedAt, AppendProperties DEF TypeInv
<1>5. s \in Seq(Parcel) /\ late \in Seq(Parcel) /\ down' = s \o late
      /\ \A i \in DOMAIN late : late[i].type = "patch"
  <2>1. late \in Seq(Parcel)
    BY EchoIs, SeqMonotonic DEF TypeInv
  <2>2. \A i \in DOMAIN late : late[i] \in Echo
    BY LenProperties, ElementOfSeq DEF TypeInv
  <2> QED
    BY <1>1, <1>4, <2>1, <2>2, EchoIs DEF m
<1> HIDE DEF s
<1>6. /\ Len(late) \in Nat /\ DOMAIN late = 1..Len(late)
      /\ DOMAIN down' = 1..(Len(s) + Len(late))
      /\ \A i \in 1..(Len(s) + Len(late)) :
           down'[i] = IF i <= Len(s) THEN s[i] ELSE late[i - Len(s)]
  BY <1>5, ConcatProperties, LenProperties
<1>7. ASSUME NEW i \in DOMAIN down'
      PROVE  \/ i \in DOMAIN down /\ down'[i] = down[i]
             \/ i = Len(down) + 1 /\ down'[i] = m
             \/ i > Len(down) + 1 /\ down'[i].type = "patch" /\ down'[i].ops.kind # "insert"
  <2>1. CASE i \in 1..Len(down)
    BY <1>4, <1>6, <2>1
  <2>2. CASE i = Len(down) + 1
    BY <1>4, <1>6, <2>2
  <2>3. CASE i > Len(down) + 1
    <3>1. i - Len(s) \in DOMAIN late /\ down'[i] = late[i - Len(s)]
      BY <1>4, <1>6, <2>3
    <3> QED
      BY <1>2, <1>5, <2>3, <3>1
  <2> QED
    BY <1>4, <1>6, <2>1, <2>2, <2>3
<1>8. ASSUME NEW x, NEW i, Tells(i, x)'
      PROVE  Tells(i, x)
  <2>1. i \in DOMAIN down' /\ down'[i].type = "patch" /\ down'[i].ops.kind = "insert"
    BY <1>8 DEF Tells, Inserts
  <2>2. i \in DOMAIN down /\ down'[i] = down[i]
    BY <1>3, <1>7, <2>1
  <2> QED
    BY <1>8, <2>2 DEF Tells
<1>9. ASSUME NEW x, NEW i, Shows(i, x)'
      PROVE  Shows(i, x) \/ (i = Len(down) + 1 /\ x \in ToSet(sdoc.order))
  <2>1. i \in DOMAIN down' /\ down'[i].type = "snapshot"
    BY <1>9 DEF Shows
  <2>2. (i \in DOMAIN down /\ down'[i] = down[i]) \/ (i = Len(down) + 1 /\ down'[i] = m)
    BY <1>3, <1>7, <2>1
  <2> QED
    BY <1>3, <1>9, <2>2 DEF Shows
<1>10. \A i, x : Tells(i, x) => i \in 1..Len(down)
  BY <1>4 DEF Tells
<1>11. ASSUME NEW x \in Nodes
       PROVE  Single(x)'
  <2>1. Single(x) /\ (Unseen(x) => Unseen(x)') /\ minted' = minted /\ sdoc' = sdoc
    BY <1>1, <1>2, NothingWritten
  <2>2. \A i : Sends(i, x)' <=> Sends(i, x)
    BY <1>1 DEF Sends
  <2>3. ASSUME NEW i, Tells(i, x)', NEW j, j < i, Shows(j, x)'
        PROVE  FALSE
    <3>1. Tells(i, x) /\ i \in 1..Len(down)
      BY <1>8, <1>10, <2>3
    <3>2. ~(j = Len(down) + 1)
      BY <1>4, <2>3, <3>1
    <3> QED
      BY <1>9, <2>1, <2>3, <3>1, <3>2 DEF Single
  <2> QED
    BY <1>8, <1>9, <2>1, <2>2, <2>3 DEF Single
<1>12. DOMAIN late' = {}
  BY <1>1, EmptyListed
<1> QED
  BY <1>1, <1>2, <1>11, <1>12 DEF Once

(* A patch of somebody else's commit, which inserts nothing.               *)
LEMMA BroadcastOnce ==
    ASSUME TypeInv, Once, NEW o \in Commit, Fits(sdoc, o), o.kind # "insert", Broadcast(o),
           UNCHANGED ghost
    PROVE  Once'
<1> SUFFICES ASSUME breaks = 0
             PROVE  Once'
  BY DEF Once, Broadcast
<1> DEFINE n == Recorded(sdoc, o, sdoc')
           m == PatchMsg(0, n)
<1>1. UNCHANGED <<up, ghost, link, local, pending, buffered, minted, breaks>>
  BY DEF Broadcast, client
<1>2. /\ link = "up" /\ ghost = <<>> /\ buffered = <<>>
      /\ \A i \in DOMAIN late : late[i].ops.kind # "insert"
      /\ \A x \in Nodes : Single(x)
  BY DEF Once
<1>3. sdoc' = Committed(sdoc, o) /\ Sound(sdoc) /\ Sound(sdoc')
  BY CommittedIs DEF Broadcast, TypeInv
<1>4. n \in Commit /\ n.kind # "insert"
  <2>1. n.kind = "insert" => Inserts(n, n.node)
    BY DEF Inserts
  <2>2. n.kind = "insert" => Inserts(o, n.node)
    BY <1>3, <2>1, RecordedInserts
  <2> QED
    BY <1>3, <2>2, RecordedCommit DEF Inserts
<1>5. m \in Parcel /\ m \in Echo /\ m.type = "patch" /\ m.ops = n
  BY <1>4, MessagesAre, EchoIs DEF PatchMsg
<1>6. \/ down' = down /\ late' = late
      \/ down' = Append(down, m) /\ late' = late
      \/ late' = Append(late, m) /\ down' = down
  BY DEF Broadcast
<1> HIDE DEF m, n
<1>7. \A i \in DOMAIN late' : late'[i].ops.kind # "insert"
  <2>1. CASE late' = late
    BY <1>2, <2>1
  <2>2. CASE late' = Append(late, m)
    <3>1. /\ DOMAIN late = 1..Len(late) /\ DOMAIN late' = 1..(Len(late) + 1) /\ Len(late) \in Nat
          /\ \A i \in 1..Len(late) : late'[i] = late[i]
          /\ late'[Len(late) + 1] = m
      BY <1>5, <2>2, AppendedAt DEF TypeInv
    <3>2. ASSUME NEW i \in DOMAIN late'
          PROVE  late'[i].ops.kind # "insert"
      <4>1. CASE i \in 1..Len(late)
        BY <1>2, <3>1, <4>1
      <4>2. CASE i = Len(late) + 1
        BY <1>4, <1>5, <3>1, <4>2
      <4> QED
        BY <3>1, <4>1, <4>2
    <3> QED
      BY <3>2
  <2> QED
    BY <1>6, <2>1, <2>2
<1>8. ASSUME NEW x \in Nodes
      PROVE  Single(x)'
  <2>1. /\ Single(x) /\ (Unseen(x) => Unseen(x)') /\ minted' = minted /\ up' = up
        /\ ~Inserts(m.ops, x)
    BY <1>1, <1>2, <1>4, <1>5, NothingWritten DEF Inserts
  <2>2. x \in ToSet(sdoc'.order) => x \in ToSet(sdoc.order)
    BY <1>3, CommittedHolds DEF Inserts
  <2>3. CASE down' = down
    BY <2>1, <2>2, <2>3, UpSame, DownSame, SingleKept
  <2>4. CASE down' = Append(down, m)
    BY <1>5, <2>1, <2>2, <2>4, SingleSent
  <2> QED
    BY <1>6, <2>3, <2>4
<1> QED
  BY <1>1, <1>2, <1>7, <1>8 DEF Once

(* ... the host's edits ... *)
LEMMA HostCommitOnce ==
    ASSUME TypeInv, Once, HostCommit
    PROVE  Once'
<1>1. PICK o \in HostEdits : Broadcast(o)
  BY DEF HostCommit
<1>2. UNCHANGED ghost
  BY DEF HostCommit
<1> QED
  BY <1>1, <1>2, HostEditFits, BroadcastOnce

(* ... requests of a connection that broke ... *)
LEMMA ServeGhostOnce ==
    ASSUME Once, ServeGhost
    PROVE  Once'
<1>1. breaks' = breaks
  BY DEF ServeGhost, Broadcast
<1>2. ghost # <<>>
  BY DEF ServeGhost
<1> QED
  BY <1>1, <1>2 DEF Once

(* ... breaking ... *)
LEMMA GoOfflineOnce ==
    ASSUME TypeInv, GoOffline
    PROVE  Once'
<1>1. breaks' # 0
  BY DEF GoOffline, TypeInv
<1> QED
  BY <1>1 DEF Once

(* ... connecting ... *)
LEMMA ConnectOnce ==
    ASSUME Once, Connect
    PROVE  Once'
<1>1. breaks' = breaks /\ link = "down"
  BY DEF Connect, counts
<1> QED
  BY <1>1 DEF Once

(* What of the pending operations a step keeps, it keeps as it is. *)
LEMMA TakenKept ==
    ASSUME TypeInv, Inv, NEW ref, Position(ref) # 0, NEW k \in DOMAIN TakePending(ref)
    PROVE  /\ Position(ref) + k \in DOMAIN pending
           /\ TakePending(ref)[k] = pending[Position(ref) + k]
<1> DEFINE p == Position(ref)
<1>1. /\ p \in 1..Len(pending) /\ Len(pending) \in Nat /\ Listed(pending)
      /\ DOMAIN pending = 1..Len(pending)
  BY PositionIs, ListedIs DEF Inv, Lists, Held
<1> HIDE DEF p
<1>2. p + 1 \in 1..(Len(pending) + 1) /\ Len(pending) \in ((p + 1) - 1)..Len(pending)
  BY <1>1
<1> DEFINE t == SubSeq(pending, p + 1, Len(pending))
<1>3. /\ Listed(t) /\ Len(t) = Len(pending) - (p + 1) + 1
      /\ \A i \in 1..(Len(pending) - (p + 1) + 1) : t[i] = pending[(p + 1) + i - 1]
  BY <1>1, <1>2, ListedSub
<1>4. DOMAIN t = 1..(Len(pending) - p)
  <2> HIDE DEF t
  <2>1. Len(t) = Len(pending) - p
    BY <1>1, <1>3
  <2> QED
    BY <1>3, <2>1, ListedIs
<1>5. TakePending(ref) = t
  BY DEF TakePending, p
<1> HIDE DEF t
<1>6. k \in 1..(Len(pending) - p) /\ k \in 1..(Len(pending) - (p + 1) + 1)
  BY <1>1, <1>4, <1>5
<1>7. t[k] = pending[(p + 1) + k - 1] /\ (p + 1) + k - 1 = p + k /\ p + k \in 1..Len(pending)
  BY <1>1, <1>3, <1>6
<1> QED
  BY <1>1, <1>5, <1>7 DEF p

(* Refreshing inverses keeps what the operations do. *)
LEMMA RefreshKept ==
    ASSUME NEW s, NEW k \in DOMAIN Refresh(s, pending)
    PROVE  /\ k \in DOMAIN pending
           /\ TypeInv => /\ Refresh(s, pending)[k].applied = pending[k].applied
                         /\ Refresh(s, pending)[k].ops = pending[k].ops
                         /\ Refresh(s, pending)[k].id = pending[k].id
                         /\ Refresh(s, pending)[k].shadowed = pending[k].shadowed
                         /\ ~pending[k].applied => Refresh(s, pending)[k] = pending[k]
<1>1. k \in DOMAIN pending
  BY DEF Refresh
<1>2. TypeInv => pending[k] \in KeptOp
  BY <1>1, LenProperties, ElementOfSeq DEF TypeInv
<1> QED
  BY <1>1, <1>2 DEF Refresh, KeptOp

(* The order a patch leaves is not masked, and what stays pending is what  *)
(* was.                                                                    *)
LEMMA PatchEffect ==
    ASSUME TypeInv, Inv, HandlePatch
    PROVE  /\ down # <<>> /\ down' = Tail(down) /\ Head(down) \in Parcel
           /\ Head(down) = down[1] /\ 1 \in DOMAIN down
           /\ Head(down).type = "patch" /\ Head(down).ops \in Commit
           /\ local'.order = Settled(local.order, Head(down).ops)
           /\ \A k \in DOMAIN pending' : \E j \in DOMAIN pending :
                /\ pending'[k].applied = pending[j].applied
                /\ pending'[k].ops = pending[j].ops
                /\ pending'[k].id = pending[j].id
           /\ UNCHANGED <<sdoc, srv, late, up, ghost, link, buffered, rejected, minted, breaks>>
<1> DEFINE m == Head(down)
           o == m.ops
           i == Position(m.ref)
<1>1. m \in Parcel /\ Tail(down) \in Seq(Parcel) /\ m.type = "patch" /\ down # <<>>
      /\ m = down[1] /\ 1 \in DOMAIN down
  BY HeadTailSeq DEF HandlePatch, Received, TypeInv
<1>2. o \in Commit /\ o \in Ops /\ Wire(o) /\ o.state \in State
  BY <1>1, ParcelIs, CommitIs
<1>3. /\ IF i = 0 THEN Foreign(o)
         ELSE \/ Confirm(pending[i], o, TakePending(m.ref))
              \/ Land(pending[i], o, TakePending(m.ref))
      /\ down' = Tail(down)
      /\ UNCHANGED <<sdoc, srv, late, up, ghost, link, buffered, rejected, minted, breaks>>
  BY DEF HandlePatch, Received
<1> HIDE DEF m, o, i
<1>4. \E s \in State : local' = Lenient(local, Masked(o, s))
  <2>1. CASE i = 0
    BY <1>2, <1>3, <2>1, MaskIs DEF Foreign, Masked
  <2>2. CASE i # 0
    BY <1>2, <1>3, <2>2, MaskIs DEF Confirm, Land, Masked
  <2> QED
    BY <2>1, <2>2
<1>5. PICK s \in State : local' = Lenient(local, Masked(o, s))
  BY <1>4
<1>6. Wire(Masked(o, s)) /\ Settled(local.order, Masked(o, s)) = Settled(local.order, o)
  BY <1>2, MaskedIs
<1>7. local'.order = Settled(local.order, o)
  BY <1>5, <1>6, LenientIs DEF TypeInv
<1>8. \A k \in DOMAIN pending' : \E j \in DOMAIN pending :
         /\ pending'[k].applied = pending[j].applied
         /\ pending'[k].ops = pending[j].ops
         /\ pending'[k].id = pending[j].id
  <2>1. CASE i = 0
    <3>1. pending' = Refresh(o.state, pending)
      BY <1>3, <2>1 DEF Foreign
    <3> QED
      BY <3>1, RefreshKept
  <2>2. CASE i # 0
    <3>1. pending' = TakePending(m.ref) /\ Position(m.ref) # 0
      BY <1>3, <2>2 DEF Confirm, Land, i
    <3>2. \A k \in DOMAIN TakePending(m.ref) :
             /\ Position(m.ref) + k \in DOMAIN pending
             /\ TakePending(m.ref)[k] = pending[Position(m.ref) + k]
      BY <3>1, TakenKept
    <3> QED
      BY <3>1, <3>2
  <2> QED
    BY <2>1, <2>2
<1> QED
  BY <1>1, <1>2, <1>3, <1>7, <1>8 DEF m, o

(* ... patches ... *)
LEMMA HandlePatchOnce ==
    ASSUME TypeInv, Inv, Once, HandlePatch
    PROVE  Once'
<1> SUFFICES ASSUME breaks = 0
             PROVE  Once'
  BY PatchEffect DEF Once
<1> DEFINE o == Head(down).ops
<1>1. /\ down # <<>> /\ down' = Tail(down) /\ 1 \in DOMAIN down
      /\ Head(down) = down[1] /\ Head(down).type = "patch" /\ o \in Commit
      /\ local'.order = Settled(local.order, o)
      /\ UNCHANGED <<sdoc, late, up, ghost, link, buffered, minted, breaks>>
  BY PatchEffect
<1>2. /\ link = "up" /\ ghost = <<>> /\ buffered = <<>>
      /\ \A i \in DOMAIN late : late[i].ops.kind # "insert"
      /\ \A x \in Nodes : Single(x)
  BY DEF Once
<1>3. \A x : Inserts(o, x) => Tells(1, x)
  BY <1>1 DEF Tells
<1> HIDE DEF o
<1>4. \A x : x \in ToSet(local'.order) => x \in ToSet(local.order) \/ Inserts(o, x)
  BY <1>1, CommitIs, SettledHolds DEF TypeInv, Sound
<1>5. ASSUME NEW x \in Nodes
      PROVE  Single(x)'
  <2>1. /\ Single(x) /\ minted' = minted /\ sdoc' = sdoc /\ up' = up
        /\ \A i : Sends(i, x)' => i \in Nat /\ Sends(i + 0, x)
        /\ \A i : Tells(i, x)' => i \in Nat /\ Tells(i + 1, x)
        /\ \A i : Shows(i, x)' => i \in Nat /\ Shows(i + 1, x)
    BY <1>1, <1>2, UpSame, DownTaken
  <2>2. CASE Tells(1, x)
    <3>1. x \in minted /\ \A i : ~Sends(i, x) /\ (Tells(i, x) => i = 1)
      BY <2>1, <2>2 DEF Single
    <3>2. \A i : ~Sends(i, x)'
      BY <2>1, <3>1
    <3>3. \A i : ~Tells(i, x)'
      <4> SUFFICES ASSUME NEW i, Tells(i, x)'
                   PROVE  FALSE
        OBVIOUS
      <4>1. i \in Nat /\ i + 1 = 1 /\ i \in DOMAIN Tail(down)
        BY <1>1, <2>1, <3>1 DEF Tells
      <4>2. i # 0
        BY <1>1, <4>1, HeadTailSeq DEF TypeInv
      <4> QED
        BY <4>1, <4>2
    <3> QED
      BY <2>1, <3>1, <3>2, <3>3, SingleKept
  <2>3. CASE ~Tells(1, x)
    <3>1. Unseen(x) => Unseen(x)'
      <4>1. x \in ToSet(local'.order) => x \in ToSet(local.order)
        BY <1>3, <1>4, <2>3
      <4> QED
        BY <4>1, PatchEffect, UnseenKept
    <3> QED
      BY <2>1, <3>1, SingleKept
  <2> QED
    BY <2>2, <2>3
<1> QED
  BY <1>1, <1>2, <1>5 DEF Once

(* ... rejections ... *)
LEMMA HandleErrorOnce ==
    ASSUME TypeInv, Inv, Once, HandleError
    PROVE  Once'
<1>1. /\ down # <<>> /\ down' = Tail(down)
      /\ UNCHANGED <<sdoc, late, up, ghost, link, local, buffered, minted, breaks>>
  BY DEF HandleError, Received
<1>2. \A k \in DOMAIN pending' : \E j \in DOMAIN pending :
         /\ pending'[k].applied = pending[j].applied
         /\ pending'[k].ops = pending[j].ops
  <2>1. CASE Position(Head(down).ref) = 0
    BY <2>1 DEF HandleError
  <2>2. CASE Position(Head(down).ref) # 0
    BY <2>2, TakenKept DEF HandleError
  <2> QED
    BY <2>1, <2>2
<1>3. ASSUME NEW x \in Nodes, Single(x)
      PROVE  Single(x)'
  <2>1. Unseen(x) => Unseen(x)'
    BY <1>1, <1>2, UnseenKept
  <2> QED
    BY <1>1, <1>3, <2>1, UpSame, DownTaken, SingleKept
<1> QED
  BY <1>1, <1>3 DEF Once

(* ... snapshots ... *)
LEMMA InitDocOnce ==
    ASSUME TypeInv, Once, InitDoc
    PROVE  Once'
<1> SUFFICES ASSUME breaks = 0
             PROVE  Once'
  BY DEF Once, InitDoc, Received
<1>1. /\ down # <<>> /\ down' = Tail(down) /\ Head(down).type = "snapshot"
      /\ local' = Head(down).doc /\ link' = "up" /\ up' = up \o buffered /\ buffered' = <<>>
      /\ pending' = [i \in DOMAIN buffered |->
                       Entry(buffered[i].id, buffered[i].ops, FALSE, NoState, FALSE)]
      /\ UNCHANGED <<sdoc, late, ghost, minted, breaks>>
  BY DEF InitDoc, Received
<1>2. /\ link = "up" /\ ghost = <<>> /\ buffered = <<>>
      /\ \A i \in DOMAIN late : late[i].ops.kind # "insert"
      /\ \A x \in Nodes : Single(x)
  BY DEF Once
<1>3. up' = up /\ DOMAIN pending' = {}
  BY <1>1, <1>2, EmptyListed, ConcatEmptySeq DEF TypeInv
<1>4. Head(down) = down[1] /\ 1 \in DOMAIN down
  BY <1>1, HeadTailSeq DEF TypeInv
<1>5. \A x : x \in ToSet(local'.order) => Shows(1, x)
  BY <1>1, <1>4 DEF Shows
<1>6. \A x : Unseen(x)' \/ Shows(1, x)
  BY <1>3, <1>5 DEF Unseen, WritesTo
<1>7. ASSUME NEW x \in Nodes
      PROVE  Single(x)'
  <2>1. /\ Single(x) /\ minted' = minted /\ sdoc' = sdoc
        /\ \A i : Sends(i, x)' => i \in Nat /\ Sends(i + 0, x)
        /\ \A i : Tells(i, x)' => i \in Nat /\ Tells(i + 1, x)
        /\ \A i : Shows(i, x)' => i \in Nat /\ Shows(i + 1, x)
    BY <1>1, <1>2, <1>3, UpSame, DownTaken
  <2>2. CASE Shows(1, x)
    <3>1. x \in minted /\ \A i : ~Sends(i, x)
      BY <2>1, <2>2 DEF Single
    <3>2. ASSUME NEW i, Tells(i, x)'
          PROVE  FALSE
      <4>1. i \in Nat /\ Tells(i + 1, x) /\ i \in DOMAIN Tail(down)
        BY <1>1, <2>1, <3>2 DEF Tells
      <4>2. 1 < i + 1
        BY <1>1, <4>1, HeadTailSeq DEF TypeInv
      <4> QED
        BY <2>1, <2>2, <4>1, <4>2 DEF Single
    <3> QED
      BY <2>1, <3>1, <3>2, SingleKept
  <2>3. CASE ~Shows(1, x)
    BY <1>6, <2>1, <2>3, SingleKept
  <2> QED
    BY <2>2, <2>3
<1> QED
  BY <1>1, <1>2, <1>3, <1>7 DEF Once

(* What an edit queues: a write applied at once, or an operation built from *)
(* the tree.                                                               *)
Queued(o, a, g, w) ==
    /\ Queue(o, a, g, w) /\ o \in Own /\ Entry(edits + 1, o, a, g, w) \in KeptOp
    /\ edits < MaxEdits /\ minted \subseteq minted'
    /\ o.kind = "insert" => o.node \notin minted /\ minted' = minted \cup {o.node}
    /\ \/ a /\ \E n \in ToSet(local.order), v \in Values :
                 /\ o = Write(n, v) /\ g = Only(n, local.val[n]) /\ v # local.val[n]
                 /\ w = \E i \in DOMAIN pending : ~pending[i].applied /\ Covers(pending[i], n)
                 /\ local' = Applied(local, o)
       \/ a = FALSE /\ g = NoState /\ w = FALSE /\ local' = local

LEMMA BuiltQueued ==
    ASSUME TypeInv, edits < MaxEdits, NEW o \in Own, Built(o), minted \subseteq minted',
           o.kind = "insert" => o.node \notin minted /\ minted' = minted \cup {o.node}
    PROVE  \E p, a, g, w : Queued(p, a, g, w)
<1>1. edits + 1 \in 1..MaxEdits
  BY BoundsAssumption DEF TypeInv
<1>2. Entry(edits + 1, o, FALSE, NoState, FALSE) \in KeptOp
  BY <1>1, EntryKept
<1>3. Queue(o, FALSE, NoState, FALSE) /\ local' = local
  BY DEF Built
<1>4. Queued(o, FALSE, NoState, FALSE)
  BY <1>2, <1>3 DEF Queued
<1> QED
  BY <1>4

(* Every edit of the client queues one operation of its own. *)
LEMMA EditQueued ==
    ASSUME TypeInv, Edit
    PROVE  \E o, a, g, w : Queued(o, a, g, w)
<1>0. edits < MaxEdits /\ minted \subseteq Nodes /\ ToSet(Start) \subseteq minted
  BY DEF Edit, TypeInv
<1> DEFINE P == \E o, a, g, w : Queued(o, a, g, w)
<1>1. ASSUME NEW n \in Nodes, NEW v \in Values, SetField(n, v)
      PROVE  P
  <2>1. local.val[n] \in Values /\ Contains(local.order, n)
    BY <1>1 DEF SetField, TypeInv, Sound, Doc
  <2>2. Write(n, v) \in Own /\ Write(n, v).kind = "none" /\ Write(n, v).state = Only(n, v)
    BY WriteIs
  <2>3. Only(n, v) \in State /\ DOMAIN Only(n, v) = {n}
    BY OnlyIs
  <2>4. Only(n, local.val[n]) \in State /\ DOMAIN Only(n, local.val[n]) = {n}
    BY <2>1, OnlyIs
  <2> DEFINE w == \E i \in DOMAIN pending : ~pending[i].applied /\ Covers(pending[i], n)
             e == Entry(edits + 1, Write(n, v), TRUE, Only(n, local.val[n]), w)
  <2>5. edits + 1 \in 1..MaxEdits /\ w \in BOOLEAN
    BY <1>0, BoundsAssumption DEF TypeInv
  <2>6. w = \E i \in DOMAIN pending : ~pending[i].applied /\ Covers(pending[i], n)
    OBVIOUS
  <2>7. Queue(Write(n, v), TRUE, Only(n, local.val[n]), w) /\ minted' = minted
        /\ local' = Applied(local, Write(n, v)) /\ v # local.val[n]
    BY <1>1 DEF SetField
  <2> HIDE DEF w
  <2>8. e \in KeptOp
    BY <2>2, <2>3, <2>4, <2>5 DEF Entry, KeptOp
  <2>9. n \in ToSet(local.order)
    BY <2>1, OrderIs DEF TypeInv, Sound, Order
  <2>10. Queued(Write(n, v), TRUE, Only(n, local.val[n]), w)
    BY <1>0, <2>2, <2>6, <2>7, <2>8, <2>9 DEF Queued
  <2> QED
    BY <2>10
<1>2. ASSUME NEW n \in Nodes, NEW v \in Values, SetPendingField(n, v)
      PROVE  P
  BY <1>0, <1>2, WriteIs, BuiltQueued DEF SetPendingField
<1>3. ASSUME NEW n \in Nodes, NEW v \in Values, NEW w \in {"append", "prepend"},
             CreateNode(n, v, w)
      PROVE  P
  <2>1. n \notin ToSet(Start) /\ n \notin minted /\ minted' = minted \cup {n}
    BY <1>0, <1>3 DEF CreateNode
  <2>2. \E p, q \in Nodes \cup {NoNode} : Built(Patch("insert", n, p, q, Only(n, v)))
    BY <1>3, ModelOrderSeq DEF CreateNode
  <2>3. PICK p \in Nodes \cup {NoNode}, q \in Nodes \cup {NoNode} :
            Built(Patch("insert", n, p, q, Only(n, v)))
    BY <2>2
  <2>4. Patch("insert", n, p, q, Only(n, v)) \in Own
        /\ Patch("insert", n, p, q, Only(n, v)).node = n
    BY <2>1, InsertIs, PatchIs
  <2> QED
    BY <1>0, <2>1, <2>3, <2>4, BuiltQueued
<1>4. ASSUME NEW n \in Nodes, DeleteNode(n)
      PROVE  P
  <2>1. Patch("delete", n, NoNode, NoNode, NoState) \in Own
        /\ Patch("delete", n, NoNode, NoNode, NoState).kind # "insert"
    BY StructuralIs, PatchIs
  <2> QED
    BY <1>0, <1>4, <2>1, BuiltQueued DEF DeleteNode
<1>5. ASSUME NEW n \in Nodes, MoveNode(n)
      PROVE  P
  <2>1. LastOf(RemoveFirst(ModelOrder, n)) \in Nodes \cup {NoNode}
    BY ModelOrderSeq, RemoveFirstIs, LastOfIs
  <2>2. Patch("move", n, LastOf(RemoveFirst(ModelOrder, n)), NoNode, NoState) \in Own
        /\ Patch("move", n, LastOf(RemoveFirst(ModelOrder, n)), NoNode, NoState).kind # "insert"
    BY <2>1, StructuralIs, PatchIs
  <2> QED
    BY <1>0, <1>5, <2>2, BuiltQueued DEF MoveNode
<1>6. ASSUME NEW n \in Nodes, NEW t \in Nodes, NEW w \in {"before", "after"},
             MoveNodeRelative(n, t, w)
      PROVE  P
  <2>1. RemoveFirst(ModelOrder, n) \in Seq(Nodes)
    BY ModelOrderSeq, RemoveFirstIs
  <2>2. /\ PrevOf(RemoveFirst(ModelOrder, n), t) \in Nodes \cup {NoNode}
        /\ NextOf(RemoveFirst(ModelOrder, n), t) \in Nodes \cup {NoNode}
    BY <2>1, NeighboursAre
  <2>3. \E p, q \in Nodes \cup {NoNode} : Built(Patch("move", n, p, q, NoState))
    BY <1>6, <2>2 DEF MoveNodeRelative
  <2>4. PICK p \in Nodes \cup {NoNode}, q \in Nodes \cup {NoNode} :
           Built(Patch("move", n, p, q, NoState))
    BY <2>3
  <2>5. Patch("move", n, p, q, NoState) \in Own /\ Patch("move", n, p, q, NoState).kind # "insert"
    BY StructuralIs, PatchIs
  <2>6. minted' = minted
    BY <1>6 DEF MoveNodeRelative
  <2> QED
    BY <1>0, <2>4, <2>5, <2>6, BuiltQueued
<1> HIDE DEF P
<1>7. P
  BY <1>1, <1>2, <1>3, <1>4, <1>5, <1>6 DEF Edit
<1> QED
  BY <1>7 DEF P

(* A local write leaves the order of the local document. *)
LEMMA WrittenOrder ==
    ASSUME TypeInv, NEW o, NEW a, NEW g, NEW w, Queued(o, a, g, w)
    PROVE  /\ local'.order = local.order /\ Sound(local')
           /\ a => o.kind = "none" /\ DOMAIN o.state \subseteq ToSet(local.order)
<1>1. Sound(local) /\ local.order \in Order
  BY DEF TypeInv, Sound
<1>2. ToSet(local.order) \subseteq Nodes
  BY <1>1, OrderIs DEF Order
<1>3. CASE a
  <2>1. PICK n \in ToSet(local.order), v \in Values : o = Write(n, v) /\ local' = Applied(local, o)
    BY <1>3 DEF Queued
  <2>2. o \in Own /\ o.kind = "none" /\ DOMAIN o.state = {n}
    <3>1. n \in Nodes
      BY <1>2, <2>1
    <3>2. Write(n, v) \in Own /\ Write(n, v).kind = "none" /\ Write(n, v).state = Only(n, v)
      BY <3>1, WriteIs
    <3>3. DOMAIN Only(n, v) = {n}
      BY <3>1, OnlyIs
    <3> QED
      BY <2>1, <3>2, <3>3
  <2>3. Wire(o) /\ Aims(o) /\ Placed(local.order, o) = local.order
    BY <2>2, OwnIs DEF Placed
  <2>4. Sound(local') /\ local'.order = local.order
    BY <1>1, <2>1, <2>2, <2>3, AppliedIs
  <2> QED
    BY <2>2, <2>4
<1>4. CASE ~a
  BY <1>1, <1>4 DEF Queued
<1> QED
  BY <1>3, <1>4

(* ... and the client's edits. *)
LEMMA EditOnce ==
    ASSUME TypeInv, Once, Edit
    PROVE  Once'
<1>1. PICK o, a, g, w : Queued(o, a, g, w)
  BY EditQueued
<1>2. /\ Queue(o, a, g, w) /\ o \in Own /\ edits < MaxEdits
      /\ Entry(edits + 1, o, a, g, w) \in KeptOp /\ minted \subseteq minted'
      /\ o.kind = "insert" => o.node \notin minted /\ minted' = minted \cup {o.node}
      /\ breaks' = breaks
  BY <1>1 DEF Queued, Queue
<1>3. local'.order = local.order /\ (a => DOMAIN o.state \subseteq ToSet(local.order))
  BY <1>1, WrittenOrder
<1>4. CASE breaks = 0
  BY <1>2, <1>3, <1>4, QueueOnce
<1>5. CASE breaks # 0
  BY <1>2, <1>5 DEF Once
<1> QED
  BY <1>4, <1>5

(* Every step keeps created nodes new. *)
LEMMA NextOnce ==
    ASSUME TypeInv, Inv, Once, [Next]_vars
    PROVE  Once'
<1>1. CASE UNCHANGED vars
  BY <1>1 DEF vars, client, counts, Once, Single, Sends, Tells, Shows, Unseen, WritesTo
<1>2. CASE Next
  BY <1>2, EditOnce, ServeOnce, SendErrorOnce, ResyncOnce, ServeGhostOnce, HostCommitOnce,
     HandlePatchOnce, HandleErrorOnce, InitDocOnce, GoOfflineOnce, ConnectOnce DEF Next, Inv
<1> QED
  BY <1>1, <1>2

-----------------------------------------------------------------------------
(* The server holds what its normalizer leaves alone, if that looks at one *)
(* node at a time: then the answer to a write tells the field it wrote.    *)

Normal == \A x \in ToSet(sdoc.order) : sdoc.val[x] <= Limit

(* What the normalizer leaves of a value is at most the limit, and the     *)
(* value if that was.                                                      *)
LEMMA CutIs ==
    ASSUME NEW v \in Values
    PROVE  Cut(v) <= Limit /\ Cut(v) \in Values /\ (v <= Limit => Cut(v) = v)
BY ValuesAssumption DEF Cut

LEMMA AfterIs ==
    ASSUME NEW d, Sound(d), NEW o, Wire(o), NEW x \in Nodes
    PROVE  After(o, d.val, x) \in Values
BY StateIs DEF After, Sound, Doc, Wire

(* What a commit leaves is what the normalizer leaves alone ... *)
LEMMA CommittedNormal ==
    ASSUME Tally \notin Nodes, NEW d, Sound(d), NEW o, Fits(d, o)
    PROVE  \A x \in ToSet(Committed(d, o).order) : Committed(d, o).val[x] <= Limit
<1> SUFFICES ASSUME NEW x \in ToSet(Committed(d, o).order)
             PROVE  Committed(d, o).val[x] <= Limit
  OBVIOUS
<1>1. /\ Sound(Committed(d, o)) /\ Committed(d, o).order = Placed(d.order, o)
      /\ \A y \in Nodes : Committed(d, o).val[y] =
            IF y \in ToSet(Placed(d.order, o)) THEN Cut(After(o, d.val, y)) ELSE 0
  BY CommittedIs
<1>2. x \in Nodes
  BY <1>1, OrderIs DEF Sound, Order
<1>3. After(o, d.val, x) \in Values
  BY <1>2, AfterIs DEF Fits
<1> QED
  BY <1>1, <1>2, <1>3, CutIs

(* ... and that is what the server holds after every step. *)
LEMMA NextNormal ==
    ASSUME TypeInv, Normal, Tally \notin Nodes, [Next]_vars
    PROVE  Normal'
<1>1. CASE sdoc' = sdoc
  BY <1>1 DEF Normal
<1>2. ASSUME NEW o, Fits(sdoc, o), sdoc' = Committed(sdoc, o)
      PROVE  Normal'
  BY <1>2, CommittedNormal DEF Normal, TypeInv
<1>3. CASE Serve
  <2>1. Head(up) \in Request
    BY <1>3, HeadTailSeq DEF Serve, TypeInv
  <2>2. Head(up).ops \in Own
    BY <2>1 DEF Request
  <2>3. Applies(sdoc, Head(up).ops) => Fits(sdoc, Head(up).ops)
    BY <2>2, AppliesFits
  <2> QED
    BY <1>1, <1>2, <1>3, <2>3 DEF Serve
<1>4. CASE ServeGhost
  <2>1. Head(ghost) \in Request
    BY <1>4, HeadTailSeq DEF ServeGhost, TypeInv
  <2>2. Head(ghost).ops \in Own
    BY <2>1 DEF Request
  <2>3. Applies(sdoc, Head(ghost).ops) => Fits(sdoc, Head(ghost).ops)
    BY <2>2, AppliesFits
  <2> QED
    BY <1>1, <1>2, <1>4, <2>3 DEF ServeGhost, Broadcast
<1>5. CASE HostCommit
  <2>1. PICK o \in HostEdits : Broadcast(o)
    BY <1>5 DEF HostCommit
  <2> QED
    BY <1>2, <2>1, HostEditFits DEF Broadcast
<1>6. CASE Edit
  <2>1. PICK o, a, g, w : Queued(o, a, g, w)
    BY <1>6, EditQueued
  <2> QED
    BY <1>1, <2>1 DEF Queued, Queue
<1>7. CASE SendError \/ Resync \/ HandlePatch \/ HandleError \/ InitDoc \/ GoOffline \/ Connect
  BY <1>1, <1>7 DEF SendError, Resync, HandlePatch, HandleError, InitDoc, GoOffline, Connect,
                    Received
<1>8. CASE UNCHANGED vars
  BY <1>1, <1>8 DEF vars
<1> QED
  BY <1>3, <1>4, <1>5, <1>6, <1>7, <1>8 DEF Next

(* A commit records what its operation wrote, and the node it inserted.    *)
LEMMA WroteOnly ==
    ASSUME Tally \notin Nodes, TypeInv, Normal, NEW o, Fits(sdoc, o),
           NEW y \in Wrote(sdoc, o, Committed(sdoc, o))
    PROVE  y \in DOMAIN o.state \/ Inserts(o, y)
<1> DEFINE n == Committed(sdoc, o)
<1>1. Sound(sdoc) /\ Wire(o)
  BY DEF TypeInv, Fits
<1>2. /\ Sound(n) /\ n.order = Placed(sdoc.order, o)
      /\ \A z \in Nodes : n.val[z] =
            IF z \in ToSet(Placed(sdoc.order, o)) THEN Cut(After(o, sdoc.val, z)) ELSE 0
  BY <1>1, CommittedIs
<1>3. y \in ToSet(n.order) /\ (n.val[y] # sdoc.val[y] \/ (o.kind = "insert" /\ y = o.node))
  BY DEF Wrote
<1>4. y \in Nodes
  BY <1>2, <1>3, OrderIs DEF Sound, Order
<1>5. y \in ToSet(sdoc.order) \/ Inserts(o, y)
  BY <1>1, <1>3, CommittedHolds
<1> HIDE DEF n
<1> SUFFICES ASSUME y \notin DOMAIN o.state, y \in ToSet(sdoc.order), n.val[y] # sdoc.val[y]
             PROVE  FALSE
  BY <1>3, <1>5 DEF Inserts
<1>6. After(o, sdoc.val, y) = sdoc.val[y] /\ sdoc.val[y] \in Values
  BY <1>1, <1>4 DEF After, Sound, Doc
<1>7. Cut(sdoc.val[y]) = sdoc.val[y]
  BY <1>6, CutIs DEF Normal
<1> QED
  BY <1>2, <1>3, <1>4, <1>6, <1>7

(* What an answer says of the operation it answers. *)
Fulfils(o, p) ==
    /\ DOMAIN p.state = DOMAIN o.state
    /\ \A x \in DOMAIN o.state : p.state[x] = Cut(o.state[x])
    /\ p.kind = "none" \/ (p.kind = o.kind /\ p.node = o.node)

(* The answer to a write tells the fields it wrote, with the values they   *)
(* got.                                                                    *)
LEMMA AnswerFulfils ==
    ASSUME Tally \notin Nodes, TypeInv, Normal, NEW o \in Own, Applies(sdoc, o)
    PROVE  Fulfils(o, Answer(sdoc, o, Committed(sdoc, o)))
<1> DEFINE n == Committed(sdoc, o)
           r == Recorded(sdoc, o, n)
<1>1. Fits(sdoc, o) /\ o \in Ops /\ Aims(o) /\ Shape(o) /\ Sound(sdoc) /\ Wire(o)
  BY AppliesFits, OwnIs DEF TypeInv
<1>2. /\ Sound(n) /\ n.order = Placed(sdoc.order, o)
      /\ \A y \in Nodes : n.val[y] =
            IF y \in ToSet(Placed(sdoc.order, o)) THEN Cut(After(o, sdoc.val, y)) ELSE 0
  BY <1>1, CommittedIs
<1>3. DOMAIN o.state \subseteq ToSet(n.order)
  BY <1>2 DEF Applies
<1>9. \A y \in Wrote(sdoc, o, n) : y \in DOMAIN o.state \/ Inserts(o, y)
  BY <1>1, WroteOnly
<1> HIDE DEF n
<1>10. ASSUME NEW x \in DOMAIN o.state
       PROVE  n.val[x] = Cut(o.state[x])
  <2>1. x \in Nodes /\ x \in ToSet(Placed(sdoc.order, o))
    BY <1>1, <1>2, <1>3, StateIs DEF Wire
  <2> QED
    BY <1>2, <2>1 DEF After
<1>4. CASE n = sdoc
  <2> DEFINE s == [x \in DOMAIN o.state |-> n.val[x]]
  <2>1. Answer(sdoc, o, n) = Patch("none", NoNode, NoNode, NoNode, s)
    BY <1>4 DEF Answer
  <2>2. DOMAIN s = DOMAIN o.state /\ \A x \in DOMAIN o.state : s[x] = Cut(o.state[x])
    BY <1>10
  <2> HIDE DEF s
  <2> QED
    BY <2>1, <2>2, PatchIs DEF Fulfils, n
<1>5. CASE n # sdoc
  <2>1. Answer(sdoc, o, n) = r
    BY <1>5 DEF Answer
  <2>2. DOMAIN r.state = Wrote(sdoc, o, n) /\ \A x \in Wrote(sdoc, o, n) : r.state[x] = n.val[x]
    <3>1. r.state = [x \in Wrote(sdoc, o, n) |-> n.val[x]]
      BY <1>1, <1>2, RecordedIs
    <3> QED
      BY <3>1
  <2>3. r.kind = "none" \/ (r.kind = o.kind /\ r.node = o.node)
    <3>1. CASE n.order = sdoc.order
      BY <3>1, PatchIs DEF Recorded
    <3>2. CASE n.order # sdoc.order
      BY <3>2 DEF Recorded, Patch
    <3> QED
      BY <3>1, <3>2
  <2> HIDE DEF r
  <2>4. DOMAIN o.state \subseteq Wrote(sdoc, o, n)
    <3>1. CASE o.kind = "none" /\ \E x \in Nodes : DOMAIN o.state = {x}
      <4>1. PICK x \in Nodes : DOMAIN o.state = {x}
        BY <3>1
      <4>2. x \in ToSet(n.order) /\ n.order = sdoc.order
        BY <1>2, <1>3, <3>1, <4>1 DEF Placed
      <4>3. n \in Doc /\ sdoc \in Doc
        BY <1>1, <1>2 DEF Sound
      <4>4. n.val # sdoc.val
        BY <1>5, <4>2, <4>3 DEF Doc
      <4>5. PICK y \in Nodes : n.val[y] # sdoc.val[y]
        BY <4>3, <4>4 DEF Doc
      <4>6. y \in ToSet(n.order)
        BY <1>1, <1>2, <4>2, <4>5 DEF Sound
      <4>7. y \in Wrote(sdoc, o, n)
        BY <4>5, <4>6 DEF Wrote
      <4>8. y = x
        BY <1>9, <3>1, <4>1, <4>7 DEF Inserts
      <4> QED
        BY <4>1, <4>7, <4>8
    <3>2. CASE o.kind = "insert" /\ DOMAIN o.state = {o.node}
      BY <1>3, <3>2 DEF Wrote
    <3>3. CASE DOMAIN o.state = {}
      BY <3>3
    <3> QED
      BY <1>1, <3>1, <3>2, <3>3 DEF Shape
  <2>5. Wrote(sdoc, o, n) \subseteq DOMAIN o.state
    BY <1>1, <1>9 DEF Shape, Inserts
  <2>6. DOMAIN r.state = DOMAIN o.state /\ \A x \in DOMAIN o.state : r.state[x] = Cut(o.state[x])
    BY <1>10, <2>2, <2>4, <2>5
  <2>7. Fulfils(o, r)
    BY <2>3, <2>6 DEF Fulfils
  <2> QED
    BY <2>1, <2>7 DEF n
<1> QED
  BY <1>4, <1>5

(* A request asks for its pending operation, and an answer fulfils it.     *)
Agreed ==
    /\ \A k \in DOMAIN pending, i \in DOMAIN up :
          up[i].id = pending[k].id => up[i].ops = pending[k].ops
    /\ \A k \in DOMAIN pending, i \in DOMAIN down :
          down[i].type = "patch" /\ down[i].ref = pending[k].id
             => Fulfils(pending[k].ops, down[i].ops)

(* Edits are numbered from 1. *)
LEMMA IdsPositive ==
    ASSUME TypeInv, NEW k \in DOMAIN pending
    PROVE  pending[k].id \in 1..MaxEdits /\ pending[k].id # 0 /\ pending[k] \in KeptOp
<1>1. pending[k] \in KeptOp
  BY LenProperties, ElementOfSeq DEF TypeInv
<1> QED
  BY <1>1 DEF KeptOp

(* At first nothing is asked or answered. *)
LEMMA InitAgreed == Init => Agreed
<1> SUFFICES ASSUME Init
             PROVE  Agreed
  OBVIOUS
<1>1. DOMAIN up = {} /\ DOMAIN down = {} /\ DOMAIN pending = {}
  BY EmptyListed DEF Init
<1> QED
  BY <1>1 DEF Agreed

(* What stays pending is what was, and nothing new is said of it.          *)
LEMMA AgreedKept ==
    ASSUME TypeInv, Agreed,
           \A k \in DOMAIN pending' : \E j \in DOMAIN pending :
              pending'[k].id = pending[j].id /\ pending'[k].ops = pending[j].ops,
           \A i \in DOMAIN up' : \E j \in DOMAIN up : up'[i] = up[j],
           \A i \in DOMAIN down' :
              \/ \E j \in DOMAIN down : down'[i] = down[j]
              \/ down'[i].type # "patch" \/ down'[i].ref = 0
    PROVE  Agreed'
<1>1. ASSUME NEW k \in DOMAIN pending', NEW i \in DOMAIN up', up'[i].id = pending'[k].id
      PROVE  up'[i].ops = pending'[k].ops
  <2>1. PICK j \in DOMAIN pending : pending'[k].id = pending[j].id /\ pending'[k].ops = pending[j].ops
    OBVIOUS
  <2>2. PICK l \in DOMAIN up : up'[i] = up[l]
    OBVIOUS
  <2> QED
    BY <1>1, <2>1, <2>2 DEF Agreed
<1>2. ASSUME NEW k \in DOMAIN pending', NEW i \in DOMAIN down',
             down'[i].type = "patch", down'[i].ref = pending'[k].id
      PROVE  Fulfils(pending'[k].ops, down'[i].ops)
  <2>1. PICK j \in DOMAIN pending : pending'[k].id = pending[j].id /\ pending'[k].ops = pending[j].ops
    OBVIOUS
  <2>2. down'[i].ref # 0
    BY <1>2, <2>1, IdsPositive
  <2>3. PICK l \in DOMAIN down : down'[i] = down[l]
    BY <1>2, <2>2
  <2> QED
    BY <1>2, <2>1, <2>3 DEF Agreed
<1> QED
  BY <1>1, <1>2 DEF Agreed

LEMMA PendingSame ==
    ASSUME pending' = pending
    PROVE  \A k \in DOMAIN pending' : \E j \in DOMAIN pending :
              pending'[k].id = pending[j].id /\ pending'[k].ops = pending[j].ops
OBVIOUS

LEMMA TailElements ==
    ASSUME NEW S, NEW s \in Seq(S), s # <<>>
    PROVE  \A i \in DOMAIN Tail(s) : \E j \in DOMAIN s : Tail(s)[i] = s[j]
BY TakenFirst

LEMMA AppendElements ==
    ASSUME NEW S, NEW s \in Seq(S), NEW e \in S
    PROVE  \A i \in DOMAIN Append(s, e) :
              (\E j \in DOMAIN s : Append(s, e)[i] = s[j]) \/ Append(s, e)[i] = e
<1>1. /\ DOMAIN s = 1..Len(s) /\ Len(s) \in Nat
      /\ DOMAIN Append(s, e) = 1..(Len(s) + 1)
      /\ \A i \in 1..Len(s) : Append(s, e)[i] = s[i]
      /\ Append(s, e)[Len(s) + 1] = e
  BY AppendedAt
<1>2. \A i : i \in 1..(Len(s) + 1) <=> i \in 1..Len(s) \/ i = Len(s) + 1
  BY <1>1
<1> QED
  BY <1>1, <1>2

LEMMA ConcatElements ==
    ASSUME NEW S, NEW s \in Seq(S), NEW t \in Seq(S)
    PROVE  \A i \in DOMAIN (s \o t) :
              (\E j \in DOMAIN s : (s \o t)[i] = s[j]) \/ (\E j \in DOMAIN t : (s \o t)[i] = t[j])
<1>1. /\ Len(s) \in Nat /\ DOMAIN s = 1..Len(s) /\ Len(t) \in Nat /\ DOMAIN t = 1..Len(t)
      /\ Len(s \o t) = Len(s) + Len(t) /\ DOMAIN (s \o t) = 1..(Len(s) + Len(t))
      /\ \A i \in 1..(Len(s) + Len(t)) :
            (s \o t)[i] = IF i <= Len(s) THEN s[i] ELSE t[i - Len(s)]
  BY ConcatProperties, LenProperties
<1> DEFINE c == s \o t
<1>2. DOMAIN c = 1..(Len(s) + Len(t))
      /\ \A i \in 1..(Len(s) + Len(t)) : c[i] = IF i <= Len(s) THEN s[i] ELSE t[i - Len(s)]
  BY <1>1
<1> HIDE DEF c
<1>3. ASSUME NEW i \in DOMAIN c
      PROVE  (\E j \in DOMAIN s : c[i] = s[j]) \/ (\E j \in DOMAIN t : c[i] = t[j])
  <2>1. CASE i <= Len(s)
    <3>1. i \in DOMAIN s /\ c[i] = s[i]
      BY <1>1, <1>2, <2>1
    <3> QED
      BY <3>1
  <2>2. CASE ~(i <= Len(s))
    <3>1. i - Len(s) \in DOMAIN t /\ c[i] = t[i - Len(s)]
      BY <1>1, <1>2, <2>2
    <3> QED
      BY <3>1
  <2> QED
    BY <2>1, <2>2
<1> QED
  BY <1>3 DEF c

(* The server's answer fulfils the operation it answers. *)
LEMMA ServeAgreed ==
    ASSUME TypeInv, Normal, Agreed, Tally \notin Nodes, Serve
    PROVE  Agreed'
<1> DEFINE r == Head(up)
           n == Answer(sdoc, r.ops, Committed(sdoc, r.ops))
           m == PatchMsg(r.id, n)
<1>1. r \in Request /\ Tail(up) \in Seq(Request) /\ up # <<>> /\ 1 \in DOMAIN up /\ r = up[1]
  BY HeadTailSeq DEF Serve, TypeInv
<1>2. r.id \in 1..MaxEdits /\ r.ops \in Own /\ r.ops \in Commit
  BY <1>1, OwnIs DEF Request
<1>3. pending' = pending
  BY DEF Serve, client
<1>4. CASE Applies(sdoc, r.ops) /\ down' = Append(down, m) /\ up' = Tail(up)
  <2>1. m.type = "patch" /\ m.ops = n /\ m.ref = r.id
    BY DEF PatchMsg
  <2>2. Fulfils(r.ops, n)
    BY <1>2, <1>4, AnswerFulfils
  <2>3. m \in Parcel
    <3>1. Fits(sdoc, r.ops)
      BY <1>2, <1>4, AppliesFits
    <3>2. /\ Sound(Committed(sdoc, r.ops))
          /\ Committed(sdoc, r.ops).order = Placed(sdoc.order, r.ops)
      BY <3>1, CommittedIs DEF TypeInv
    <3>3. n \in Commit
      BY <1>2, <1>4, <3>2, AnswerCommit DEF TypeInv, Applies
    <3> QED
      BY <1>2, <3>3, MessagesAre, BoundsAssumption
  <2> HIDE DEF m, n, r
  <2>4. ASSUME NEW k \in DOMAIN pending, r.id = pending[k].id
        PROVE  pending[k].ops = r.ops
    BY <1>1, <2>4 DEF Agreed
  <2>5. ASSUME NEW k \in DOMAIN pending', NEW i \in DOMAIN down',
               down'[i].type = "patch", down'[i].ref = pending'[k].id
        PROVE  Fulfils(pending'[k].ops, down'[i].ops)
    <3>1. (\E j \in DOMAIN down : down'[i] = down[j]) \/ down'[i] = m
      BY <1>4, <2>3, AppendElements DEF TypeInv
    <3>2. CASE down'[i] = m
      BY <1>3, <2>1, <2>2, <2>4, <2>5, <3>2
    <3>3. CASE \E j \in DOMAIN down : down'[i] = down[j]
      BY <1>3, <2>5, <3>3 DEF Agreed
    <3> QED
      BY <3>1, <3>2, <3>3
  <2>6. ASSUME NEW k \in DOMAIN pending', NEW i \in DOMAIN up', up'[i].id = pending'[k].id
        PROVE  up'[i].ops = pending'[k].ops
    <3>1. PICK j \in DOMAIN up : up'[i] = up[j]
      BY <1>1, <1>4, TailElements DEF TypeInv
    <3> QED
      BY <1>3, <2>6, <3>1 DEF Agreed
  <2> QED
    BY <2>5, <2>6 DEF Agreed
<1>5. CASE UNCHANGED <<down, up>>
  BY <1>3, <1>5 DEF Agreed
<1> QED
  BY <1>4, <1>5 DEF Serve

LEMMA BroadcastElements ==
    ASSUME TypeInv, NEW o \in Commit, Fits(sdoc, o), Broadcast(o)
    PROVE  \A i \in DOMAIN down' :
              \/ \E j \in DOMAIN down : down'[i] = down[j]
              \/ down'[i].type # "patch" \/ down'[i].ref = 0
<1> DEFINE m == PatchMsg(0, Recorded(sdoc, o, sdoc'))
<1>1. Sound(sdoc')
  BY CommittedIs DEF Broadcast, TypeInv
<1>2. m \in Parcel /\ m.ref = 0
  BY <1>1, RecordedCommit, MessagesAre, EchoIs DEF TypeInv, PatchMsg
<1>3. down' = down \/ down' = Append(down, m)
  BY DEF Broadcast
<1> HIDE DEF m
<1>4. \A i \in DOMAIN Append(down, m) :
         (\E j \in DOMAIN down : Append(down, m)[i] = down[j]) \/ Append(down, m)[i] = m
  BY <1>2, AppendElements DEF TypeInv
<1>5. CASE down' = down
  BY <1>5
<1>6. CASE down' = Append(down, m)
  BY <1>2, <1>4, <1>6
<1> QED
  BY <1>3, <1>5, <1>6

(* No other step of the server's asks or answers anything else. *)
LEMMA ServerAgreed ==
    ASSUME TypeInv, Linked, Agreed, SendError \/ Resync \/ HostCommit \/ ServeGhost
    PROVE  Agreed'
<1>1. CASE SendError
  <2> DEFINE m == ErrorMsg(Head(up).id)
  <2>1. up # <<>> /\ up' = Tail(up) /\ down' = Append(down, m) /\ pending' = pending
    BY <1>1 DEF Linked, SendError, client
  <2>2. m \in Parcel /\ m.type # "patch"
    <3>1. Head(up) \in Request
      BY <2>1, HeadTailSeq DEF TypeInv
    <3> QED
      BY <3>1, MessagesAre DEF Request, ErrorMsg
  <2> HIDE DEF m
  <2>3. \A i \in DOMAIN up' : \E j \in DOMAIN up : up'[i] = up[j]
    BY <2>1, TailElements DEF TypeInv
  <2>4. \A i \in DOMAIN Append(down, m) :
           (\E j \in DOMAIN down : Append(down, m)[i] = down[j]) \/ Append(down, m)[i] = m
    <3>1. down \in Seq(Parcel) /\ m \in Parcel
      BY <2>2 DEF TypeInv
    <3> QED
      BY <3>1, AppendElements
  <2> QED
    BY <2>1, <2>2, <2>3, <2>4, AgreedKept
<1>2. CASE Resync
  <2> DEFINE m == SnapshotMsg(sdoc)
             s == Append(down, m)
  <2>1. up' = up /\ down' = s \o late /\ pending' = pending
    BY <1>2 DEF Resync, client
  <2>2. m \in Parcel /\ m.type # "patch"
    BY MessagesAre DEF TypeInv, SnapshotMsg
  <2>3. late \in Seq(Parcel) /\ \A i \in DOMAIN late : late[i].ref = 0
    <3>1. \A i \in DOMAIN late : late[i] \in Echo
      BY LenProperties, ElementOfSeq DEF TypeInv
    <3> QED
      BY <3>1, EchoIs, SeqMonotonic DEF TypeInv
  <2> HIDE DEF m
  <2>4. s \in Seq(Parcel) /\ \A i \in DOMAIN s : (\E j \in DOMAIN down : s[i] = down[j]) \/ s[i] = m
    BY <2>2, AppendElements, AppendProperties DEF TypeInv
  <2> HIDE DEF s
  <2>5. \A i \in DOMAIN down' :
           (\E j \in DOMAIN s : down'[i] = s[j]) \/ (\E j \in DOMAIN late : down'[i] = late[j])
    BY <2>1, <2>3, <2>4, ConcatElements
  <2>6. ASSUME NEW i \in DOMAIN down'
        PROVE  \/ \E j \in DOMAIN down : down'[i] = down[j]
               \/ down'[i].type # "patch" \/ down'[i].ref = 0
    <3>1. CASE \E j \in DOMAIN s : down'[i] = s[j]
      BY <2>2, <2>4, <3>1
    <3>2. CASE \E j \in DOMAIN late : down'[i] = late[j]
      BY <2>3, <3>2
    <3> QED
      BY <2>5, <3>1, <3>2
  <2> QED
    BY <2>1, <2>6, AgreedKept
<1>3. CASE HostCommit
  <2>1. PICK o \in HostEdits : Broadcast(o)
    BY <1>3 DEF HostCommit
  <2>2. up' = up /\ pending' = pending
    BY <2>1 DEF Broadcast, client
  <2>3. \A i \in DOMAIN down' :
              \/ \E j \in DOMAIN down : down'[i] = down[j]
              \/ down'[i].type # "patch" \/ down'[i].ref = 0
    BY <2>1, HostEditFits, BroadcastElements
  <2> QED
    BY <2>2, <2>3, AgreedKept
<1>4. CASE ServeGhost
  <2> DEFINE o == Head(ghost).ops
  <2>1. o \in Own /\ o \in Commit
    <3>1. Head(ghost) \in Request
      BY <1>4, HeadTailSeq DEF ServeGhost, TypeInv
    <3> QED
      BY <3>1, OwnIs DEF Request
  <2>2. CASE Applies(sdoc, o) /\ Broadcast(o)
    <3>1. up' = up /\ pending' = pending
      BY <2>2 DEF Broadcast, client
    <3>2. Fits(sdoc, o)
      BY <2>1, <2>2, AppliesFits
    <3> HIDE DEF o
    <3>3. \A i \in DOMAIN down' :
              \/ \E j \in DOMAIN down : down'[i] = down[j]
              \/ down'[i].type # "patch" \/ down'[i].ref = 0
      BY <2>1, <2>2, <3>2, BroadcastElements
    <3> QED
      BY <3>1, <3>3, AgreedKept
  <2>3. CASE UNCHANGED <<up, down, client>>
    BY <2>3 DEF Agreed, client
  <2> QED
    BY <1>4, <2>2, <2>3 DEF ServeGhost
<1> QED
  BY <1>1, <1>2, <1>3, <1>4

(* What the client takes from the connection leaves the rest as it was ... *)
LEMMA ClientAgreed ==
    ASSUME TypeInv, Inv, Agreed, HandlePatch \/ HandleError
    PROVE  Agreed'
<1>1. down # <<>> /\ down' = Tail(down) /\ up' = up
  BY DEF HandlePatch, HandleError, Received
<1>2. \A i \in DOMAIN down' : \E j \in DOMAIN down : down'[i] = down[j]
  BY <1>1, TailElements DEF TypeInv
<1>3. \A k \in DOMAIN pending' : \E j \in DOMAIN pending :
         pending'[k].id = pending[j].id /\ pending'[k].ops = pending[j].ops
  <2>1. CASE HandlePatch
    BY <2>1, PatchEffect
  <2>2. CASE HandleError /\ Position(Head(down).ref) = 0
    BY <2>2 DEF HandleError
  <2>3. CASE HandleError /\ Position(Head(down).ref) # 0
    BY <2>3, TakenKept DEF HandleError
  <2> QED
    BY <2>1, <2>2, <2>3
<1> QED
  BY <1>1, <1>2, <1>3, AgreedKept

(* ... so does a snapshot ... *)
LEMMA InitDocAgreed ==
    ASSUME TypeInv, Inv, Agreed, InitDoc
    PROVE  Agreed'
<1>1. /\ down # <<>> /\ down' = Tail(down) /\ link # "down"
      /\ up' = up \o buffered
      /\ pending' = [i \in DOMAIN buffered |->
                       Entry(buffered[i].id, buffered[i].ops, FALSE, NoState, FALSE)]
  BY DEF InitDoc, Received
<1>2. CASE Online
  <2>1. buffered = <<>>
    BY <1>2 DEF Inv, Held
  <2>2. DOMAIN pending' = {}
    BY <1>1, <2>1, EmptyListed
  <2> QED
    BY <2>2 DEF Agreed
<1>3. CASE ~Online
  <2>1. up' = buffered
    BY <1>1, <1>3, ConcatEmptySeq DEF Inv, Held, TypeInv
  <2>2. link = "pending"
    BY <1>1, <1>3 DEF TypeInv, Online
  <2>3. \A i \in DOMAIN buffered : buffered[i].id \in 1..MaxEdits
    <3>1. \A i \in DOMAIN buffered : buffered[i] \in Request
      BY LenProperties, ElementOfSeq DEF TypeInv
    <3> QED
      BY <3>1 DEF Request
  <2>4. DOMAIN buffered = 1..Len(buffered) /\ Len(buffered) \in Nat
    BY LenProperties DEF TypeInv
  <2>5. ASSUME NEW k \in DOMAIN pending', NEW i \in DOMAIN up', up'[i].id = pending'[k].id
        PROVE  up'[i].ops = pending'[k].ops
    <3>1. /\ k \in DOMAIN buffered /\ i \in DOMAIN buffered
          /\ buffered[i].id = buffered[k].id /\ pending'[k].ops = buffered[k].ops
      BY <1>1, <2>1, <2>5 DEF Entry
    <3>2. ~(i < k) /\ ~(k < i)
      BY <2>3, <3>1 DEF Inv, Held, Sorted
    <3>3. i = k
      BY <2>4, <3>1, <3>2
    <3> QED
      BY <2>1, <3>1, <3>3
  <2>6. ASSUME NEW k \in DOMAIN pending', NEW i \in DOMAIN down',
               down'[i].type = "patch", down'[i].ref = pending'[k].id
        PROVE  FALSE
    <3>1. PICK j \in DOMAIN down : down'[i] = down[j]
      BY <1>1, TailElements DEF TypeInv
    <3>2. Ref(down[j]) = 0
      BY <2>2 DEF Inv, Linked
    <3>3. pending'[k].id \in 1..MaxEdits
      BY <1>1, <2>3 DEF Entry
    <3> QED
      BY <2>6, <3>1, <3>2, <3>3 DEF Ref
  <2> QED
    BY <2>5, <2>6 DEF Agreed
<1> QED
  BY <1>2, <1>3

(* ... a break or a new connection asks again for what waits ... *)
LEMMA LinkAgreed ==
    ASSUME Inv, GoOffline \/ Connect
    PROVE  Agreed'
<1>1. DOMAIN pending' = {}
  BY EmptyListed DEF GoOffline, Connect, client, Inv, Held, Online
<1> QED
  BY <1>1 DEF Agreed

(* ... an edit asks for what it queues. *)
LEMMA EditAgreed ==
    ASSUME TypeInv, Inv, Agreed, Edit
    PROVE  Agreed'
<1>1. PICK o, a, g, w : Queued(o, a, g, w)
  BY EditQueued
<1> DEFINE r == [id |-> edits + 1, ops |-> o]
           e == Entry(edits + 1, o, a, g, w)
<1>2. Queue(o, a, g, w) /\ o \in Own /\ e \in KeptOp /\ edits < MaxEdits
  BY <1>1 DEF Queued
<1>3. /\ e.id = edits + 1 /\ e.ops = o /\ r.id = edits + 1 /\ r.ops = o
      /\ r \in Request
  <2>1. edits + 1 \in 1..MaxEdits
    BY <1>2, BoundsAssumption DEF TypeInv
  <2> QED
    BY <1>2, <2>1 DEF Entry, Request
<1>4. /\ down' = down
      /\ IF Online THEN pending' = Append(pending, e) /\ up' = Append(up, r)
         ELSE UNCHANGED <<pending, up>>
  BY <1>2 DEF Queue
<1> HIDE DEF r, e
<1>5. CASE ~Online
  BY <1>4, <1>5 DEF Agreed
<1>6. CASE Online
  <2>1. /\ \A k \in DOMAIN pending' : (\E j \in DOMAIN pending : pending'[k] = pending[j])
                                       \/ pending'[k] = e
        /\ \A i \in DOMAIN up' : (\E j \in DOMAIN up : up'[i] = up[j]) \/ up'[i] = r
    <3>1. pending \in Seq(KeptOp) /\ e \in KeptOp /\ up \in Seq(Request) /\ r \in Request
      BY <1>2, <1>3 DEF TypeInv
    <3>2. \A k \in DOMAIN Append(pending, e) :
             (\E j \in DOMAIN pending : Append(pending, e)[k] = pending[j])
               \/ Append(pending, e)[k] = e
      BY <3>1, AppendElements
    <3>3. \A i \in DOMAIN Append(up, r) :
             (\E j \in DOMAIN up : Append(up, r)[i] = up[j]) \/ Append(up, r)[i] = r
      BY <3>1, AppendElements
    <3> QED
      BY <1>4, <1>6, <3>2, <3>3
  <2>2. /\ \A j \in DOMAIN pending : pending[j].id # edits + 1
        /\ \A j \in DOMAIN up : up[j].id # edits + 1
        /\ \A j \in DOMAIN down : down[j].type = "patch" => down[j].ref # edits + 1
    <3>1. edits \in Nat /\ Ids(pending) \subseteq 1..edits /\ Ids(up) \subseteq 1..edits
          /\ decided \subseteq 1..edits
      BY DEF Inv, Held, Made, Lists
    <3>2. \A j \in DOMAIN down : Ref(down[j]) \in {0} \cup decided
      BY DEF Inv, Rising
    <3> QED
      BY <3>1, <3>2 DEF Ids, Ref
  <2>3. ASSUME NEW k \in DOMAIN pending', NEW i \in DOMAIN up', up'[i].id = pending'[k].id
        PROVE  up'[i].ops = pending'[k].ops
    <3>1. CASE pending'[k] = e
      BY <1>3, <2>1, <2>2, <2>3, <3>1
    <3>2. CASE \E j \in DOMAIN pending : pending'[k] = pending[j]
      BY <1>3, <2>1, <2>2, <2>3, <3>2 DEF Agreed
    <3> QED
      BY <2>1, <3>1, <3>2
  <2>4. ASSUME NEW k \in DOMAIN pending', NEW i \in DOMAIN down',
               down'[i].type = "patch", down'[i].ref = pending'[k].id
        PROVE  Fulfils(pending'[k].ops, down'[i].ops)
    BY <1>3, <1>4, <2>1, <2>2, <2>4 DEF Agreed
  <2> QED
    BY <2>3, <2>4 DEF Agreed
<1> QED
  BY <1>5, <1>6

(* Every step keeps requests, answers and operations in agreement. *)
LEMMA NextAgreed ==
    ASSUME TypeInv, Inv, Normal, Agreed, Tally \notin Nodes, [Next]_vars
    PROVE  Agreed'
<1>1. CASE UNCHANGED vars
  BY <1>1 DEF vars, client, Agreed
<1>2. CASE Next
  BY <1>2, EditAgreed, ServeAgreed, ServerAgreed, ClientAgreed, InitDocAgreed, LinkAgreed
     DEF Next, Inv
<1> QED
  BY <1>1, <1>2

-----------------------------------------------------------------------------
(* What the client shows.                                                  *)

Uncovered(x) == \A i \in DOMAIN pending : ~Covers(pending[i], x)

Overlays(x) ==
    /\ \A i \in DOMAIN pending : LastWrite(i, x) => local.val[x] = pending[i].ops.state[x]
    /\ Uncovered(x) => local.val[x] = base.val[x]

Shown ==
    Online /\ ~rejected => \A x \in ToSet(local.order) : Recreated(x) \/ Overlays(x)

(* A patch whose state is masked as the operations that stay pending ask.  *)
LEMMA PatchShown ==
    ASSUME TypeInv, NEW o \in Commit, NEW s \in State, NEW x \in Nodes,
           local' = Lenient(local, Masked(o, s)), base' = Lenient(base, o),
           x \in ToSet(local'.order),
           x \in ToSet(local.order) => Overlays(x),
           x \notin ToSet(local.order) => ~WritesTo(x),
           \A y \in DOMAIN s : y \in DOMAIN o.state /\ s[y] = o.state[y],
           x \in DOMAIN s => ~WritesTo(x)',
           Uncovered(x)' /\ x \in DOMAIN o.state => x \in DOMAIN s,
           \A i \in DOMAIN pending' : LastWrite(i, x)' =>
              \E j \in DOMAIN pending : LastWrite(j, x) /\ pending'[i].ops = pending[j].ops,
           Uncovered(x)' /\ x \notin DOMAIN o.state => Uncovered(x),
           Uncovered(x)' /\ Skips(local, o) => Uncovered(x)
    PROVE  Overlays(x)'
<1>1. o \in Ops /\ Wire(o) /\ Sound(local) /\ Sound(base) /\ base.order = local.order
  BY CommitIs DEF TypeInv
<1> DEFINE w == Masked(o, s)
<1>2. /\ Wire(w) /\ w.state = s /\ Settled(local.order, w) = Settled(local.order, o)
      /\ Skips(local, w) <=> Skips(local, o)
  BY <1>1, MaskedIs
<1>3. Skips(base, o) <=> Skips(local, o)
  BY <1>1 DEF Skips
<1> HIDE DEF w
<1>4. /\ local'.order = Settled(local.order, o)
      /\ Skips(local, o) => local' = local
      /\ ~Skips(local, o) => local'.val[x] = After(w, local.val, x)
  <2>1. /\ Lenient(local, w).order = Settled(local.order, w)
        /\ Skips(local, w) => Lenient(local, w) = local
        /\ ~Skips(local, w) => \A y \in Nodes : Lenient(local, w).val[y] =
              IF y \in ToSet(Settled(local.order, w)) THEN After(w, local.val, y) ELSE 0
    BY <1>1, <1>2, LenientIs
  <2> QED
    BY <1>2, <2>1 DEF w
<1>5. /\ Skips(local, o) => base' = base
      /\ ~Skips(local, o) => base'.val[x] = After(o, base.val, x)
  <2>1. /\ Lenient(base, o).order = Settled(base.order, o)
        /\ Skips(base, o) => Lenient(base, o) = base
        /\ ~Skips(base, o) => \A y \in Nodes : Lenient(base, o).val[y] =
              IF y \in ToSet(Settled(base.order, o)) THEN After(o, base.val, y) ELSE 0
    BY <1>1, LenientIs
  <2> QED
    BY <1>1, <1>3, <1>4, <2>1
<1>6. ASSUME NEW i \in DOMAIN pending', LastWrite(i, x)'
      PROVE  local'.val[x] = pending'[i].ops.state[x]
  <2>1. PICK j \in DOMAIN pending : LastWrite(j, x) /\ pending'[i].ops = pending[j].ops
    BY <1>6
  <2>2. x \in ToSet(local.order)
    BY <2>1 DEF WritesTo, LastWrite
  <2>3. local.val[x] = pending'[i].ops.state[x]
    BY <2>1, <2>2 DEF Overlays
  <2>4. x \notin DOMAIN s
    BY <1>6 DEF WritesTo, LastWrite, Covers
  <2> QED
    BY <1>2, <1>4, <2>3, <2>4 DEF After
<1>7. ASSUME Uncovered(x)'
      PROVE  local'.val[x] = base'.val[x]
  <2>1. CASE Skips(local, o)
    <3>1. Uncovered(x)
      BY <1>7, <2>1
    <3>2. x \in ToSet(local.order)
      BY <1>4, <2>1
    <3> QED
      BY <1>4, <1>5, <2>1, <3>1, <3>2 DEF Overlays
  <2>2. CASE ~Skips(local, o) /\ x \in DOMAIN o.state
    BY <1>2, <1>4, <1>5, <1>7, <2>2 DEF After
  <2>3. CASE ~Skips(local, o) /\ x \notin DOMAIN o.state
    <3>1. Uncovered(x) /\ x \notin DOMAIN s
      BY <1>7, <2>3
    <3>2. local.val[x] = base.val[x]
      <4>1. CASE x \in ToSet(local.order)
        BY <3>1, <4>1 DEF Overlays
      <4>2. CASE x \notin ToSet(local.order)
        BY <1>1, <4>2 DEF Sound
      <4> QED
        BY <4>1, <4>2
    <3> QED
      BY <1>2, <1>4, <1>5, <2>3, <3>1, <3>2 DEF After
  <2> QED
    BY <2>1, <2>2, <2>3
<1> QED
  BY <1>6, <1>7 DEF Overlays

(* The fields of a masked patch are those no pending operation covers. *)
LEMMA MaskHas ==
    ASSUME NEW s \in State, NEW rest, NEW b
    PROVE  /\ Mask(s, rest, b) \in State
           /\ \A x : x \in DOMAIN Mask(s, rest, b) <=>
                 x \in DOMAIN s /\ \A i \in DOMAIN rest :
                     ~(Covers(rest[i], x) /\ (rest[i].applied \/ ~b))
           /\ \A x \in DOMAIN Mask(s, rest, b) : Mask(s, rest, b)[x] = s[x]
<1> DEFINE P(x) == \A i \in DOMAIN rest : ~(Covers(rest[i], x) /\ (rest[i].applied \/ ~b))
           D    == {x \in DOMAIN s : P(x)}
<1>1. Mask(s, rest, b) = [x \in D |-> s[x]]
  BY DEF Mask
<1>2. Mask(s, rest, b) \in State
  BY MaskIs
<1> HIDE DEF P
<1>3. \A x : x \in D <=> x \in DOMAIN s /\ P(x)
  OBVIOUS
<1> HIDE DEF D
<1>4. /\ \A x : x \in DOMAIN Mask(s, rest, b) <=> x \in DOMAIN s /\ P(x)
      /\ \A x \in DOMAIN Mask(s, rest, b) : Mask(s, rest, b)[x] = s[x]
  BY <1>1, <1>3
<1> QED
  BY <1>2, <1>4 DEF P

(* A node that a patch brings, or brings again, is new to the client, but  *)
(* for those that a break may have made come twice.                        *)
LEMMA InsertedUnseen ==
    ASSUME TypeInv, Inv, Once, HandlePatch, NEW x \in Nodes, Inserts(Head(down).ops, x)
    PROVE  Recreated(x) \/ Unseen(x)
<1> DEFINE o == Head(down).ops
<1>1. /\ 1 \in DOMAIN down /\ Head(down) = down[1] /\ Head(down).type = "patch"
      /\ o \in Commit
  BY PatchEffect
<1>2. x \notin ToSet(Start)
  BY <1>1 DEF Commit, Inserts
<1>3. CASE breaks = 0
  <2>1. Tells(1, x)
    BY <1>1 DEF Tells
  <2> QED
    BY <1>3, <2>1 DEF Once, Single
<1>4. CASE breaks # 0
  BY <1>2, <1>4 DEF Recreated, TypeInv
<1> QED
  BY <1>3, <1>4

(* A patch of somebody else changes what is shown as it changes what is    *)
(* under it ...                                                            *)
LEMMA ForeignShown ==
    ASSUME TypeInv, Inv, Once, Shown, HandlePatch, Online, ~rejected,
           Position(Head(down).ref) = 0
    PROVE  Shown'
<1> DEFINE o == Head(down).ops
           s == Mask(o.state, pending, FALSE)
<1>1. /\ o \in Commit /\ UNCHANGED breaks
      /\ local'.order = Settled(local.order, o)
  BY PatchEffect
<1>2. Foreign(o) /\ base' = Lenient(base, o)
  BY DEF HandlePatch
<1>3. local' = Lenient(local, Masked(o, s)) /\ pending' = Refresh(o.state, pending)
  BY <1>2 DEF Foreign, Masked
<1>4. /\ s \in State
      /\ \A x : x \in DOMAIN s <=> x \in DOMAIN o.state /\ Uncovered(x)
      /\ \A x \in DOMAIN s : s[x] = o.state[x]
  <2>1. o.state \in State
    BY <1>1, CommitIs
  <2>2. /\ s \in State
        /\ \A x : x \in DOMAIN s <=>
              x \in DOMAIN o.state /\ \A i \in DOMAIN pending :
                  ~(Covers(pending[i], x) /\ (pending[i].applied \/ ~FALSE))
        /\ \A x \in DOMAIN s : s[x] = o.state[x]
    BY <2>1, MaskHas
  <2> HIDE DEF s
  <2> QED
    BY <2>2 DEF Uncovered
<1>5. /\ DOMAIN pending' = DOMAIN pending
      /\ \A k \in DOMAIN pending : /\ pending'[k].applied = pending[k].applied
                                   /\ pending'[k].ops = pending[k].ops
  <2>1. DOMAIN pending' = DOMAIN pending
    BY <1>3 DEF Refresh
  <2> QED
    BY <1>3, <2>1, RefreshKept
<1>6. \A x : (Uncovered(x)' <=> Uncovered(x)) /\ (WritesTo(x)' <=> WritesTo(x))
  BY <1>5 DEF Uncovered, WritesTo, Covers
<1>7. \A x : \A i \in DOMAIN pending' : LastWrite(i, x)' => LastWrite(i, x)
  BY <1>5 DEF LastWrite, Covers
<1> HIDE DEF s, o
<1>8. ASSUME NEW x \in ToSet(local'.order), ~Recreated(x)'
      PROVE  Overlays(x)'
  <2>1. x \in ToSet(local.order) \/ Inserts(o, x)
    BY <1>1, <1>8, CommitIs, SettledHolds DEF TypeInv, Sound
  <2>2. Sound(local')
    <3>1. o \in Ops /\ Wire(o) /\ Sound(local)
      BY <1>1, CommitIs DEF TypeInv
    <3>2. Wire(Masked(o, s))
      BY <1>4, <3>1, MaskedIs
    <3> QED
      BY <1>3, <3>1, <3>2, LenientIs
  <2>3. x \in Nodes
    BY <2>2, OrderIs DEF Sound, Order
  <2>4. ~Recreated(x)
    BY <1>1, <1>8 DEF Recreated
  <2>5. x \in ToSet(local.order) => Overlays(x)
    BY <2>4 DEF Shown
  <2>6. x \notin ToSet(local.order) => ~WritesTo(x)
    BY <2>1, <2>3, <2>4, InsertedUnseen DEF Unseen, o
  <2>7. \A y \in DOMAIN s : y \in DOMAIN o.state /\ s[y] = o.state[y]
    BY <1>4
  <2>8. x \in DOMAIN s => ~WritesTo(x)'
    BY <1>4, <1>6 DEF WritesTo, Uncovered
  <2>9. Uncovered(x)' /\ x \in DOMAIN o.state => x \in DOMAIN s
    BY <1>4, <1>6 DEF Uncovered
  <2>10. \A i \in DOMAIN pending' : LastWrite(i, x)' =>
            \E j \in DOMAIN pending : LastWrite(j, x) /\ pending'[i].ops = pending[j].ops
    BY <1>5, <1>7
  <2> QED
    BY <1>1, <1>2, <1>3, <1>4, <1>6, <2>3, <2>5, <2>6, <2>7, <2>8, <2>9, <2>10, PatchShown
<1> QED
  BY <1>8 DEF Shown

(* An echo answers the first pending operation, which goes.                *)
LEMMA OwnTaken ==
    ASSUME TypeInv, Inv, Agreed, HandlePatch, Online, Position(Head(down).ref) # 0
    PROVE  /\ Position(Head(down).ref) = 1
           /\ pending' = TakePending(Head(down).ref)
           /\ Len(pending) \in Nat /\ DOMAIN pending = 1..Len(pending)
           /\ 1 \in DOMAIN pending /\ Len(pending) >= 1
           /\ DOMAIN pending' = 1..(Len(pending) - 1)
           /\ \A k \in DOMAIN pending' : pending'[k] = pending[k + 1]
           /\ pending[1] \in KeptOp /\ pending[1].ops \in Own
           /\ Fulfils(pending[1].ops, Head(down).ops)
<1> DEFINE m == Head(down)
           o == m.ops
           e == pending[1]
<1>1. /\ m = down[1] /\ 1 \in DOMAIN down /\ m.type = "patch" /\ down # <<>>
      /\ o \in Commit
  BY PatchEffect
<1>2. Position(m.ref) = 1
  <2>1. Ref(m) = m.ref
    BY <1>1 DEF Ref
  <2> QED
    BY <1>1, <2>1, FirstIsAnswered
<1>3. Confirm(e, o, TakePending(m.ref)) \/ Land(e, o, TakePending(m.ref))
  BY <1>2 DEF HandlePatch
<1>4. pending' = TakePending(m.ref) /\ e \in KeptOp
  BY <1>2, <1>3, TakePendingSeq DEF Confirm, Land
<1>6. /\ Len(pending) \in Nat /\ DOMAIN pending = 1..Len(pending)
      /\ 1 \in DOMAIN pending /\ Len(pending) >= 1
      /\ DOMAIN pending' = 1..(Len(pending) - 1)
      /\ \A k \in DOMAIN pending' : pending'[k] = pending[k + 1]
  <2>1. Listed(pending) /\ Position(m.ref) \in 0..Len(pending)
    BY PositionIs DEF Inv, Lists, Held
  <2>2. Len(pending) \in Nat /\ DOMAIN pending = 1..Len(pending) /\ 1 \in 1..Len(pending)
    BY <1>2, <2>1, ListedIs
  <2>3. 2 \in 1..(Len(pending) + 1) /\ Len(pending) \in (2 - 1)..Len(pending)
    BY <2>2
  <2>4. pending' = SubSeq(pending, 2, Len(pending))
    BY <1>2, <1>4 DEF TakePending
  <2>5. /\ Listed(pending') /\ Len(pending') = Len(pending) - 2 + 1
        /\ \A i \in 1..(Len(pending) - 2 + 1) : pending'[i] = pending[2 + i - 1]
    BY <2>1, <2>3, <2>4, ListedSub
  <2>6. DOMAIN pending' = 1..(Len(pending) - 1)
    <3>1. Len(pending') = Len(pending) - 1
      BY <2>2, <2>5
    <3> QED
      BY <2>5, <3>1, ListedIs
  <2>7. \A k \in 1..(Len(pending) - 1) : pending'[k] = pending[k + 1]
    <3> SUFFICES ASSUME NEW k \in 1..(Len(pending) - 1)
                 PROVE  pending'[k] = pending[k + 1]
      OBVIOUS
    <3>1. k \in 1..(Len(pending) - 2 + 1) /\ 2 + k - 1 = k + 1
      BY <2>2
    <3> QED
      BY <2>5, <3>1
  <2> QED
    BY <2>2, <2>6, <2>7
<1>7. pending[1].id = m.ref
  <2>1. Position(m.ref) # 0
    BY <1>2
  <2> QED
    BY <1>2, <2>1, PositionIs DEF Inv, Lists, Held
<1>8. Fulfils(e.ops, o) /\ e.ops \in Own
  BY <1>1, <1>4, <1>6, <1>7 DEF Agreed, KeptOp
<1> QED
  BY <1>2, <1>4, <1>6, <1>8

(* ... and an echo leaves what was shown of the operation it confirms. *)
LEMMA OwnShown ==
    ASSUME TypeInv, Inv, Once, Agreed, Shown, HandlePatch, Online, ~rejected,
           Position(Head(down).ref) # 0
    PROVE  Shown'
<1> DEFINE m == Head(down)
           o == m.ops
           e == pending[1]
           s == Mask(o.state, pending', ~e.applied)
<1>1. /\ m = down[1] /\ 1 \in DOMAIN down /\ m.type = "patch" /\ down # <<>>
      /\ o \in Commit /\ UNCHANGED breaks /\ local'.order = Settled(local.order, o)
  BY PatchEffect
<1>2. Position(m.ref) = 1
  BY OwnTaken
<1>3. /\ base' = Lenient(base, o)
      /\ Confirm(e, o, TakePending(m.ref)) \/ Land(e, o, TakePending(m.ref))
  BY <1>2 DEF HandlePatch
<1>4. /\ pending' = TakePending(m.ref) /\ local' = Lenient(local, Masked(o, s))
      /\ e \in KeptOp
  <2>1. pending' = TakePending(m.ref)
    BY <1>3 DEF Confirm, Land
  <2>2. e \in KeptOp
    BY <1>2, TakePendingSeq
  <2>3. CASE Confirm(e, o, TakePending(m.ref))
    <3>1. e.applied = TRUE
      BY <2>2, <2>3 DEF Confirm, KeptOp
    <3>2. local' = Lenient(local, Masked(o, Mask(o.state, pending', FALSE)))
      BY <2>1, <2>3 DEF Confirm, Masked
    <3> QED
      BY <2>1, <2>2, <3>1, <3>2
  <2>4. CASE Land(e, o, TakePending(m.ref))
    <3>1. e.applied = FALSE
      BY <2>2, <2>4 DEF Land, KeptOp
    <3>2. local' = Lenient(local, Masked(o, Mask(o.state, pending', TRUE)))
      BY <2>1, <2>4 DEF Land, Masked
    <3> QED
      BY <2>1, <2>2, <3>1, <3>2
  <2> QED
    BY <1>3, <2>3, <2>4
<1>5. /\ s \in State
      /\ \A x : x \in DOMAIN s <=>
            x \in DOMAIN o.state /\ \A i \in DOMAIN pending' :
                ~(Covers(pending'[i], x) /\ (pending'[i].applied \/ e.applied))
      /\ \A x \in DOMAIN s : s[x] = o.state[x]
  <2>1. o.state \in State /\ e.applied \in BOOLEAN
    BY <1>1, <1>4, CommitIs DEF KeptOp
  <2>2. /\ s \in State
        /\ \A x : x \in DOMAIN s <=>
              x \in DOMAIN o.state /\ \A i \in DOMAIN pending' :
                  ~(Covers(pending'[i], x) /\ (pending'[i].applied \/ ~(~e.applied)))
        /\ \A x \in DOMAIN s : s[x] = o.state[x]
    <3> DEFINE b == ~e.applied
               q == pending'
    <3>1. /\ Mask(o.state, q, b) \in State
          /\ \A x : x \in DOMAIN Mask(o.state, q, b) <=>
                x \in DOMAIN o.state /\ \A i \in DOMAIN q :
                    ~(Covers(q[i], x) /\ (q[i].applied \/ ~b))
          /\ \A x \in DOMAIN Mask(o.state, q, b) : Mask(o.state, q, b)[x] = o.state[x]
      <4> HIDE DEF b, q, o, e, s
      <4> QED
        BY <2>1, MaskHas
    <3> HIDE DEF o, e
    <3> QED
      BY <3>1
  <2> HIDE DEF s, e
  <2> QED
    BY <2>1, <2>2
<1>6. /\ Len(pending) \in Nat /\ DOMAIN pending = 1..Len(pending)
      /\ 1 \in DOMAIN pending /\ Len(pending) >= 1
      /\ DOMAIN pending' = 1..(Len(pending) - 1)
      /\ \A k \in DOMAIN pending' : pending'[k] = pending[k + 1]
  BY OwnTaken
<1>8. Fulfils(e.ops, o) /\ e.ops \in Own
  BY OwnTaken
<1> HIDE DEF s, e, o, m
<1>9. \A k : k \in DOMAIN pending <=> k = 1 \/ (k \in Nat /\ k - 1 \in DOMAIN pending')
  BY <1>6
<1>10. ASSUME NEW x, Uncovered(x)', ~Covers(e, x)
       PROVE  Uncovered(x)
  <2> SUFFICES ASSUME NEW k \in DOMAIN pending, Covers(pending[k], x)
               PROVE  FALSE
    BY DEF Uncovered
  <2>1. k # 1
    BY <1>10 DEF e
  <2>2. k - 1 \in DOMAIN pending' /\ k \in Nat
    BY <1>9, <2>1
  <2>3. pending'[k - 1] = pending[(k - 1) + 1] /\ (k - 1) + 1 = k
    BY <1>6, <2>2
  <2> QED
    BY <1>10, <2>2, <2>3 DEF Uncovered, Covers
<1>11. ASSUME NEW x, NEW i \in DOMAIN pending', LastWrite(i, x)'
       PROVE  i + 1 \in DOMAIN pending /\ LastWrite(i + 1, x) /\ pending'[i].ops = pending[i + 1].ops
  <2>1. i + 1 \in DOMAIN pending /\ pending'[i] = pending[i + 1] /\ i \in Nat
    BY <1>6
  <2>2. pending[i + 1].applied /\ Covers(pending[i + 1], x)
    BY <1>11, <2>1 DEF LastWrite, Covers
  <2>3. ASSUME NEW j \in DOMAIN pending, j > i + 1, pending[j].applied, Covers(pending[j], x)
        PROVE  FALSE
    <3>1. j - 1 \in DOMAIN pending' /\ j - 1 > i /\ (j - 1) + 1 = j
      BY <1>6, <2>1, <2>3
    <3>2. pending'[j - 1] = pending[j]
      BY <1>6, <3>1
    <3> QED
      BY <1>11, <2>3, <3>1, <3>2 DEF LastWrite, Covers
  <2> QED
    BY <2>1, <2>2, <2>3 DEF LastWrite
<1>12. ASSUME NEW x \in ToSet(local'.order), ~Recreated(x)'
       PROVE  Overlays(x)'
  <2>1. x \in ToSet(local.order) \/ Inserts(o, x)
    BY <1>1, <1>12, CommitIs, SettledHolds DEF TypeInv, Sound
  <2>2. Sound(local')
    <3>1. o \in Ops /\ Wire(o) /\ Sound(local)
      BY <1>1, CommitIs DEF TypeInv
    <3>2. Wire(Masked(o, s))
      BY <1>5, <3>1, MaskedIs
    <3> QED
      BY <1>4, <3>1, <3>2, LenientIs
  <2>3. x \in Nodes
    BY <2>2, OrderIs DEF Sound, Order
  <2>4. ~Recreated(x)
    BY <1>1, <1>12 DEF Recreated
  <2>5. Inserts(o, x) => Unseen(x)
    BY <2>3, <2>4, InsertedUnseen DEF o, m
  <2>6. x \in ToSet(local.order) => Overlays(x)
    BY <2>4 DEF Shown
  <2>7. x \notin ToSet(local.order) => ~WritesTo(x)
    BY <2>1, <2>5 DEF Unseen
  <2>8. \A y \in DOMAIN s : y \in DOMAIN o.state /\ s[y] = o.state[y]
    BY <1>5
  <2>9. x \in DOMAIN s => ~WritesTo(x)'
    BY <1>5 DEF WritesTo, Covers
  <2>10. Uncovered(x)' /\ x \in DOMAIN o.state => x \in DOMAIN s
    BY <1>5 DEF Uncovered, Covers
  <2>11. \A i \in DOMAIN pending' : LastWrite(i, x)' =>
            \E j \in DOMAIN pending : LastWrite(j, x) /\ pending'[i].ops = pending[j].ops
    BY <1>11
  <2>12. Uncovered(x)' /\ x \notin DOMAIN o.state => Uncovered(x)
    BY <1>8, <1>10 DEF Fulfils, Covers
  <2>13. ASSUME Uncovered(x)', Skips(local, o)
         PROVE  Uncovered(x)
    <3>1. o.kind = "insert" /\ o.node \in ToSet(local.order)
      BY <2>13, OrderIs DEF Skips, TypeInv, Sound, Order
    <3>2. x # o.node
      BY <2>5, <3>1 DEF Inserts, Unseen
    <3>3. DOMAIN e.ops.state = {o.node}
      BY <1>8, <3>1, OwnIs DEF Fulfils, Shape
    <3>4. ~Covers(e, x)
      BY <3>2, <3>3 DEF Covers
    <3> QED
      BY <1>10, <2>13, <3>4
  <2> QED
    BY <1>1, <1>3, <1>4, <1>5, <2>3, <2>6, <2>7, <2>8, <2>9, <2>10, <2>11, <2>12, <2>13,
       PatchShown
<1> QED
  BY <1>12 DEF Shown

(* A step that leaves the client's lists and documents alone shows the     *)
(* same ...                                                                *)
LEMMA ShownKept ==
    ASSUME Shown, UNCHANGED <<local, base, pending, link, rejected, breaks>>
    PROVE  Shown'
BY DEF Shown, Overlays, Uncovered, LastWrite, Covers, Recreated, Online

(* ... a snapshot shows itself: what it replays waits for its echo ... *)
LEMMA InitDocShown ==
    ASSUME InitDoc
    PROVE  Shown'
<1>1. local' = Head(down).doc /\ base' = Head(down).doc
      /\ pending' = [i \in DOMAIN buffered |->
                       Entry(buffered[i].id, buffered[i].ops, FALSE, NoState, FALSE)]
  BY DEF InitDoc
<1>2. \A i \in DOMAIN pending' : pending'[i].applied = FALSE
  BY <1>1 DEF Entry
<1>3. \A x : \A i \in DOMAIN pending' : ~LastWrite(i, x)'
  BY <1>2 DEF LastWrite
<1> QED
  BY <1>1, <1>3 DEF Shown, Overlays

(* ... an edit shows the value written. *)
LEMMA EditShown ==
    ASSUME TypeInv, Shown, Edit
    PROVE  Shown'
<1>1. PICK o, a, g, w : Queued(o, a, g, w)
  BY EditQueued
<1> DEFINE e == Entry(edits + 1, o, a, g, w)
<1>2. /\ UNCHANGED <<base, link, rejected, breaks>>
      /\ Online => pending' = Append(pending, e)
      /\ o \in Own /\ e \in KeptOp
  BY <1>1 DEF Queued, Queue
<1>3. e.applied = a /\ e.ops = o
  BY DEF Entry
<1> HIDE DEF e
<1>4. local'.order = local.order
  BY <1>1, WrittenOrder
<1> SUFFICES ASSUME Online, ~rejected, NEW x \in ToSet(local.order), Overlays(x)
             PROVE  Overlays(x)'
  BY <1>2, <1>4 DEF Shown, Recreated, Online
<1>5. /\ DOMAIN pending = 1..Len(pending) /\ Len(pending) \in Nat
      /\ DOMAIN pending' = 1..(Len(pending) + 1)
      /\ \A i \in 1..Len(pending) : pending'[i] = pending[i]
      /\ pending'[Len(pending) + 1] = e
  <2>1. pending \in Seq(KeptOp) /\ e \in KeptOp /\ pending' = Append(pending, e)
    BY <1>2 DEF TypeInv
  <2> QED
    BY <2>1, AppendedAt
<1>6. ASSUME NEW i \in DOMAIN pending', LastWrite(i, x)'
      PROVE  \/ i = Len(pending) + 1 /\ a /\ x \in DOMAIN o.state
             \/ i \in DOMAIN pending /\ LastWrite(i, x) /\ ~(a /\ x \in DOMAIN o.state)
  <2>1. CASE i = Len(pending) + 1
    BY <1>3, <1>5, <1>6, <2>1 DEF LastWrite, Covers
  <2>2. CASE i \in 1..Len(pending)
    <3>1. LastWrite(i, x)
      BY <1>5, <1>6, <2>2 DEF LastWrite, Covers
    <3>2. ~(a /\ x \in DOMAIN o.state)
      <4>1. Len(pending) + 1 \in DOMAIN pending' /\ Len(pending) + 1 > i
        BY <1>5, <2>2
      <4> QED
        BY <1>3, <1>5, <1>6, <4>1 DEF LastWrite, Covers
    <3> QED
      BY <1>5, <2>2, <3>1, <3>2
  <2> QED
    BY <1>5, <2>1, <2>2
<1>7. Uncovered(x)' => Uncovered(x) /\ x \notin DOMAIN o.state
  <2> SUFFICES ASSUME Uncovered(x)'
               PROVE  Uncovered(x) /\ x \notin DOMAIN o.state
    OBVIOUS
  <2>1. \A i \in 1..Len(pending) : i \in 1..(Len(pending) + 1)
    BY <1>5
  <2>2. Len(pending) + 1 \in 1..(Len(pending) + 1)
    BY <1>5
  <2> QED
    BY <1>3, <1>5, <2>1, <2>2 DEF Uncovered, Covers
<1>8. /\ a /\ x \in DOMAIN o.state => local'.val[x] = o.state[x]
      /\ ~(a /\ x \in DOMAIN o.state) => local'.val[x] = local.val[x]
  <2>1. CASE a
    <3>1. local' = Applied(local, o) /\ Placed(local.order, o) = local.order
      <4>1. o.kind = "none"
        BY <1>1, <2>1, WrittenOrder
      <4> QED
        BY <1>1, <2>1, <4>1 DEF Queued, Placed
    <3>2. Wire(o) /\ o.kind # "insert" /\ Sound(local) /\ x \in Nodes
      BY <1>1, <1>2, <2>1, OwnIs, OrderIs, WrittenOrder DEF TypeInv, Sound, Order
    <3>3. \A y \in Nodes : Applied(local, o).val[y] =
             IF y \in ToSet(Placed(local.order, o)) THEN After(o, local.val, y) ELSE 0
      BY <3>2, AppliedIs
    <3>4. local'.val[x] = After(o, local.val, x)
      BY <3>1, <3>2, <3>3
    <3> QED
      BY <2>1, <3>4 DEF After
  <2>2. CASE ~a
    BY <1>1, <2>2 DEF Queued
  <2> QED
    BY <2>1, <2>2
<1>9. ASSUME NEW i \in DOMAIN pending', LastWrite(i, x)'
      PROVE  local'.val[x] = pending'[i].ops.state[x]
  <2>1. CASE i = Len(pending) + 1 /\ a /\ x \in DOMAIN o.state
    BY <1>3, <1>5, <1>8, <2>1
  <2>2. CASE i \in DOMAIN pending /\ LastWrite(i, x) /\ ~(a /\ x \in DOMAIN o.state)
    BY <1>5, <1>8, <2>2 DEF Overlays
  <2> QED
    BY <1>6, <1>9, <2>1, <2>2
<1>10. Uncovered(x)' => local'.val[x] = base'.val[x]
  BY <1>2, <1>7, <1>8 DEF Overlays
<1> QED
  BY <1>9, <1>10 DEF Overlays

(* Every step keeps what the client shows. *)
LEMMA NextShown ==
    ASSUME TypeInv, Inv, Once, Agreed, Shown, [Next]_vars
    PROVE  Shown'
<1>1. CASE UNCHANGED vars
  BY <1>1, ShownKept DEF vars, client, counts
<1>2. CASE Serve \/ SendError \/ Resync
  BY <1>2, ShownKept DEF Serve, SendError, Resync, client, counts
<1>3. CASE ServeGhost \/ HostCommit
  BY <1>3, ShownKept DEF ServeGhost, HostCommit, Broadcast, client, counts
<1>4. CASE HandlePatch
  <2>1. CASE Online /\ ~rejected
    BY <1>4, <2>1, ForeignShown, OwnShown
  <2>2. CASE ~(Online /\ ~rejected)
    BY <1>4, <2>2 DEF HandlePatch, Shown, Online
  <2> QED
    BY <2>1, <2>2
<1>5. CASE HandleError
  BY <1>5 DEF HandleError, Shown
<1>6. CASE GoOffline \/ Connect
  BY <1>6 DEF GoOffline, Connect, Shown, Online
<1> QED
  BY <1>1, <1>2, <1>3, <1>4, <1>5, <1>6, InitDocShown, EditShown DEF Next

(* A field that a pending write covers has a last such write. *)
LEMMA LastWriteExists ==
    ASSUME TypeInv, NEW x, WritesTo(x)
    PROVE  \E i \in DOMAIN pending : LastWrite(i, x)
<1>1. DOMAIN pending = 1..Len(pending) /\ Len(pending) \in Nat
  BY LenProperties DEF TypeInv
<1> DEFINE P(i) == i \in DOMAIN pending /\ pending[i].applied /\ Covers(pending[i], x)
           I == {j \in Nat : P(Len(pending) - j)}
<1>2. PICK k : P(k)
  BY DEF WritesTo
<1>3. Len(pending) - k \in I
  <2>1. Len(pending) - k \in Nat /\ Len(pending) - (Len(pending) - k) = k
    BY <1>1, <1>2
  <2> QED
    BY <1>2, <2>1
<1>4. Min(I) \in I /\ \A y \in I : Min(I) <= y
  <2>1. I \subseteq Nat /\ I # {}
    BY <1>3
  <2> HIDE DEF I
  <2> QED
    BY <2>1, LeastIs
<1> DEFINE i == Len(pending) - Min(I)
<1>5. P(i) /\ Min(I) \in Nat
  BY <1>4
<1>6. ASSUME NEW j \in DOMAIN pending, j > i, pending[j].applied, Covers(pending[j], x)
      PROVE  FALSE
  <2>1. Len(pending) - j \in I
    <3>1. Len(pending) - j \in Nat /\ Len(pending) - (Len(pending) - j) = j
      BY <1>1
    <3> QED
      BY <1>6, <3>1
  <2>2. Min(I) <= Len(pending) - j
    BY <1>4, <2>1
  <2> HIDE DEF I, P
  <2> QED
    BY <1>1, <1>5, <1>6, <2>2
<1> QED
  BY <1>5, <1>6 DEF LastWrite

(* At first the client shows the snapshot. *)
LEMMA InitShown == Init => Shown
<1> SUFFICES ASSUME Init
             PROVE  Shown
  OBVIOUS
<1>1. DOMAIN pending = {} /\ local = base
  BY EmptyListed DEF Init
<1> QED
  BY <1>1 DEF Shown, Overlays

(* What the client shows is what Optimistic says. *)
LEMMA ShownOptimistic == TypeInv /\ Shown => Optimistic
<1> SUFFICES ASSUME TypeInv, Shown, Online, ~rejected,
                    NEW x \in ToSet(local.order), ~BuiltCovers(x), ~Recreated(x)
             PROVE  local.val[x] = Overlaid(x)
  BY TypeInvTypes DEF Optimistic, TypeInv
<1>1. Overlays(x)
  BY DEF Shown
<1>2. CASE \E i \in DOMAIN pending : LastWrite(i, x)
  <2> DEFINE k == CHOOSE i \in DOMAIN pending : LastWrite(i, x)
  <2>1. k \in DOMAIN pending /\ LastWrite(k, x)
    BY <1>2
  <2>2. Overlaid(x) = pending[k].ops.state[x]
    BY <1>2 DEF Overlaid
  <2> HIDE DEF k
  <2> QED
    BY <1>1, <2>1, <2>2 DEF Overlays
<1>3. CASE ~\E i \in DOMAIN pending : LastWrite(i, x)
  <2>1. ~WritesTo(x)
    BY <1>3, LastWriteExists
  <2>2. Uncovered(x)
    BY <2>1 DEF Uncovered, WritesTo, BuiltCovers
  <2>3. Overlaid(x) = base.val[x]
    BY <1>3 DEF Overlaid
  <2> QED
    BY <1>1, <2>2, <2>3 DEF Overlays
<1> QED
  BY <1>2, <1>3

(* A new document is what the normalizer leaves alone. *)
LEMMA InitNormal == Init => Normal
<1> SUFFICES ASSUME Init
             PROVE  Normal
  OBVIOUS
<1>1. Sound(sdoc) /\ Limit >= 0
  BY InitType, ValuesAssumption DEF TypeInv
<1>2. \A x \in Nodes : sdoc.val[x] = 0
  BY DEF Init, Document
<1>3. ToSet(sdoc.order) \subseteq Nodes
  BY <1>1, OrderIs DEF Sound, Order
<1> QED
  BY <1>1, <1>2, <1>3 DEF Normal

(* Every variable has its type and no order holds a node twice, for any    *)
(* number of nodes, values and edits: what LocalDoc keeps of an order is   *)
(* what its linked list can hold.                                          *)
THEOREM TypeCorrect == Spec => []TypeOK
<1>1. Init => Inv /\ TypeInv
  BY InitInv, InitType
<1>2. Inv /\ TypeInv /\ [Next]_vars => (Inv /\ TypeInv)'
  BY NextInv, NextType
<1>3. TypeInv => TypeOK
  BY TypeInvTypes
<1> QED
  BY <1>1, <1>2, <1>3, PTL DEF Spec

(* The client shows the server's values under its own pending writes.      *)
THEOREM ShownOptimistically == ASSUME Tally \notin Nodes PROVE Spec => []Optimistic
<1> DEFINE J == Inv /\ TypeInv /\ Once /\ Normal /\ Agreed /\ Shown
<1>1. Init => J
  BY InitInv, InitType, InitOnce, InitNormal, InitAgreed, InitShown
<1>2. J /\ [Next]_vars => J'
  <2> SUFFICES ASSUME J, [Next]_vars
               PROVE  J'
    OBVIOUS
  <2>1. Inv' /\ TypeInv'
    BY NextInv, NextType
  <2>2. Once'
    BY NextOnce
  <2>3. Normal'
    BY NextNormal
  <2>4. Agreed'
    BY NextAgreed
  <2>5. Shown'
    BY NextShown
  <2> QED
    BY <2>1, <2>2, <2>3, <2>4, <2>5
<1>3. J => Optimistic
  BY ShownOptimistic
<1> QED
  BY <1>1, <1>2, <1>3, PTL DEF Spec

-----------------------------------------------------------------------------
(* A patch that inserts a node tells nothing of others: what a client does *)
(* not insert, because it has the node, tells it nothing.                  *)

Brings(o) == o.kind = "insert" => DOMAIN o.state \subseteq {o.node}
Alone ==
    /\ \A i \in DOMAIN down : down[i].type = "patch" => Brings(down[i].ops)
    /\ \A i \in DOMAIN late : Brings(late[i].ops)

(* What a commit is recorded as tells of no other node when it inserts one *)
(* ...                                                                     *)
LEMMA RecordedBrings ==
    ASSUME Tally \notin Nodes, TypeInv, Normal, NEW o \in Commit, Fits(sdoc, o), Brings(o)
    PROVE  Brings(Recorded(sdoc, o, Committed(sdoc, o)))
<1> DEFINE n == Committed(sdoc, o)
           r == Recorded(sdoc, o, n)
<1>1. o \in Ops /\ Aims(o) /\ Sound(sdoc) /\ Sound(n)
  BY CommitIs, CommittedIs DEF TypeInv
<1>2. \A y \in Wrote(sdoc, o, n) : y \in DOMAIN o.state \/ Inserts(o, y)
  BY WroteOnly
<1> HIDE DEF n
<1>3. /\ DOMAIN r.state = Wrote(sdoc, o, n)
      /\ r.kind = "none" \/ (r.kind = o.kind /\ r.node = o.node)
  <2>1. DOMAIN r.state = Wrote(sdoc, o, n)
    BY <1>1, RecordedIs
  <2>2. CASE n.order = sdoc.order
    BY <2>1, <2>2, PatchIs DEF Recorded
  <2>3. CASE n.order # sdoc.order
    BY <2>1, <2>3 DEF Recorded, Patch
  <2> QED
    BY <2>1, <2>2, <2>3
<1> HIDE DEF r
<1>4. Brings(r)
  BY <1>2, <1>3 DEF Brings, Inserts
<1> QED
  BY <1>4 DEF r, n

(* ... nor does the answer to a request. *)
LEMMA AnswerBrings ==
    ASSUME Tally \notin Nodes, TypeInv, Normal, NEW o \in Own, Applies(sdoc, o)
    PROVE  Brings(Answer(sdoc, o, Committed(sdoc, o)))
<1>1. o \in Commit /\ Fits(sdoc, o) /\ Shape(o)
  BY OwnIs, AppliesFits
<1>2. Brings(o)
  BY <1>1 DEF Shape, Brings
<1>3. CASE Committed(sdoc, o) # sdoc
  BY <1>1, <1>2, <1>3, RecordedBrings DEF Answer
<1>4. CASE Committed(sdoc, o) = sdoc
  BY <1>4, PatchIs DEF Answer, Brings
<1> QED
  BY <1>3, <1>4

(* A step that tells nothing new, or only such patches. *)
LEMMA AloneKept ==
    ASSUME Alone,
           \A i \in DOMAIN down' :
              \/ \E j \in DOMAIN down : down'[i] = down[j]
              \/ down'[i].type # "patch" \/ Brings(down'[i].ops),
           \A i \in DOMAIN late' :
              (\E j \in DOMAIN late : late'[i] = late[j]) \/ Brings(late'[i].ops)
    PROVE  Alone'
<1>1. ASSUME NEW i \in DOMAIN down', down'[i].type = "patch"
      PROVE  Brings(down'[i].ops)
  BY <1>1 DEF Alone
<1>2. ASSUME NEW i \in DOMAIN late'
      PROVE  Brings(late'[i].ops)
  BY DEF Alone
<1> QED
  BY <1>1, <1>2 DEF Alone, Brings

(* A broadcast tells one such patch ... *)
LEMMA BroadcastAlone ==
    ASSUME Tally \notin Nodes, TypeInv, Normal, Alone, NEW o \in Commit, Fits(sdoc, o),
           Brings(o), Broadcast(o)
    PROVE  Alone'
<1> DEFINE m == PatchMsg(0, Recorded(sdoc, o, sdoc'))
<1>1. sdoc' = Committed(sdoc, o) /\ Sound(sdoc')
  BY CommittedIs DEF Broadcast, TypeInv
<1>2. m \in Echo /\ Brings(m.ops)
  BY <1>1, RecordedCommit, RecordedBrings, MessagesAre DEF TypeInv, PatchMsg
<1>3. /\ down' = down \/ down' = Append(down, m)
      /\ late' = late \/ late' = Append(late, m)
  BY DEF Broadcast
<1> HIDE DEF m
<1>4. down \in Seq(Parcel) /\ m \in Parcel /\ late \in Seq(Echo)
  BY <1>2, EchoIs DEF TypeInv
<1>5. /\ \A i \in DOMAIN Append(down, m) :
            (\E j \in DOMAIN down : Append(down, m)[i] = down[j]) \/ Append(down, m)[i] = m
      /\ \A i \in DOMAIN Append(late, m) :
            (\E j \in DOMAIN late : Append(late, m)[i] = late[j]) \/ Append(late, m)[i] = m
  BY <1>2, <1>4, AppendElements
<1>6. \A i \in DOMAIN down' : (\E j \in DOMAIN down : down'[i] = down[j]) \/ Brings(down'[i].ops)
  BY <1>2, <1>3, <1>5
<1>7. \A i \in DOMAIN late' : (\E j \in DOMAIN late : late'[i] = late[j]) \/ Brings(late'[i].ops)
  BY <1>2, <1>3, <1>5
<1> QED
  BY <1>6, <1>7, AloneKept

(* ... the server's answer another ... *)
LEMMA ServeAlone ==
    ASSUME Tally \notin Nodes, TypeInv, Normal, Alone, Serve
    PROVE  Alone'
<1> DEFINE r == Head(up)
           n == Answer(sdoc, r.ops, Committed(sdoc, r.ops))
           m == PatchMsg(r.id, n)
<1>1. r \in Request /\ late' = late
  BY HeadTailSeq DEF Serve, TypeInv
<1>2. r.id \in 1..MaxEdits /\ r.ops \in Own /\ r.ops \in Commit
  BY <1>1, OwnIs DEF Request
<1>3. CASE Applies(sdoc, r.ops) /\ down' = Append(down, m)
  <2>1. m.ops = n /\ Brings(n)
    BY <1>2, <1>3, AnswerBrings DEF PatchMsg
  <2>2. m \in Parcel
    <3>1. Fits(sdoc, r.ops)
      BY <1>2, <1>3, AppliesFits
    <3>2. /\ Sound(Committed(sdoc, r.ops))
          /\ Committed(sdoc, r.ops).order = Placed(sdoc.order, r.ops)
      BY <3>1, CommittedIs DEF TypeInv
    <3>3. n \in Commit
      BY <1>2, <1>3, <3>2, AnswerCommit DEF TypeInv, Applies
    <3> QED
      BY <1>2, <3>3, MessagesAre, BoundsAssumption
  <2> HIDE DEF m, n, r
  <2>3. down \in Seq(Parcel) /\ m \in Parcel
    BY <2>2 DEF TypeInv
  <2>4. \A i \in DOMAIN down' : (\E j \in DOMAIN down : down'[i] = down[j]) \/ down'[i] = m
    BY <1>3, <2>3, AppendElements
  <2> QED
    BY <1>1, <2>1, <2>4, AloneKept
<1>4. CASE down' = down
  BY <1>1, <1>4 DEF Alone
<1> QED
  BY <1>3, <1>4 DEF Serve

(* ... and the steps that move messages about tell none. *)
LEMMA RestAlone ==
    ASSUME TypeInv, Linked, Alone,
           SendError \/ Resync \/ HandlePatch \/ HandleError \/ InitDoc \/ GoOffline \/ Connect
    PROVE  Alone'
<1>1. CASE SendError
  <2> DEFINE m == ErrorMsg(Head(up).id)
  <2>1. up # <<>> /\ down' = Append(down, m) /\ late' = late
    BY <1>1 DEF Linked, SendError
  <2>2. m \in Parcel /\ m.type # "patch"
    <3>1. Head(up) \in Request
      BY <2>1, HeadTailSeq DEF TypeInv
    <3> QED
      BY <3>1, MessagesAre DEF Request, ErrorMsg
  <2> HIDE DEF m
  <2>3. down \in Seq(Parcel) /\ m \in Parcel
    BY <2>2 DEF TypeInv
  <2>4. \A i \in DOMAIN down' : (\E j \in DOMAIN down : down'[i] = down[j]) \/ down'[i] = m
    BY <2>1, <2>3, AppendElements
  <2> QED
    BY <2>1, <2>2, <2>4, AloneKept
<1>2. CASE Resync
  <2> DEFINE m == SnapshotMsg(sdoc)
             s == Append(down, m)
  <2>1. down' = s \o late /\ late' = <<>>
    BY <1>2 DEF Resync
  <2>2. m \in Parcel /\ m.type # "patch"
    BY MessagesAre DEF TypeInv, SnapshotMsg
  <2>3. late \in Seq(Parcel)
    BY EchoIs, SeqMonotonic DEF TypeInv
  <2> HIDE DEF m
  <2>4. s \in Seq(Parcel) /\ \A i \in DOMAIN s : (\E j \in DOMAIN down : s[i] = down[j]) \/ s[i] = m
    BY <2>2, AppendElements, AppendProperties DEF TypeInv
  <2> HIDE DEF s
  <2>5. \A i \in DOMAIN (s \o late) :
           (\E j \in DOMAIN s : (s \o late)[i] = s[j]) \/ (\E j \in DOMAIN late : (s \o late)[i] = late[j])
    <3>1. s \in Seq(Parcel) /\ late \in Seq(Parcel)
      BY <2>3, <2>4
    <3> QED
      BY <3>1, ConcatElements
  <2>6. ASSUME NEW i \in DOMAIN down'
        PROVE  \/ \E j \in DOMAIN down : down'[i] = down[j]
               \/ down'[i].type # "patch" \/ Brings(down'[i].ops)
    <3>1. CASE \E j \in DOMAIN s : down'[i] = s[j]
      BY <2>2, <2>4, <3>1
    <3>2. CASE \E j \in DOMAIN late : down'[i] = late[j]
      BY <3>2 DEF Alone
    <3> QED
      BY <2>1, <2>5, <3>1, <3>2
  <2>7. DOMAIN late' = {}
    BY <2>1, EmptyListed
  <2> QED
    BY <2>6, <2>7, AloneKept
<1>3. CASE HandlePatch \/ HandleError \/ InitDoc
  <2>1. down # <<>> /\ down' = Tail(down) /\ late' = late
    BY <1>3 DEF HandlePatch, HandleError, InitDoc, Received
  <2>2. \A i \in DOMAIN down' : \E j \in DOMAIN down : down'[i] = down[j]
    BY <2>1, TailElements DEF TypeInv
  <2> QED
    BY <2>1, <2>2, AloneKept
<1>4. CASE GoOffline
  <2>1. DOMAIN down' = {} /\ DOMAIN late' = {}
    BY <1>4, EmptyListed DEF GoOffline
  <2> QED
    BY <2>1 DEF Alone
<1>5. CASE Connect
  <2> DEFINE m == SnapshotMsg(sdoc)
  <2>1. down' = <<m>> /\ late' = late /\ m.type # "patch"
    BY <1>5 DEF Connect, SnapshotMsg
  <2> HIDE DEF m
  <2>2. \A i \in DOMAIN down' : down'[i] = m
    BY <2>1
  <2> QED
    BY <2>1, <2>2, AloneKept
<1> QED
  BY <1>1, <1>2, <1>3, <1>4, <1>5

(* Every step keeps the patches that insert a node to that node. *)
LEMMA NextAlone ==
    ASSUME Tally \notin Nodes, TypeInv, Linked, Normal, Alone, [Next]_vars
    PROVE  Alone'
<1>1. CASE HostCommit
  <2>1. PICK o \in HostEdits : Broadcast(o)
    BY <1>1 DEF HostCommit
  <2>2. o \in Commit /\ Fits(sdoc, o) /\ Brings(o)
    BY HostEditFits DEF Brings
  <2> QED
    BY <2>1, <2>2, BroadcastAlone
<1>2. CASE ServeGhost
  <2> DEFINE o == Head(ghost).ops
  <2>1. o \in Own /\ o \in Commit /\ Shape(o)
    <3>1. Head(ghost) \in Request
      BY <1>2, HeadTailSeq DEF ServeGhost, TypeInv
    <3> QED
      BY <3>1, OwnIs DEF Request
  <2>2. Brings(o)
    BY <2>1 DEF Shape, Brings
  <2>3. (Applies(sdoc, o) /\ Broadcast(o)) \/ UNCHANGED <<down, late>>
    BY <1>2 DEF ServeGhost
  <2> HIDE DEF o
  <2>4. CASE Applies(sdoc, o) /\ Broadcast(o)
    BY <2>1, <2>2, <2>4, AppliesFits, BroadcastAlone
  <2>5. CASE UNCHANGED <<down, late>>
    BY <2>5 DEF Alone
  <2> QED
    BY <2>3, <2>4, <2>5
<1>3. CASE Edit
  <2>1. PICK o, a, g, w : Queued(o, a, g, w)
    BY <1>3, EditQueued
  <2> QED
    BY <2>1 DEF Queued, Queue, Alone
<1>4. CASE UNCHANGED vars
  BY <1>4 DEF vars, Alone
<1> QED
  BY <1>1, <1>2, <1>3, <1>4, ServeAlone, RestAlone DEF Next

-----------------------------------------------------------------------------
(* What the inverses of pending writes lead back to: the inverse of a      *)
(* write to the write of the field before it, and the oldest to what the   *)
(* server told of it.                                                      *)

Earlier(j, i, x) == j \in 1..(i - 1) /\ Covers(pending[j], x)
Leads(i, x) ==
    /\ \A j : Earlier(j, i, x) => pending[j].applied
    /\ \A j : Earlier(j, i, x) /\ (\A k : k > j => ~Earlier(k, i, x))
                 => pending[i].orig[x] = pending[j].ops.state[x]
    /\ (\A j : ~Earlier(j, i, x)) /\ x \in ToSet(base.order)
          => pending[i].orig[x] = base.val[x] \/ pending[i].orig[x] > Limit
Restores ==
    Online /\ ~rejected =>
        \A i \in DOMAIN pending : \A x \in DOMAIN pending[i].orig :
            pending[i].shadowed \/ Recreated(x) \/ Leads(i, x)

(* A step that leaves the pending operations and what was told alone ... *)
LEMMA RestoresKept ==
    ASSUME Restores, UNCHANGED <<base, pending, link, rejected, breaks>>
    PROVE  Restores'
BY DEF Restores, Leads, Earlier, Covers, Recreated, Online

(* ... a snapshot, after which no pending operation has an inverse ... *)
LEMMA InitDocRestores ==
    ASSUME InitDoc
    PROVE  Restores'
<1>1. pending' = [i \in DOMAIN buffered |->
                    Entry(buffered[i].id, buffered[i].ops, FALSE, NoState, FALSE)]
  BY DEF InitDoc
<1>2. \A i \in DOMAIN pending' : DOMAIN pending'[i].orig = {}
  BY <1>1 DEF Entry, NoState
<1> QED
  BY <1>2 DEF Restores

(* ... an edit, whose inverse is what the client showed ... *)
LEMMA EditRestores ==
    ASSUME TypeInv, Shown, Restores, Edit
    PROVE  Restores'
<1>1. PICK o, a, g, w : Queued(o, a, g, w)
  BY EditQueued
<1> DEFINE e == Entry(edits + 1, o, a, g, w)
           l == Len(pending)
<1>2. /\ UNCHANGED <<base, link, rejected, breaks>>
      /\ Online => pending' = Append(pending, e)
      /\ o \in Own /\ e \in KeptOp
  BY <1>1 DEF Queued, Queue
<1>3. e.applied = a /\ e.ops = o /\ e.orig = g /\ e.shadowed = w
  BY DEF Entry
<1> HIDE DEF e
<1> SUFFICES ASSUME Online, ~rejected, NEW i \in DOMAIN pending', NEW x \in DOMAIN pending'[i].orig,
                    ~pending'[i].shadowed, ~Recreated(x)
             PROVE  Leads(i, x)'
  BY <1>2 DEF Restores, Recreated, Online
<1>5. /\ DOMAIN pending = 1..l /\ l \in Nat
      /\ DOMAIN pending' = 1..(l + 1)
      /\ \A j \in 1..l : pending'[j] = pending[j]
      /\ pending'[l + 1] = e
  <2>1. pending \in Seq(KeptOp) /\ e \in KeptOp /\ pending' = Append(pending, e)
    BY <1>2 DEF TypeInv
  <2> QED
    BY <2>1, AppendedAt
<1> HIDE DEF l
<1>6. i \in 1..(l + 1) /\ \A j : j \in 1..(i - 1) => j \in 1..l
  BY <1>5
<1>7. \A j : Earlier(j, i, x)' <=> Earlier(j, i, x)
  BY <1>5, <1>6 DEF Earlier, Covers
<1>8. \A j : Earlier(j, i, x) => j \in 1..l /\ pending'[j] = pending[j]
  BY <1>5, <1>6 DEF Earlier
<1>9. CASE i \in 1..l
  <2>1. pending'[i] = pending[i] /\ i \in DOMAIN pending
    BY <1>5, <1>9
  <2>2. Leads(i, x)
    BY <2>1 DEF Restores
  <2> QED
    BY <1>2, <1>7, <1>8, <2>1, <2>2 DEF Leads
<1>10. CASE i = l + 1
  <2>1. pending'[i] = e /\ x \in DOMAIN g /\ ~w
    BY <1>3, <1>5, <1>10
  <2>2. CASE a = FALSE /\ g = NoState
    BY <2>1, <2>2 DEF NoState
  <2>3. CASE \E n \in ToSet(local.order), v \in Values :
                 /\ o = Write(n, v) /\ g = Only(n, local.val[n]) /\ v # local.val[n]
                 /\ w = \E k \in DOMAIN pending : ~pending[k].applied /\ Covers(pending[k], n)
                 /\ local' = Applied(local, o)
    <3>1. /\ x \in ToSet(local.order) /\ g[x] = local.val[x]
          /\ w = \E k \in DOMAIN pending : ~pending[k].applied /\ Covers(pending[k], x)
      BY <2>1, <2>3 DEF Only
    <3>2. Overlays(x)
      BY <3>1 DEF Shown
    <3>3. \A j : Earlier(j, i, x) <=> j \in DOMAIN pending /\ Covers(pending[j], x)
      <4>1. \A j : j \in 1..(i - 1) <=> j \in DOMAIN pending
        BY <1>5, <1>10
      <4> QED
        BY <4>1 DEF Earlier
    <3>4. \A j : Earlier(j, i, x) => pending[j].applied
      BY <2>1, <3>1, <3>3
    <3>5. ASSUME NEW j, Earlier(j, i, x), \A k : k > j => ~Earlier(k, i, x)
          PROVE  local.val[x] = pending[j].ops.state[x]
      <4>1. LastWrite(j, x) /\ j \in DOMAIN pending
        BY <3>3, <3>4, <3>5 DEF LastWrite
      <4> QED
        BY <3>2, <4>1 DEF Overlays
    <3>6. (\A j : ~Earlier(j, i, x)) => local.val[x] = base.val[x]
      BY <3>2, <3>3 DEF Overlays, Uncovered
    <3>7. pending'[i].orig[x] = local.val[x]
      BY <1>3, <2>1, <3>1
    <3> QED
      BY <1>2, <1>7, <1>8, <3>4, <3>5, <3>6, <3>7 DEF Leads
  <2> QED
    BY <1>1, <2>2, <2>3 DEF Queued
<1> QED
  BY <1>5, <1>9, <1>10

(* What a patch makes of what the server has told.                         *)
LEMMA PatchBase ==
    ASSUME TypeInv, Inv, Once, Alone, HandlePatch, NEW x \in ToSet(base'.order),
           ~Recreated(x), WritesTo(x)
    PROVE  LET o == Head(down).ops
           IN  /\ x \in ToSet(base.order)
               /\ x \in DOMAIN o.state => base'.val[x] = o.state[x]
               /\ x \notin DOMAIN o.state => base'.val[x] = base.val[x]
<1> DEFINE o == Head(down).ops
<1>1. /\ o \in Commit /\ 1 \in DOMAIN down /\ Head(down) = down[1] /\ Head(down).type = "patch"
  BY PatchEffect
<1>2. base' = Lenient(base, o)
  BY DEF HandlePatch
<1>3. /\ Wire(o) /\ Sound(base) /\ base.order = local.order /\ base.order \in Order
  BY <1>1, CommitIs DEF TypeInv, Sound
<1>4. Brings(o)
  BY <1>1 DEF Alone
<1>5. \A y \in Nodes : Inserts(o, y) => Recreated(y) \/ Unseen(y)
  BY InsertedUnseen
<1> HIDE DEF o
<1>6. /\ Sound(base') /\ base'.order = Settled(base.order, o)
      /\ Skips(base, o) => base' = base
      /\ ~Skips(base, o) => \A y \in Nodes : base'.val[y] =
            IF y \in ToSet(base'.order) THEN After(o, base.val, y) ELSE 0
  BY <1>2, <1>3, LenientIs
<1>7. x \in Nodes
  BY <1>6, OrderIs DEF Sound, Order
<1>8. x \in ToSet(base.order)
  <2>1. x \in ToSet(base.order) \/ Inserts(o, x)
    BY <1>3, <1>6, SettledHolds
  <2> QED
    BY <1>5, <1>7, <2>1 DEF Unseen
<1>9. CASE Skips(base, o)
  <2>1. o.kind = "insert" /\ o.node \in ToSet(local.order) /\ o.node \in Nodes
    BY <1>3, <1>9, OrderIs DEF Skips, Order
  <2>2. Recreated(o.node)
    BY <1>5, <2>1 DEF Inserts, Unseen
  <2>3. x \notin DOMAIN o.state
    BY <1>4, <2>1, <2>2 DEF Brings
  <2> QED
    BY <1>6, <1>8, <1>9, <2>3 DEF o
<1>10. CASE ~Skips(base, o)
  BY <1>6, <1>7, <1>8, <1>10 DEF After, o
<1> QED
  BY <1>9, <1>10

(* An inverse belongs to a write of its field.                             *)
LEMMA OrigIs ==
    ASSUME TypeInv, NEW i \in DOMAIN pending, NEW x \in DOMAIN pending[i].orig
    PROVE  pending[i].applied /\ Covers(pending[i], x) /\ WritesTo(x)
<1>1. pending[i] \in KeptOp
  BY LenProperties, ElementOfSeq DEF TypeInv
<1> QED
  BY <1>1 DEF KeptOp, Covers, WritesTo

(* ... a patch of somebody else, which the oldest inverse takes up ... *)
LEMMA ForeignRestores ==
    ASSUME TypeInv, Inv, Once, Alone, Restores, HandlePatch, Online, ~rejected,
           Position(Head(down).ref) = 0
    PROVE  Restores'
<1> DEFINE o == Head(down).ops
<1>1. pending' = Refresh(o.state, pending) /\ UNCHANGED <<link, rejected, breaks>>
  BY PatchEffect DEF HandlePatch, Foreign
<1>2. DOMAIN pending' = DOMAIN pending
  BY <1>1 DEF Refresh
<1>3. \A k \in DOMAIN pending : /\ pending'[k].applied = pending[k].applied
                                /\ pending'[k].ops = pending[k].ops
                                /\ pending'[k].shadowed = pending[k].shadowed
                                /\ ~pending[k].applied => pending'[k] = pending[k]
  BY <1>1, <1>2, RefreshKept
<1>4. ASSUME NEW k \in DOMAIN pending, pending[k].applied
      PROVE  /\ DOMAIN pending'[k].orig = DOMAIN pending[k].orig
             /\ \A x \in DOMAIN pending[k].orig : pending'[k].orig[x] =
                   IF x \in DOMAIN o.state /\ \A j : ~Earlier(j, k, x) THEN o.state[x]
                   ELSE pending[k].orig[x]
  <2>1. pending'[k] = [pending[k] EXCEPT !.orig =
            [n \in DOMAIN pending[k].orig |->
                IF n \in DOMAIN o.state /\ \A j \in 1..(k - 1) : ~Covers(pending[j], n)
                  THEN o.state[n] ELSE pending[k].orig[n]]]
    BY <1>1, <1>4 DEF Refresh
  <2>2. pending[k] \in KeptOp
    BY LenProperties, ElementOfSeq DEF TypeInv
  <2>3. pending'[k].orig = [n \in DOMAIN pending[k].orig |->
                IF n \in DOMAIN o.state /\ \A j \in 1..(k - 1) : ~Covers(pending[j], n)
                  THEN o.state[n] ELSE pending[k].orig[n]]
    BY <2>1, <2>2 DEF KeptOp
  <2>4. \A n : (\A j \in 1..(k - 1) : ~Covers(pending[j], n)) <=> \A j : ~Earlier(j, k, n)
    BY DEF Earlier
  <2> HIDE DEF o
  <2> QED
    BY <2>3, <2>4
<1>5. DOMAIN pending = 1..Len(pending) /\ Len(pending) \in Nat
  BY LenProperties DEF TypeInv
<1>6. ASSUME NEW i \in DOMAIN pending, NEW x
      PROVE  \A j : Earlier(j, i, x)' <=> Earlier(j, i, x)
  <2>1. \A j : j \in 1..(i - 1) => j \in DOMAIN pending
    BY <1>5
  <2> QED
    BY <1>3, <2>1 DEF Earlier, Covers
<1>7. ASSUME NEW x \in ToSet(base'.order), ~Recreated(x), WritesTo(x)
      PROVE  /\ x \in ToSet(base.order)
             /\ x \in DOMAIN o.state => base'.val[x] = o.state[x]
             /\ x \notin DOMAIN o.state => base'.val[x] = base.val[x]
  BY <1>7, PatchBase
<1> HIDE DEF o
<1> SUFFICES ASSUME NEW i \in DOMAIN pending, NEW x \in DOMAIN pending'[i].orig,
                    ~pending[i].shadowed, ~Recreated(x)
             PROVE  Leads(i, x)'
  BY <1>1, <1>2, <1>3 DEF Restores, Recreated, Online
<1>8. x \in DOMAIN pending[i].orig
  BY <1>3, <1>4
<1>9. pending[i].applied /\ Covers(pending[i], x) /\ WritesTo(x)
  BY <1>8, OrigIs
<1>10. Leads(i, x)
  BY <1>8 DEF Restores
<1>11. \A j : Earlier(j, i, x) => j \in DOMAIN pending
  BY <1>5 DEF Earlier
<1>12. /\ \A j : Earlier(j, i, x)' => pending'[j].applied
       /\ \A j : Earlier(j, i, x)' /\ (\A k : k > j => ~Earlier(k, i, x)')
                 => pending'[i].orig[x] = pending'[j].ops.state[x]
  BY <1>3, <1>4, <1>6, <1>8, <1>9, <1>10, <1>11 DEF Leads
<1>13. ASSUME \A j : ~Earlier(j, i, x), x \in ToSet(base'.order)
       PROVE  pending'[i].orig[x] = base'.val[x] \/ pending'[i].orig[x] > Limit
  <2>1. CASE x \in DOMAIN o.state
    BY <1>4, <1>7, <1>8, <1>9, <1>13, <2>1
  <2>2. CASE x \notin DOMAIN o.state
    BY <1>4, <1>7, <1>8, <1>9, <1>10, <1>13, <2>2 DEF Leads
  <2> QED
    BY <2>1, <2>2
<1> QED
  BY <1>6, <1>12, <1>13 DEF Leads

(* ... and an echo, after which the next inverse is the oldest. *)
LEMMA OwnRestores ==
    ASSUME TypeInv, Inv, Once, Agreed, Alone, Restores, HandlePatch, Online, ~rejected,
           Position(Head(down).ref) # 0
    PROVE  Restores'
<1> DEFINE o == Head(down).ops
           e == pending[1]
<1>1. /\ Len(pending) \in Nat /\ DOMAIN pending = 1..Len(pending)
      /\ 1 \in DOMAIN pending /\ Len(pending) >= 1
      /\ DOMAIN pending' = 1..(Len(pending) - 1)
      /\ \A k \in DOMAIN pending' : pending'[k] = pending[k + 1]
      /\ e \in KeptOp /\ e.ops \in Own /\ Fulfils(e.ops, o)
  BY OwnTaken
<1>2. UNCHANGED <<link, rejected, breaks>>
  BY PatchEffect DEF HandlePatch
<1>3. ASSUME NEW x \in ToSet(base'.order), ~Recreated(x), WritesTo(x)
      PROVE  /\ x \in ToSet(base.order)
             /\ x \in DOMAIN o.state => base'.val[x] = o.state[x]
             /\ x \notin DOMAIN o.state => base'.val[x] = base.val[x]
  BY <1>3, PatchBase
<1> HIDE DEF o, e
<1> SUFFICES ASSUME NEW i \in DOMAIN pending', NEW x \in DOMAIN pending'[i].orig,
                    ~pending'[i].shadowed, ~Recreated(x)
             PROVE  Leads(i, x)'
  BY <1>2 DEF Restores, Recreated, Online
<1> DEFINE h == i + 1
<1>4. h \in DOMAIN pending /\ pending'[i] = pending[h] /\ i \in Nat /\ i >= 1 /\ h - 1 = i
  BY <1>1
<1>5. x \in DOMAIN pending[h].orig /\ ~pending[h].shadowed
  BY <1>4
<1>6. Leads(h, x) /\ WritesTo(x)
  BY <1>4, <1>5, OrigIs DEF Restores
<1>7. \A j : Earlier(j, i, x)' => j \in Nat /\ Earlier(j + 1, h, x) /\ pending'[j] = pending[j + 1]
  <2> SUFFICES ASSUME NEW j, Earlier(j, i, x)'
               PROVE  j \in Nat /\ Earlier(j + 1, h, x) /\ pending'[j] = pending[j + 1]
    OBVIOUS
  <2>1. j \in 1..(i - 1) /\ j \in DOMAIN pending' /\ j + 1 \in 1..(h - 1) /\ j \in Nat
    BY <1>1, <1>4 DEF Earlier
  <2>2. pending'[j] = pending[j + 1]
    BY <1>1, <2>1
  <2> QED
    BY <2>1, <2>2 DEF Earlier, Covers
<1>8. \A k : Earlier(k, h, x) => k = 1 \/ (k \in Nat /\ k > 1 /\ Earlier(k - 1, i, x)')
  <2> SUFFICES ASSUME NEW k, Earlier(k, h, x), k # 1
               PROVE  k \in Nat /\ k > 1 /\ Earlier(k - 1, i, x)'
    OBVIOUS
  <2>1. k \in 1..(h - 1) /\ k \in Nat /\ k > 1 /\ k - 1 \in 1..(i - 1) /\ k - 1 \in DOMAIN pending'
        /\ (k - 1) + 1 = k
    BY <1>1, <1>4 DEF Earlier
  <2>2. pending'[k - 1] = pending[k]
    BY <1>1, <2>1
  <2> QED
    BY <2>1, <2>2 DEF Earlier, Covers
<1>9. Earlier(1, h, x) <=> Covers(e, x)
  <2>1. 1 \in 1..(h - 1)
    BY <1>4
  <2> QED
    BY <2>1 DEF Earlier, e
<1> HIDE DEF h
<1>10. \A j : Earlier(j, i, x)' => pending'[j].applied
  BY <1>6, <1>7 DEF Leads
<1>11. ASSUME NEW j, Earlier(j, i, x)', \A k : k > j => ~Earlier(k, i, x)'
       PROVE  pending'[i].orig[x] = pending'[j].ops.state[x]
  <2>1. j \in Nat /\ Earlier(j + 1, h, x) /\ pending'[j] = pending[j + 1] /\ j >= 1
    BY <1>4, <1>7, <1>11 DEF Earlier
  <2>2. ASSUME NEW k, k > j + 1, Earlier(k, h, x)
        PROVE  FALSE
    <3>1. k # 1
      BY <2>1, <2>2 DEF Earlier
    <3>2. k \in Nat /\ Earlier(k - 1, i, x)'
      BY <1>8, <2>2, <3>1
    <3>3. k - 1 > j
      BY <2>1, <2>2, <3>2
    <3> QED
      BY <1>11, <3>2, <3>3
  <2>3. pending[h].orig[x] = pending[j + 1].ops.state[x]
    BY <1>6, <2>1, <2>2 DEF Leads
  <2> QED
    BY <1>4, <2>1, <2>3
<1>12. ASSUME \A j : ~Earlier(j, i, x)', x \in ToSet(base'.order)
       PROVE  pending'[i].orig[x] = base'.val[x] \/ pending'[i].orig[x] > Limit
  <2>1. \A k : Earlier(k, h, x) => k = 1
    BY <1>8, <1>12
  <2>2. /\ x \in ToSet(base.order)
        /\ x \in DOMAIN o.state => base'.val[x] = o.state[x]
        /\ x \notin DOMAIN o.state => base'.val[x] = base.val[x]
    BY <1>3, <1>6, <1>12
  <2>3. CASE Covers(e, x)
    <3>1. Earlier(1, h, x) /\ \A k : k > 1 => ~Earlier(k, h, x)
      BY <1>9, <2>1, <2>3
    <3>2. pending[h].orig[x] = e.ops.state[x]
      BY <1>6, <3>1 DEF Leads, e
    <3>3. x \in DOMAIN o.state /\ base'.val[x] = Cut(e.ops.state[x])
      BY <1>1, <2>2, <2>3 DEF Fulfils, Covers
    <3>4. e.ops.state[x] \in Values
      BY <1>1, <2>3, OwnIs, StateIs DEF Covers
    <3>5. base'.val[x] = e.ops.state[x] \/ e.ops.state[x] > Limit
      BY <3>3, <3>4, ValuesAssumption DEF Cut
    <3> QED
      BY <1>4, <3>2, <3>5
  <2>4. CASE ~Covers(e, x)
    <3>1. x \notin DOMAIN o.state
      BY <1>1, <2>4 DEF Fulfils, Covers
    <3>2. \A k : ~Earlier(k, h, x)
      BY <1>9, <2>1, <2>4
    <3> QED
      BY <1>4, <1>6, <2>2, <3>1, <3>2 DEF Leads
  <2> QED
    BY <2>3, <2>4
<1> QED
  BY <1>10, <1>11, <1>12 DEF Leads

(* Every step keeps what the inverses lead back to. *)
LEMMA NextRestores ==
    ASSUME TypeInv, Inv, Once, Agreed, Alone, Shown, Restores, [Next]_vars
    PROVE  Restores'
<1>1. CASE UNCHANGED vars
  BY <1>1, RestoresKept DEF vars, client, counts
<1>2. CASE Serve \/ SendError \/ Resync
  BY <1>2, RestoresKept DEF Serve, SendError, Resync, client, counts
<1>3. CASE ServeGhost \/ HostCommit
  BY <1>3, RestoresKept DEF ServeGhost, HostCommit, Broadcast, client, counts
<1>4. CASE HandlePatch
  <2>1. CASE Online /\ ~rejected
    BY <1>4, <2>1, ForeignRestores, OwnRestores
  <2>2. CASE ~(Online /\ ~rejected)
    BY <1>4, <2>2 DEF HandlePatch, Restores, Online
  <2> QED
    BY <2>1, <2>2
<1>5. CASE HandleError
  BY <1>5 DEF HandleError, Restores
<1>6. CASE GoOffline \/ Connect
  BY <1>6 DEF GoOffline, Connect, Restores, Online
<1> QED
  BY <1>1, <1>2, <1>3, <1>4, <1>5, <1>6, InitDocRestores, EditRestores DEF Next

(* The oldest inverse of a field is what UndoReveals asks for. *)
LEMMA RestoresReveals == TypeInv /\ Restores => UndoReveals
<1> SUFFICES ASSUME TypeInv, Restores, Online, ~rejected,
                    NEW i \in DOMAIN pending, NEW x \in DOMAIN pending[i].orig,
                    ~pending[i].shadowed, ~Recreated(x),
                    \A j \in 1..(i - 1) : ~Covers(pending[j], x),
                    Contains(base.order, x)
             PROVE  pending[i].orig[x] \in {base.val[x]} \cup {v \in Values : v > Limit}
  BY DEF UndoReveals
<1>1. Leads(i, x)
  BY DEF Restores
<1>2. x \in ToSet(base.order)
  BY OrderIs DEF TypeInv, Sound, Order
<1>3. pending[i].orig[x] \in Values
  <2>1. pending[i] \in KeptOp
    BY LenProperties, ElementOfSeq DEF TypeInv
  <2> QED
    BY <2>1, StateIs DEF KeptOp
<1>4. pending[i].orig[x] = base.val[x] \/ pending[i].orig[x] > Limit
  BY <1>1, <1>2 DEF Leads, Earlier
<1> QED
  BY <1>3, <1>4

(* The inverse of the client's oldest pending write of a field leads back  *)
(* to what the server holds under it, whatever other clients, the host,    *)
(* its normalizer and the client itself write in the meantime: an undo     *)
(* takes back the client's edit and no other.                              *)
THEOREM UndoRevealed == ASSUME Tally \notin Nodes PROVE Spec => []UndoReveals
<1> DEFINE J == Inv /\ TypeInv /\ Once /\ Normal /\ Agreed /\ Shown /\ Alone /\ Restores
<1>1. Init => J
  <2>1. Init => Alone /\ Restores
    BY EmptyListed DEF Init, Alone, Restores
  <2> QED
    BY <2>1, InitInv, InitType, InitOnce, InitNormal, InitAgreed, InitShown
<1>2. J /\ [Next]_vars => J'
  <2> SUFFICES ASSUME J, [Next]_vars
               PROVE  J'
    OBVIOUS
  <2>1. Inv' /\ TypeInv'
    BY NextInv, NextType
  <2>2. Once' /\ Normal' /\ Agreed' /\ Shown'
    BY NextOnce, NextNormal, NextAgreed, NextShown
  <2>3. Alone'
    BY NextAlone DEF Inv
  <2>4. Restores'
    BY NextRestores
  <2> QED
    BY <2>1, <2>2, <2>3, <2>4
<1>3. J => UndoReveals
  BY RestoresReveals
<1> QED
  BY <1>1, <1>2, <1>3, PTL DEF Spec

-----------------------------------------------------------------------------
(* What a patch does where it was not made: it takes a client's document   *)
(* from what the server's was to what it is.                               *)

(* A node that is placed between its neighbours is where it was.           *)
LEMMA Replaced ==
    ASSUME NEW s \in Order, NEW n \in ToSet(s)
    PROVE  Place(RemoveFirst(s, n), n, PrevOf(s, n), NextOf(s, n)) = s
<1> DEFINE i == Index(s, n)
           r == RemoveFirst(s, n)
           l == Len(s)
<1>1. /\ s \in Seq(Nodes) /\ l \in Nat /\ DOMAIN s = 1..l /\ Contains(s, n)
      /\ \A j \in 1..l : s[j] \in Nodes
  BY OrderIs DEF Order
<1>2. i \in 1..l /\ s[i] = n
  BY <1>1, IndexIs
<1>3. r = RemoveAt(s, i)
  BY <1>1, RemoveFirstIs
<1>4. PrevOf(s, n) = (IF i <= 1 THEN NoNode ELSE s[i - 1])
  BY DEF PrevOf
<1>5. NextOf(s, n) = (IF i \in {0, l} THEN NoNode ELSE s[i + 1])
  BY DEF NextOf
<1> HIDE DEF i, r, l
<1>6. /\ r \in Seq(Nodes) /\ Len(r) = l - 1
      /\ \A j \in 1..(l - 1) : r[j] = IF j < i THEN s[j] ELSE s[j + 1]
  BY <1>1, <1>2, <1>3, RemoveAtIs DEF l
<1>7. r \in Order /\ DOMAIN r = 1..(l - 1)
  BY <1>6, RemoveFirstOrder, OrderIs DEF r
<1>8. n \in Nodes /\ NoNode \notin Nodes
  BY <1>1, <1>2, StartAssumption
<1>9. ASSUME NEW t, t = InsertAt(r, i, n)
      PROVE  t = s
  <2>1. i \in 1..(Len(r) + 1) /\ Len(r) + 1 = l
    BY <1>1, <1>2, <1>6
  <2>2. /\ t \in Seq(Nodes) /\ Len(t) = l
        /\ \A j \in 1..l : t[j] = IF j < i THEN r[j] ELSE IF j = i THEN n ELSE r[j - 1]
    <3>1. /\ InsertAt(r, i, n) \in Seq(Nodes) /\ Len(InsertAt(r, i, n)) = Len(r) + 1
          /\ \A j \in 1..(Len(r) + 1) : InsertAt(r, i, n)[j] =
                IF j < i THEN r[j] ELSE IF j = i THEN n ELSE r[j - 1]
      BY <1>6, <1>8, <2>1, InsertAtIs
    <3> QED
      BY <1>9, <2>1, <3>1
  <2>3. ASSUME NEW j \in 1..l
        PROVE  t[j] = s[j]
    <3>1. CASE j < i
      <4>1. j \in 1..(l - 1)
        BY <1>1, <1>2, <3>1
      <4> QED
        BY <1>6, <2>2, <3>1, <4>1
    <3>2. CASE j = i
      BY <1>2, <2>2, <3>2
    <3>3. CASE j > i
      <4>1. j - 1 \in 1..(l - 1) /\ ~(j - 1 < i) /\ (j - 1) + 1 = j /\ ~(j < i) /\ j # i
        BY <1>1, <1>2, <3>3
      <4> QED
        BY <1>6, <2>2, <4>1
    <3> QED
      BY <1>1, <1>2, <3>1, <3>2, <3>3
  <2>4. Len(t) = Len(s) /\ t \in Seq(Nodes) /\ s \in Seq(Nodes)
    BY <1>1, <2>2 DEF l
  <2>5. \A j \in 1..Len(t) : t[j] = s[j]
    BY <2>2, <2>3
  <2> QED
    BY <2>4, <2>5, SeqEqual
<1>10. CASE i > 1
  <2> DEFINE p == s[i - 1]
  <2>1. i - 1 \in 1..(l - 1) /\ i - 1 < i /\ r[i - 1] = p
    BY <1>1, <1>2, <1>6, <1>10
  <2>2. i - 1 \in 1..Len(r) /\ Contains(r, p)
    <3>1. p \in ToSet(r)
      BY <1>7, <2>1 DEF ToSet
    <3> QED
      BY <1>6, <2>1, <3>1, OrderIs
  <2>3. Index(r, p) = i - 1
    <3>1. Index(r, r[i - 1]) = i - 1
      BY <1>6, <1>7, <2>2, InjectiveIndex DEF Order
    <3> QED
      BY <2>1, <3>1
  <2>4. PrevOf(s, n) = p
    BY <1>1, <1>2, <1>4, <1>10
  <2>5. (i - 1) + 1 = i
    BY <1>1, <1>2
  <2> HIDE DEF p
  <2>6. Place(r, n, PrevOf(s, n), NextOf(s, n)) = InsertAt(r, i, n)
    BY <2>2, <2>3, <2>4, <2>5 DEF Place
  <2> QED
    BY <1>9, <2>6 DEF r
<1>11. CASE i = 1
  <2>1. PrevOf(s, n) = NoNode /\ ~Contains(r, NoNode)
    <3>1. PrevOf(s, n) = NoNode
      BY <1>4, <1>11
    <3>2. NoNode \notin ToSet(r)
      BY <1>6, <1>8, OrderIs
    <3> QED
      BY <1>6, <3>1, <3>2, OrderIs
  <2>2. CASE l = 1
    <3>1. NextOf(s, n) = NoNode
      BY <1>5, <1>11, <2>2
    <3>2. Place(r, n, PrevOf(s, n), NextOf(s, n)) = Append(r, n)
      BY <2>1, <3>1 DEF Place
    <3>3. Append(r, n) = s
      <4>1. Len(r) = 0 /\ r = <<>>
        BY <1>6, <2>2, EmptySeq
      <4>2. /\ Append(r, n) \in Seq(Nodes) /\ Len(Append(r, n)) = Len(r) + 1
            /\ Append(r, n)[Len(r) + 1] = n
        BY <1>6, <1>8, AppendProperties
      <4>3. Len(Append(r, n)) = 1 /\ Append(r, n)[1] = n /\ Len(s) = 1 /\ s[1] = n
        BY <1>2, <1>11, <2>2, <4>1, <4>2 DEF l
      <4>4. \A j \in 1..1 : j = 1
        OBVIOUS
      <4>5. \A j \in 1..Len(Append(r, n)) : Append(r, n)[j] = s[j]
        BY <4>3, <4>4
      <4> QED
        BY <1>1, <4>2, <4>3, <4>5, SeqEqual
    <3> QED
      BY <3>2, <3>3 DEF r
  <2>3. CASE l # 1
    <3> DEFINE q == s[2]
    <3>1. 1 \in 1..(l - 1) /\ r[1] = q
      BY <1>1, <1>2, <1>6, <1>11, <2>3
    <3>2. NextOf(s, n) = q
      BY <1>1, <1>5, <1>11, <2>3
    <3>3. 1 \in 1..Len(r) /\ Contains(r, q)
      <4>1. q \in ToSet(r)
        BY <1>7, <3>1 DEF ToSet
      <4> QED
        BY <1>6, <3>1, <4>1, OrderIs
    <3>4. Index(r, q) = 1
      <4>1. Index(r, r[1]) = 1
        BY <1>6, <1>7, <3>3, InjectiveIndex DEF Order
      <4> QED
        BY <3>1, <4>1
    <3> HIDE DEF q
    <3>5. Place(r, n, PrevOf(s, n), NextOf(s, n)) = InsertAt(r, i, n)
      BY <1>11, <2>1, <3>2, <3>3, <3>4 DEF Place
    <3> QED
      BY <1>9, <3>5 DEF r
  <2> QED
    BY <2>2, <2>3
<1> QED
  BY <1>1, <1>2, <1>10, <1>11

(* A node that is placed and removed leaves the others as they were.       *)
LEMMA RemovePlace ==
    ASSUME NEW s \in Order, NEW n \in Nodes, n \notin ToSet(s), NEW p, NEW q
    PROVE  RemoveFirst(Place(s, n, p, q), n) = s
<1> DEFINE l == Len(s)
<1>1. s \in Seq(Nodes) /\ l \in Nat /\ DOMAIN s = 1..l /\ ~Contains(s, n)
  BY OrderIs DEF Order
<1>2. PICK i \in 1..(l + 1) : Place(s, n, p, q) = InsertAt(s, i, n)
  BY <1>1, PlaceIs
<1> DEFINE t == InsertAt(s, i, n)
           u == RemoveAt(t, i)
<1>3. /\ t \in Seq(Nodes) /\ Len(t) = l + 1
      /\ \A j \in 1..(l + 1) : t[j] = IF j < i THEN s[j] ELSE IF j = i THEN n ELSE s[j - 1]
  BY <1>1, <1>2, InsertAtIs
<1>4. t \in Order
  BY <1>1, <1>2, InsertAtOrder
<1> HIDE DEF t, l
<1>5. t[i] = n /\ i \in 1..Len(t)
  BY <1>1, <1>2, <1>3
<1>6. Index(t, n) = i
  <2>1. Index(t, t[i]) = i
    BY <1>4, <1>5, InjectiveIndex DEF Order
  <2> QED
    BY <1>5, <2>1
<1>7. Contains(t, n)
  <2>1. n \in ToSet(t)
    BY <1>3, <1>5, OrderIs DEF ToSet
  <2> QED
    BY <1>3, <2>1, OrderIs
<1>8. RemoveFirst(t, n) = u
  BY <1>3, <1>6, <1>7, RemoveFirstIs
<1>9. /\ u \in Seq(Nodes) /\ Len(u) = Len(t) - 1
      /\ \A j \in 1..(Len(t) - 1) : u[j] = IF j < i THEN t[j] ELSE t[j + 1]
  BY <1>3, <1>5, RemoveAtIs
<1> HIDE DEF u
<1>10. ASSUME NEW j \in 1..l
       PROVE  u[j] = s[j]
  <2>1. CASE j < i
    <3>1. j \in 1..(Len(t) - 1) /\ j \in 1..(l + 1)
      BY <1>1, <1>3
    <3> QED
      BY <1>3, <1>9, <2>1, <3>1
  <2>2. CASE ~(j < i)
    <3>1. j \in 1..(Len(t) - 1) /\ j + 1 \in 1..(l + 1) /\ ~(j + 1 < i) /\ j + 1 # i /\ (j + 1) - 1 = j
      BY <1>1, <1>2, <1>3, <2>2
    <3> QED
      BY <1>3, <1>9, <2>2, <3>1
  <2> QED
    BY <2>1, <2>2
<1>11. Len(u) = Len(s) /\ \A j \in 1..Len(u) : u[j] = s[j]
  BY <1>1, <1>3, <1>9, <1>10 DEF l
<1>12. u = s
  BY <1>1, <1>9, <1>11, SeqEqual
<1> QED
  BY <1>2, <1>8, <1>12 DEF t

(* The order a commit is recorded with is the order it left.               *)
LEMMA PlacedAgain ==
    ASSUME NEW s \in Order, NEW o, Wire(o), NEW r, r.kind = o.kind, r.node = o.node,
           o.kind = "insert" => o.node \notin ToSet(s),
           o.kind \in {"delete", "move"} => o.node \in ToSet(s),
           r.prev = PrevOf(Placed(s, o), o.node), r.next = NextOf(Placed(s, o), o.node)
    PROVE  Placed(s, r) = Placed(s, o)
<1> DEFINE n == o.node
           t == Placed(s, o)
<1>1. s \in Seq(Nodes) /\ ToSet(s) \subseteq Nodes
  BY OrderIs DEF Order
<1>2. CASE o.kind = "insert"
  <2>1. n \in Nodes /\ n \notin ToSet(s) /\ t = Place(s, n, o.prev, o.next)
    BY <1>2 DEF Wire, Aims, Placed
  <2>2. t \in Order /\ n \in ToSet(t)
    BY <1>1, <2>1, OrderIs, PlaceOrder
  <2>3. RemoveFirst(t, n) = s
    BY <2>1, RemovePlace
  <2>4. Placed(s, r) = Place(s, n, PrevOf(t, n), NextOf(t, n))
    BY <1>2 DEF Placed
  <2> HIDE DEF t
  <2> QED
    BY <2>2, <2>3, <2>4, Replaced DEF t
<1>3. CASE o.kind = "move"
  <2> DEFINE u == RemoveFirst(s, n)
  <2>1. n \in Nodes /\ t = Place(u, n, o.prev, o.next)
    BY <1>3 DEF Wire, Aims, Placed
  <2>2. u \in Order /\ n \notin ToSet(u)
    BY RemoveFirstOrder
  <2> HIDE DEF u
  <2>3. t \in Order /\ n \in ToSet(t)
    <3>1. ~Contains(u, n)
      BY <2>2, OrderIs DEF Order
    <3> QED
      BY <2>1, <2>2, <3>1, PlaceOrder
  <2>4. RemoveFirst(t, n) = u
    BY <2>1, <2>2, RemovePlace
  <2>5. Placed(s, r) = Place(u, n, PrevOf(t, n), NextOf(t, n))
    BY <1>3 DEF Placed, u
  <2> HIDE DEF t
  <2> QED
    BY <2>3, <2>4, <2>5, Replaced DEF t
<1>4. CASE o.kind \notin {"insert", "move"}
  BY <1>4 DEF Placed
<1> QED
  BY <1>2, <1>3, <1>4

(* Two documents with the same order and the same values are one.          *)
LEMMA SameDocument ==
    ASSUME NEW d, Sound(d), NEW e, Sound(e), d.order = e.order,
           \A x \in ToSet(e.order) : d.val[x] = e.val[x]
    PROVE  d = e
<1>1. d.val \in [Nodes -> Values] /\ e.val \in [Nodes -> Values]
  BY DEF Sound, Doc
<1>2. \A x \in Nodes : d.val[x] = e.val[x]
  BY DEF Sound
<1>3. d.val = e.val
  BY <1>1, <1>2
<1> QED
  BY <1>3 DEF Sound, Doc

(* The patch of a commit takes the document before it to the one after it. *)
LEMMA RecordedLeads ==
    ASSUME NEW d, Sound(d), NEW o \in Commit, Fits(d, o)
    PROVE  /\ Lenient(d, Recorded(d, o, Committed(d, o))) = Committed(d, o)
           /\ Wire(Recorded(d, o, Committed(d, o)))
<1> DEFINE n == Committed(d, o)
           r == Recorded(d, o, n)
<1>1. /\ Sound(n) /\ n.order = Placed(d.order, o) /\ n.order = Settled(d.order, o)
      /\ o \in Ops /\ Wire(o) /\ Aims(o)
  BY CommittedIs, CommitIs
<1>2. /\ d.order \in Order
      /\ \A x : Contains(d.order, x) <=> x \in ToSet(d.order)
  BY OrderIs DEF Sound, Order
<1>3. o.kind = "insert" => o.node \notin ToSet(d.order)
  BY <1>2 DEF Fits
<1>4. o.kind \in {"delete", "move"} => o.node \in ToSet(d.order)
  BY <1>2 DEF Fits
<1> HIDE DEF n
<1>5. /\ Wire(r) /\ DOMAIN r.state = Wrote(d, o, n)
      /\ \A x \in Wrote(d, o, n) : r.state[x] = n.val[x]
      /\ n.order = d.order => r.kind = "none"
      /\ n.order # d.order => /\ r.kind = o.kind /\ r.node = o.node
                              /\ r.prev = PrevOf(n.order, o.node)
                              /\ r.next = NextOf(n.order, o.node)
  <2>1. /\ Wire(r) /\ DOMAIN r.state = Wrote(d, o, n)
        /\ n.order = d.order => r.kind = "none"
        /\ n.order # d.order => /\ r.kind = o.kind /\ r.node = o.node
                                /\ r.prev = PrevOf(n.order, o.node)
                                /\ r.next = NextOf(n.order, o.node)
        /\ r.state = [x \in Wrote(d, o, n) |-> n.val[x]]
    BY <1>1, RecordedIs
  <2> HIDE DEF r
  <2> QED
    BY <2>1
<1> HIDE DEF r
<1>6. Settled(d.order, r) = n.order /\ ~Skips(d, r)
  <2>1. CASE n.order = d.order
    BY <1>5, <2>1 DEF Settled, Stays, Placed, Skips
  <2>2. CASE n.order # d.order
    <3>1. Placed(d.order, r) = Placed(d.order, o)
      BY <1>1, <1>2, <1>3, <1>4, <1>5, <2>2, PlacedAgain
    <3> QED
      BY <1>1, <1>2, <1>3, <1>4, <1>5, <2>2, <3>1 DEF Settled, Stays, Skips
  <2> QED
    BY <2>1, <2>2
<1>7. /\ Sound(Lenient(d, r)) /\ Lenient(d, r).order = n.order
      /\ \A x \in Nodes : Lenient(d, r).val[x] =
            IF x \in ToSet(n.order) THEN After(r, d.val, x) ELSE 0
  BY <1>5, <1>6, LenientIs
<1>8. ASSUME NEW x \in ToSet(n.order)
      PROVE  Lenient(d, r).val[x] = n.val[x]
  <2>1. x \in Nodes
    BY <1>1, OrderIs DEF Sound, Order
  <2>2. CASE x \in Wrote(d, o, n)
    BY <1>5, <1>7, <2>1, <2>2 DEF After
  <2>3. CASE x \notin Wrote(d, o, n)
    <3>1. n.val[x] = d.val[x]
      BY <2>3 DEF Wrote
    <3> QED
      BY <1>5, <1>7, <2>1, <2>3, <3>1 DEF After
  <2> QED
    BY <2>2, <2>3
<1>9. Lenient(d, r) = n
  BY <1>1, <1>7, <1>8, SameDocument
<1> QED
  BY <1>5, <1>9 DEF r, n

(* So does the answer to a request.                                        *)
LEMMA AnswerLeads ==
    ASSUME NEW d, Sound(d), NEW o \in Own, Applies(d, o)
    PROVE  Lenient(d, Answer(d, o, Committed(d, o))) = Committed(d, o)
<1>1. o \in Commit /\ Fits(d, o) /\ o.state \in State
  BY OwnIs, AppliesFits
<1>2. CASE Committed(d, o) # d
  BY <1>1, <1>2, RecordedLeads DEF Answer
<1>3. CASE Committed(d, o) = d
  <2> DEFINE t == [x \in DOMAIN o.state |-> d.val[x]]
             r == Patch("none", NoNode, NoNode, NoNode, t)
  <2>1. Answer(d, o, Committed(d, o)) = r
    BY <1>3 DEF Answer
  <2>2. DOMAIN t = DOMAIN o.state /\ \A x \in DOMAIN t : t[x] = d.val[x]
    OBVIOUS
  <2>3. DOMAIN o.state \subseteq Nodes /\ d.val \in [Nodes -> Values]
    BY <1>1, StateIs DEF Sound, Doc
  <2>4. t \in State
    <3>1. t = [x \in DOMAIN t |-> t[x]] /\ \A x \in DOMAIN t : t[x] \in Values
      BY <2>2, <2>3
    <3> HIDE DEF t
    <3> QED
      BY <2>2, <2>3, <3>1, StateIs
  <2> HIDE DEF t
  <2>5. r.kind = "none" /\ r.state = t /\ Wire(r)
    BY <2>4, PatchIs DEF Wire, Aims
  <2> HIDE DEF r
  <2>6. ~Skips(d, r) /\ Settled(d.order, r) = d.order
    BY <2>5 DEF Skips, Settled, Stays, Placed
  <2>7. /\ Sound(Lenient(d, r)) /\ Lenient(d, r).order = d.order
        /\ \A x \in Nodes : Lenient(d, r).val[x] =
              IF x \in ToSet(d.order) THEN After(r, d.val, x) ELSE 0
    BY <2>5, <2>6, LenientIs
  <2>8. \A x \in ToSet(d.order) : x \in Nodes
    BY OrderIs DEF Sound, Order
  <2>9. \A x \in ToSet(d.order) : Lenient(d, r).val[x] = d.val[x]
    BY <2>2, <2>5, <2>7, <2>8 DEF After
  <2>10. Lenient(d, r) = d
    BY <2>7, <2>9, SameDocument
  <2> QED
    BY <1>3, <2>1, <2>10
<1> QED
  BY <1>2, <1>3

-----------------------------------------------------------------------------
(* What a client will hold when it has heard a sequence of messages.       *)

Hear(d, m) ==
    IF m.type = "snapshot" THEN m.doc
    ELSE IF m.type = "patch" THEN Lenient(d, m.ops) ELSE d

(* The documents on the way; none has a node an echo is yet to bring.      *)
Path(h, s, d) ==
    /\ h[0] = d
    /\ \A k \in 0..Len(s) : Sound(h[k])
    /\ \A k \in 1..Len(s) : h[k] = Hear(h[k - 1], s[k])
Echoes(m) == m.type = "patch" /\ m.ref # 0 /\ m.ops.kind = "insert"
First(h, s) == \A k \in 1..Len(s) : Echoes(s[k]) => s[k].ops.node \notin ToSet(h[k - 1].order)

(* What is heard leaves a document. *)
LEMMA HearSound ==
    ASSUME NEW d, Sound(d), NEW m \in Parcel
    PROVE  Sound(Hear(d, m))
<1>1. CASE m.type = "snapshot"
  BY <1>1, ParcelIs DEF Hear
<1>2. CASE m.type = "patch"
  BY <1>2, ParcelIs, CommitIs, LenientIs DEF Hear
<1>3. CASE m.type = "error"
  BY <1>3 DEF Hear
<1> QED
  BY <1>1, <1>2, <1>3, ParcelIs

(* A message more on its way is one more document on the path ... *)
LEMMA PathAppend ==
    ASSUME NEW s \in Seq(Parcel), NEW m \in Parcel, NEW d, NEW h, Path(h, s, d), First(h, s),
           Echoes(m) => m.ops.node \notin ToSet(h[Len(s)].order)
    PROVE  \E g : /\ Path(g, Append(s, m), d) /\ First(g, Append(s, m))
                  /\ g[Len(Append(s, m))] = Hear(h[Len(s)], m)
<1> DEFINE l == Len(s)
           t == Append(s, m)
           e == Hear(h[l], m)
           g == [k \in 0..(l + 1) |-> IF k <= l THEN h[k] ELSE e]
<1>1. l \in Nat
  BY LenProperties
<1>2. /\ Len(t) = l + 1 /\ t[l + 1] = m
      /\ \A k \in 1..l : t[k] = s[k]
  BY AppendProperties
<1>3. Sound(h[l])
  BY <1>1 DEF Path
<1>4. Sound(e)
  BY <1>3, HearSound
<1>5. /\ \A k \in 0..l : g[k] = h[k]
      /\ g[l + 1] = e
  BY <1>1
<1> HIDE DEF l, t, g
<1>6. ASSUME NEW k \in 1..(l + 1)
      PROVE  /\ g[k] = Hear(g[k - 1], t[k]) /\ Sound(g[k])
             /\ Echoes(t[k]) => t[k].ops.node \notin ToSet(g[k - 1].order)
  <2>1. CASE k = l + 1
    <3>1. k - 1 = l /\ l \in 0..l
      BY <1>1, <2>1
    <3> QED
      BY <1>2, <1>4, <1>5, <2>1, <3>1 DEF l
  <2>2. CASE k # l + 1
    <3>1. k \in 1..l /\ k \in 0..l /\ k - 1 \in 0..l
      BY <1>1, <2>2
    <3> QED
      BY <1>2, <1>5, <3>1 DEF Path, First, l
  <2> QED
    BY <2>1, <2>2
<1>7. g[0] = d /\ Sound(g[0])
  BY <1>1, <1>5 DEF Path, l
<1>8. Path(g, t, d)
  <2>1. \A k \in 0..Len(t) : k = 0 \/ k \in 1..(l + 1)
    BY <1>1, <1>2
  <2> QED
    BY <1>2, <1>6, <1>7, <2>1 DEF Path
<1>9. First(g, t)
  BY <1>2, <1>6 DEF First
<1> QED
  BY <1>2, <1>5, <1>8, <1>9 DEF t, l

(* ... the one that was heard is the first to go ... *)
LEMMA PathTail ==
    ASSUME NEW s \in Seq(Parcel), s # <<>>, NEW d, NEW h, Path(h, s, d), First(h, s)
    PROVE  \E g : /\ Path(g, Tail(s), Hear(d, s[1])) /\ First(g, Tail(s))
                  /\ g[Len(Tail(s))] = h[Len(s)]
<1> DEFINE l == Len(s)
           t == Tail(s)
           g == [k \in 0..(l - 1) |-> h[k + 1]]
<1>1. /\ l \in Nat /\ l >= 1 /\ Len(t) = l - 1
      /\ \A k \in 1..(l - 1) : t[k] = s[k + 1]
  BY HeadTailSeq
<1>2. \A k \in 0..(l - 1) : g[k] = h[k + 1]
  OBVIOUS
<1> HIDE DEF l, t, g
<1>3. g[0] = Hear(d, s[1])
  <2>1. 0 \in 0..(l - 1) /\ 1 \in 1..l /\ 0 + 1 = 1 /\ 1 - 1 = 0
    BY <1>1
  <2> QED
    BY <1>2, <2>1 DEF Path, l
<1>4. ASSUME NEW k \in 0..(l - 1)
      PROVE  Sound(g[k])
  <2>1. k + 1 \in 0..l
    BY <1>1
  <2> QED
    BY <1>2, <2>1 DEF Path, l
<1>5. ASSUME NEW k \in 1..(l - 1)
      PROVE  /\ g[k] = Hear(g[k - 1], t[k])
             /\ Echoes(t[k]) => t[k].ops.node \notin ToSet(g[k - 1].order)
  <2>1. k + 1 \in 1..l /\ k \in 0..(l - 1) /\ k - 1 \in 0..(l - 1) /\ (k + 1) - 1 = k /\ (k - 1) + 1 = k
    BY <1>1
  <2>2. g[k] = h[k + 1] /\ g[k - 1] = h[k] /\ t[k] = s[k + 1]
    BY <1>1, <1>2, <2>1
  <2>3. h[k + 1] = Hear(h[(k + 1) - 1], s[k + 1])
    BY <2>1 DEF Path, l
  <2>4. Echoes(s[k + 1]) => s[k + 1].ops.node \notin ToSet(h[(k + 1) - 1].order)
    BY <2>1 DEF First, l
  <2> QED
    BY <2>1, <2>2, <2>3, <2>4
<1>6. Path(g, t, Hear(d, s[1]))
  BY <1>1, <1>3, <1>4, <1>5 DEF Path
<1>7. First(g, t)
  BY <1>1, <1>5 DEF First
<1>8. g[Len(t)] = h[l]
  <2>1. l - 1 \in 0..(l - 1) /\ (l - 1) + 1 = l
    BY <1>1
  <2> QED
    BY <1>1, <1>2, <2>1
<1> QED
  BY <1>6, <1>7, <1>8 DEF t, l

(* ... two paths that meet are one ... *)
LEMMA PathConcat ==
    ASSUME NEW s \in Seq(Parcel), NEW t \in Seq(Parcel), NEW d, NEW h, Path(h, s, d), First(h, s),
           NEW f, Path(f, t, h[Len(s)]), First(f, t)
    PROVE  \E g : /\ Path(g, s \o t, d) /\ First(g, s \o t)
                  /\ g[Len(s \o t)] = f[Len(t)]
<1> DEFINE l == Len(s)
           n == Len(t)
           u == s \o t
           g == [k \in 0..(l + n) |-> IF k <= l THEN h[k] ELSE f[k - l]]
<1>1. l \in Nat /\ n \in Nat
  BY LenProperties
<1>2. /\ Len(u) = l + n
      /\ \A k \in 1..l : u[k] = s[k]
      /\ \A k \in 1..n : u[l + k] = t[k]
  <2>1. Listed(s) /\ Listed(t)
    BY SeqListed
  <2> QED
    BY <2>1, ListedConcat
<1>3. \A k \in 0..l : g[k] = h[k]
  BY <1>1
<1>4. f[0] = h[l]
  BY DEF Path
<1>5. \A k \in 0..n : g[l + k] = f[k]
  <2> SUFFICES ASSUME NEW k \in 0..n
               PROVE  g[l + k] = f[k]
    OBVIOUS
  <2>1. CASE k = 0
    BY <1>1, <1>4, <2>1
  <2>2. CASE k # 0
    <3>1. l + k \in 0..(l + n) /\ ~(l + k <= l) /\ (l + k) - l = k
      BY <1>1, <2>2
    <3> QED
      BY <3>1
  <2> QED
    BY <2>1, <2>2
<1>6. /\ \A k \in 0..l : Sound(h[k])
      /\ \A k \in 1..l : h[k] = Hear(h[k - 1], s[k])
      /\ \A k \in 0..n : Sound(f[k])
      /\ \A k \in 1..n : f[k] = Hear(f[k - 1], t[k])
      /\ \A k \in 1..l : Echoes(s[k]) => s[k].ops.node \notin ToSet(h[k - 1].order)
      /\ \A k \in 1..n : Echoes(t[k]) => t[k].ops.node \notin ToSet(f[k - 1].order)
  BY DEF Path, First
<1>7. g[0] = d
  <2>1. 0 \in 0..l
    BY <1>1
  <2> QED
    BY <1>3, <2>1 DEF Path
<1> HIDE DEF l, n, u, g
<1>8. ASSUME NEW k \in 0..(l + n)
      PROVE  Sound(g[k])
  <2>1. CASE k <= l
    <3>1. k \in 0..l
      BY <1>1, <2>1
    <3> QED
      BY <1>3, <1>6, <3>1
  <2>2. CASE ~(k <= l)
    <3>1. k - l \in 0..n /\ l + (k - l) = k
      BY <1>1, <2>2
    <3>2. g[l + (k - l)] = f[k - l]
      BY <1>5, <3>1
    <3> QED
      BY <1>6, <3>1, <3>2
  <2> QED
    BY <2>1, <2>2
<1>9. ASSUME NEW k \in 1..(l + n)
      PROVE  /\ g[k] = Hear(g[k - 1], u[k])
             /\ Echoes(u[k]) => u[k].ops.node \notin ToSet(g[k - 1].order)
  <2>1. CASE k <= l
    <3>1. k \in 1..l /\ k \in 0..l /\ k - 1 \in 0..l
      BY <1>1, <2>1
    <3> QED
      BY <1>2, <1>3, <1>6, <3>1
  <2>2. CASE ~(k <= l)
    <3> DEFINE j == k - l
    <3>1. j \in 1..n /\ j \in 0..n /\ j - 1 \in 0..n /\ l + j = k /\ l + (j - 1) = k - 1
      BY <1>1, <2>2
    <3> HIDE DEF j
    <3>2. g[k] = f[j] /\ g[k - 1] = f[j - 1] /\ u[k] = t[j]
      BY <1>2, <1>5, <3>1
    <3> QED
      BY <1>6, <3>1, <3>2
  <2> QED
    BY <2>1, <2>2
<1>10. Path(g, u, d) /\ First(g, u)
  BY <1>2, <1>7, <1>8, <1>9 DEF Path, First
<1>11. g[Len(u)] = f[n]
  <2>1. n \in 0..n
    BY <1>1
  <2> QED
    BY <1>2, <1>5, <2>1
<1> QED
  BY <1>10, <1>11 DEF u, n

(* ... and whatever is on its way, there is one. *)
LEMMA PathExists ==
    ASSUME NEW s \in Seq(Parcel), NEW d, Sound(d)
    PROVE  \E h : Path(h, s, d)
<1> DEFINE S == {e \in Doc : Sound(e)}
           n == Len(s)
           step == [k \in Nat |-> [e \in S |-> IF k \in 1..n THEN Hear(e, s[k]) ELSE e]]
<1>1. n \in Nat /\ (\A k \in 1..n : s[k] \in Parcel) /\ d \in S
  BY LenProperties, ElementOfSeq DEF Sound
<1>2. \A e : e \in S <=> Sound(e)
  BY DEF Sound
<1> HIDE DEF n, S
<1>3. step \in [Nat -> [S -> S]]
  <2> SUFFICES ASSUME NEW k \in Nat, NEW e \in S
               PROVE  (IF k \in 1..n THEN Hear(e, s[k]) ELSE e) \in S
    OBVIOUS
  <2> QED
    BY <1>1, <1>2, HearSound
<1>4. PICK g \in [0..n -> S] : Recursion(g, n, d, step)
  <2> HIDE DEF step
  <2> QED
    BY <1>1, <1>3, RecursionExists
<1>5. \A k \in 0..n : Sound(g[k])
  BY <1>2
<1>6. ASSUME NEW k \in 0..n
      PROVE  g[k] = IF k = 0 THEN d ELSE Hear(g[k - 1], s[k])
  <2>1. g[k] = IF k = 0 THEN d ELSE step[k][g[k - 1]]
    BY <1>4 DEF Recursion
  <2>2. k # 0 => k \in Nat /\ k \in 1..n /\ g[k - 1] \in S
    BY <1>1
  <2> QED
    BY <2>1, <2>2
<1>7. g[0] = d /\ \A k \in 1..n : g[k] = Hear(g[k - 1], s[k])
  <2>1. 0 \in 0..n /\ \A k \in 1..n : k \in 0..n /\ k # 0
    BY <1>1
  <2> QED
    BY <1>6, <2>1
<1>8. Path(g, s, d)
  BY <1>5, <1>7 DEF Path, n
<1> QED
  BY <1>8

-----------------------------------------------------------------------------
(* What is broadcast after the snapshot that already shows it: heard on    *)
(* top of the snapshot it changes nothing, if one commit of it at most is  *)
(* structural.                                                             *)

Simple == \A i, j \in DOMAIN late : i < j => ~(Structural(late[i]) /\ Structural(late[j]))

Deleted(x) == \E k \in DOMAIN late : late[k].ops.kind = "delete" /\ late[k].ops.node = x
Writes(i, x) == i \in DOMAIN late /\ late[i].ops.kind # "insert" /\ x \in DOMAIN late[i].ops.state
WritesLast(i, x) == Writes(i, x) /\ \A j : j > i => ~Writes(j, x)

LateInv ==
    /\ late # <<>> => srv = "resync" /\ link # "down"
    /\ \A i \in DOMAIN late : \A x \in DOMAIN late[i].ops.state :
          x \in ToSet(sdoc.order) \/ Deleted(x)
    /\ Simple =>
          /\ \A i \in DOMAIN late : Settled(sdoc.order, late[i].ops) = sdoc.order
          /\ \A i, x : WritesLast(i, x) /\ x \in ToSet(sdoc.order)
                          => late[i].ops.state[x] = sdoc.val[x]

(* A commit heard where it has been made leaves the order as it is.        *)
LEMMA RecordedStays ==
    ASSUME NEW d, Sound(d), NEW o \in Commit, Fits(d, o)
    PROVE  LET n == Committed(d, o)
               r == Recorded(d, o, n)
           IN  /\ Settled(n.order, r) = n.order
               /\ r.kind = "none" => n.order = d.order
               /\ r.kind # "none" => r.kind = o.kind /\ r.node = o.node
<1> DEFINE n == Committed(d, o)
           r == Recorded(d, o, n)
<1>1. /\ Sound(n) /\ n.order = Placed(d.order, o)
      /\ o \in Ops /\ Wire(o) /\ Aims(o)
  BY CommittedIs, CommitIs
<1>2. /\ d.order \in Order /\ n.order \in Order
      /\ \A x : Contains(d.order, x) <=> x \in ToSet(d.order)
      /\ \A x : Contains(n.order, x) <=> x \in ToSet(n.order)
  BY <1>1, OrderIs DEF Sound, Order
<1>3. /\ o.kind \in {"insert", "move"} => ToSet(n.order) = ToSet(d.order) \cup {o.node}
      /\ o.kind = "delete" => ToSet(n.order) = ToSet(d.order) \ {o.node}
      /\ o.kind = "none" => n.order = d.order
  BY <1>1, <1>2, PlacedOrder DEF Fits
<1> HIDE DEF n
<1>4. /\ n.order = d.order => r.kind = "none"
      /\ n.order # d.order => /\ r.kind = o.kind /\ r.node = o.node
                              /\ r.prev = PrevOf(n.order, o.node)
                              /\ r.next = NextOf(n.order, o.node)
  <2>1. /\ Wire(r) /\ DOMAIN r.state = Wrote(d, o, n)
        /\ n.order = d.order => r.kind = "none"
        /\ n.order # d.order => /\ r.kind = o.kind /\ r.node = o.node
                                /\ r.prev = PrevOf(n.order, o.node)
                                /\ r.next = NextOf(n.order, o.node)
        /\ r.state = [x \in Wrote(d, o, n) |-> n.val[x]]
    BY <1>1, RecordedIs
  <2> HIDE DEF r
  <2> QED
    BY <2>1
<1> HIDE DEF r
<1>5. o.kind \in {"none", "insert", "delete", "move"}
  BY <1>1 DEF Wire
<1>6. Settled(n.order, r) = n.order
  <2>1. CASE n.order = d.order
    BY <1>4, <2>1 DEF Settled, Stays, Placed
  <2>2. CASE n.order # d.order /\ o.kind = "insert"
    BY <1>2, <1>3, <1>4, <2>2 DEF Settled, Stays
  <2>3. CASE n.order # d.order /\ o.kind = "delete"
    <3>1. ~Contains(n.order, o.node) /\ n.order \in Seq(Nodes)
      BY <1>2, <1>3, <2>3 DEF Order
    <3>2. RemoveFirst(n.order, o.node) = n.order
      BY <3>1, RemoveFirstIs
    <3> QED
      BY <1>4, <2>3, <3>2 DEF Settled, Stays, Placed
  <2>4. CASE n.order # d.order /\ o.kind = "move"
    <3>1. o.node \in ToSet(n.order)
      BY <1>3, <2>4
    <3>2. Place(RemoveFirst(n.order, o.node), o.node, PrevOf(n.order, o.node),
                NextOf(n.order, o.node)) = n.order
      BY <1>2, <3>1, Replaced
    <3> QED
      BY <1>4, <2>4, <3>2 DEF Settled, Stays, Placed
  <2> QED
    BY <1>3, <1>5, <2>1, <2>2, <2>3, <2>4
<1> QED
  BY <1>3, <1>4, <1>6 DEF r, n

(* A commit broadcast late is one more that changes nothing. *)
LEMMA LateAppended ==
    ASSUME TypeInv, LateInv, NEW o \in Commit, Fits(sdoc, o), sdoc' = Committed(sdoc, o),
           Brings(Recorded(sdoc, o, sdoc')),
           late' = Append(late, PatchMsg(0, Recorded(sdoc, o, sdoc'))),
           srv' = "resync", link' # "down"
    PROVE  LateInv'
<1> DEFINE r == Recorded(sdoc, o, sdoc')
           m == PatchMsg(0, r)
<1>0. PICK l \in Nat : l = Len(late)
  BY LenProperties DEF TypeInv
<1>1. /\ Sound(sdoc) /\ Sound(sdoc') /\ o \in Ops /\ Wire(o) /\ Aims(o)
      /\ sdoc'.order = Placed(sdoc.order, o) /\ sdoc.order \in Order
  BY CommittedIs, CommitIs DEF TypeInv, Sound
<1>2. /\ DOMAIN r.state = Wrote(sdoc, o, sdoc')
      /\ \A x \in Wrote(sdoc, o, sdoc') : r.state[x] = sdoc'.val[x]
      /\ sdoc'.order # sdoc.order => r.kind = o.kind /\ r.node = o.node
  <2>1. /\ DOMAIN r.state = Wrote(sdoc, o, sdoc')
        /\ r.state = [x \in Wrote(sdoc, o, sdoc') |-> sdoc'.val[x]]
        /\ sdoc'.order # sdoc.order => r.kind = o.kind /\ r.node = o.node
    BY <1>1, RecordedIs
  <2> HIDE DEF r
  <2> QED
    BY <2>1
<1>3. /\ Settled(sdoc'.order, r) = sdoc'.order
      /\ r.kind = "none" => sdoc'.order = sdoc.order
      /\ r.kind # "none" => r.kind = o.kind /\ r.node = o.node
  BY <1>1, RecordedStays
<1>4. m \in Echo /\ m.ops = r
  BY <1>1, RecordedCommit, MessagesAre DEF PatchMsg
<1>5. /\ DOMAIN late = 1..l /\ DOMAIN late' = 1..(l + 1)
      /\ \A i \in 1..l : late'[i] = late[i]
      /\ late'[l + 1] = m
  <2>1. late \in Seq(Echo) /\ m \in Echo /\ late' = Append(late, m)
    BY <1>4 DEF TypeInv
  <2> HIDE DEF m
  <2> QED
    BY <1>0, <2>1, AppendedAt
<1>6. Brings(r)
  OBVIOUS
<1>7. \A x \in ToSet(sdoc'.order) : x \in ToSet(sdoc.order) \/ Inserts(o, x)
  BY <1>1, CommittedHolds
<1>8. o.kind = "insert" => o.node \notin ToSet(sdoc.order)
  BY <1>1, OrderIs DEF Fits, Order
<1> HIDE DEF r, m
<1>9. \A i : i \in 1..(l + 1) => i \in 1..l \/ i = l + 1
  BY <1>5
<1>10. l + 1 \in DOMAIN late' /\ \A i \in 1..l : i \in DOMAIN late' /\ i < l + 1
  BY <1>5
<1>11. \A i \in 1..l : \A x : Writes(i, x)' <=> Writes(i, x)
  BY <1>5, <1>10 DEF Writes
<1>12. \A x : Writes(l + 1, x)' <=> r.kind # "insert" /\ x \in DOMAIN r.state
  BY <1>4, <1>5, <1>10 DEF Writes
<1>13. \A x : Deleted(x) => Deleted(x)'
  BY <1>5, <1>10 DEF Deleted
<1>14. ASSUME NEW i \in DOMAIN late', NEW x \in DOMAIN late'[i].ops.state
       PROVE  x \in ToSet(sdoc'.order) \/ Deleted(x)'
  <2>1. CASE i = l + 1
    BY <1>2, <1>4, <1>5, <2>1 DEF Wrote
  <2>2. CASE i \in 1..l
    <3>1. x \in ToSet(sdoc.order) \/ Deleted(x)
      BY <1>5, <2>2 DEF LateInv
    <3>2. CASE x \in ToSet(sdoc.order) /\ x \notin ToSet(sdoc'.order)
      <4>1. o.kind = "delete" /\ x = o.node
        <5>1. o.kind \in {"none", "insert", "delete", "move"}
          BY <1>1 DEF Wire
        <5>2. /\ o.kind \in {"insert", "move"} => ToSet(sdoc'.order) = ToSet(sdoc.order) \cup {o.node}
              /\ o.kind = "delete" => ToSet(sdoc'.order) = ToSet(sdoc.order) \ {o.node}
              /\ o.kind = "none" => sdoc'.order = sdoc.order
          BY <1>1, PlacedOrder DEF Fits
        <5> QED
          BY <3>2, <5>1, <5>2
      <4>2. r.kind = "delete" /\ r.node = x
        BY <1>2, <3>2, <4>1
      <4> QED
        BY <1>4, <1>5, <1>10, <4>2 DEF Deleted
    <3> QED
      BY <1>13, <3>1, <3>2
  <2> QED
    BY <1>5, <1>9, <2>1, <2>2
<1>15. ASSUME Simple'
       PROVE  Simple /\ \A i \in 1..l : r.kind # "none" => late[i].ops.kind = "none"
  BY <1>4, <1>5, <1>10, <1>15 DEF Simple, Structural
<1>16. ASSUME Simple', NEW i \in DOMAIN late'
       PROVE  Settled(sdoc'.order, late'[i].ops) = sdoc'.order
  <2>1. CASE i = l + 1
    BY <1>3, <1>4, <1>5, <2>1
  <2>2. CASE i \in 1..l /\ r.kind = "none"
    BY <1>3, <1>5, <1>15, <1>16, <2>2 DEF LateInv
  <2>3. CASE i \in 1..l /\ r.kind # "none"
    <3>1. late'[i].ops.kind = "none"
      BY <1>5, <1>15, <1>16, <2>3
    <3> QED
      BY <3>1 DEF Settled, Stays, Placed
  <2> QED
    BY <1>5, <1>9, <2>1, <2>2, <2>3
<1>17. ASSUME Simple', NEW i, NEW x, WritesLast(i, x)', x \in ToSet(sdoc'.order)
       PROVE  late'[i].ops.state[x] = sdoc'.val[x]
  <2>1. i \in 1..(l + 1)
    BY <1>5, <1>17 DEF WritesLast, Writes
  <2>2. CASE i = l + 1
    BY <1>2, <1>4, <1>5, <1>12, <1>17, <2>2 DEF WritesLast
  <2>3. CASE i \in 1..l
    <3>1. WritesLast(i, x)
      <4>1. \A j : j > i /\ Writes(j, x) => j \in 1..l
        BY <1>5 DEF Writes
      <4> QED
        BY <1>11, <1>17, <2>3, <4>1 DEF WritesLast
    <3>2. r.kind = "insert" \/ x \notin DOMAIN r.state
      <4>1. l + 1 > i
        BY <1>5, <2>3
      <4> QED
        BY <1>12, <1>17, <4>1 DEF WritesLast
    <3>3. CASE x \notin Wrote(sdoc, o, sdoc')
      <4>1. sdoc'.val[x] = sdoc.val[x] /\ ~Inserts(o, x)
        BY <1>17, <3>3 DEF Wrote, Inserts
      <4>2. x \in ToSet(sdoc.order)
        BY <1>7, <1>17, <4>1
      <4>3. late[i].ops.state[x] = sdoc.val[x]
        BY <1>15, <1>17, <3>1, <4>2 DEF LateInv
      <4> QED
        BY <1>5, <2>3, <4>1, <4>3
    <3>4. CASE x \in Wrote(sdoc, o, sdoc')
      <4>1. r.kind = "insert" /\ x \in {r.node}
        BY <1>2, <1>6, <3>2, <3>4 DEF Brings
      <4>2. o.kind = "insert" /\ x = o.node /\ x \notin ToSet(sdoc.order)
        BY <1>3, <1>8, <4>1
      <4>3. i \in DOMAIN late /\ x \in DOMAIN late[i].ops.state
        BY <3>1 DEF WritesLast, Writes
      <4>4. Deleted(x)
        BY <4>2, <4>3 DEF LateInv
      <4>5. PICK k \in 1..l : late[k].ops.kind = "delete"
        BY <1>5, <4>4 DEF Deleted
      <4> QED
        BY <1>15, <1>17, <4>1, <4>5
    <3> QED
      BY <3>3, <3>4
  <2> QED
    BY <1>9, <2>1, <2>2, <2>3
<1>18. (late' # <<>>) => (srv' = "resync" /\ link' # "down")
  OBVIOUS
<1> QED
  BY <1>14, <1>16, <1>17, <1>18 DEF LateInv

(* Nothing broadcast late changes nothing. *)
LEMMA LateEmpty ==
    ASSUME late' = <<>>
    PROVE  LateInv'
<1>1. DOMAIN late' = {}
  BY EmptyListed
<1> QED
  BY <1>1 DEF LateInv, WritesLast, Writes

(* What was broadcast late, heard on top of what it was made from, leads   *)
(* back there.                                                             *)
LEMMA LateLeads ==
    ASSUME TypeInv, LateInv, Simple, NEW h, Path(h, late, sdoc)
    PROVE  h[Len(late)] = sdoc
<1> DEFINE l == Len(late)
           Meets(k) == /\ h[k].order = sdoc.order
                       /\ \A x \in ToSet(sdoc.order) :
                             (\A j : j > k => ~Writes(j, x)) => h[k].val[x] = sdoc.val[x]
           T == {k \in Nat : k <= l => Meets(k)}
<1>1. /\ l \in Nat /\ DOMAIN late = 1..l /\ Sound(sdoc)
      /\ \A k \in 1..l : late[k] \in Echo
  BY LenProperties, ElementOfSeq DEF TypeInv
<1>2. /\ h[0] = sdoc
      /\ \A k \in 0..l : Sound(h[k])
      /\ \A k \in 1..l : h[k] = Hear(h[k - 1], late[k])
  BY DEF Path
<1> HIDE DEF l
<1>3. 0 \in T
  BY <1>2
<1>4. ASSUME NEW k \in Nat, k \in T
      PROVE  k + 1 \in T
  <2> SUFFICES ASSUME k + 1 <= l
               PROVE  Meets(k + 1)
    OBVIOUS
  <2> DEFINE n == k + 1
             o == late[n].ops
  <2>1. n \in 1..l /\ k \in 0..l /\ n \in 0..l /\ n - 1 = k /\ k <= l
    BY <1>1
  <2>2. Meets(k)
    BY <1>4, <2>1
  <2> HIDE DEF n
  <2>3. o \in Commit /\ Wire(o) /\ h[n] = Lenient(h[k], o)
    <3>1. late[n].type = "patch" /\ o \in Commit
      BY <1>1, <2>1, EchoIs
    <3>2. h[n] = Hear(h[n - 1], late[n])
      BY <1>2, <2>1
    <3> QED
      BY <2>1, <3>1, <3>2, CommitIs DEF Hear
  <2>4. Settled(sdoc.order, o) = sdoc.order
    BY <1>1, <2>1 DEF LateInv
  <2>5. Sound(h[k]) /\ h[k].order = sdoc.order
    BY <1>2, <2>1, <2>2
  <2>6. /\ h[n].order = sdoc.order
        /\ Skips(h[k], o) => h[n] = h[k]
        /\ ~Skips(h[k], o) => \A x \in Nodes : h[n].val[x] =
              IF x \in ToSet(sdoc.order) THEN After(o, h[k].val, x) ELSE 0
    <3>1. /\ Lenient(h[k], o).order = Settled(h[k].order, o)
          /\ Skips(h[k], o) => Lenient(h[k], o) = h[k]
          /\ ~Skips(h[k], o) => \A x \in Nodes : Lenient(h[k], o).val[x] =
                IF x \in ToSet(Settled(h[k].order, o)) THEN After(o, h[k].val, x) ELSE 0
      BY <2>3, <2>5, LenientIs
    <3> HIDE DEF o
    <3> QED
      BY <2>3, <2>4, <2>5, <3>1
  <2>7. ASSUME NEW x \in ToSet(sdoc.order), \A j : j > n => ~Writes(j, x)
        PROVE  h[n].val[x] = sdoc.val[x]
    <3>1. x \in Nodes
      BY <1>1, OrderIs DEF Sound, Order
    <3>2. \A j : j > k /\ Writes(j, x) => j = n
      <4>1. \A j : j > k /\ j \in 1..l => j = n \/ j > n
        BY <2>1
      <4> QED
        BY <1>1, <2>7, <4>1 DEF Writes
    <3>3. CASE o.kind = "insert"
      <4>1. Skips(h[k], o)
        <5>1. o.node \in ToSet(sdoc.order)
          <6>1. ToSet(Settled(sdoc.order, o)) = ToSet(sdoc.order) \cup {o.node}
            BY <1>1, <2>3, <3>3, SettledOrder DEF Sound
          <6> QED
            BY <2>4, <6>1
        <5> QED
          BY <1>1, <2>5, <3>3, <5>1, OrderIs DEF Skips, Sound, Order
      <4>2. ~Writes(n, x)
        BY <3>3 DEF Writes
      <4>3. \A j : j > k => ~Writes(j, x)
        BY <3>2, <4>2
      <4> QED
        BY <2>2, <2>6, <4>1, <4>3
    <3>4. CASE o.kind # "insert" /\ x \in DOMAIN o.state
      <4>1. WritesLast(n, x)
        BY <1>1, <2>1, <2>7, <3>4 DEF WritesLast, Writes
      <4>2. o.state[x] = sdoc.val[x]
        BY <4>1 DEF LateInv
      <4> QED
        BY <2>6, <3>1, <3>4, <4>2 DEF Skips, After
    <3>5. CASE o.kind # "insert" /\ x \notin DOMAIN o.state
      <4>1. ~Writes(n, x)
        BY <3>5 DEF Writes
      <4>2. h[k].val[x] = sdoc.val[x]
        BY <2>2, <3>2, <4>1
      <4> QED
        BY <2>6, <3>1, <3>5, <4>2 DEF Skips, After
    <3> QED
      BY <3>3, <3>4, <3>5
  <2> QED
    BY <2>6, <2>7 DEF n
<1>5. Nat \subseteq T
  <2> HIDE DEF T
  <2> QED
    BY <1>3, <1>4, Induction
<1>6. Meets(l)
  BY <1>1, <1>5
<1>7. \A x : \A j : j > l => ~Writes(j, x)
  BY <1>1 DEF Writes
<1>8. Sound(h[l]) /\ h[l].order = sdoc.order /\ \A x \in ToSet(sdoc.order) : h[l].val[x] = sdoc.val[x]
  <2>1. l \in 0..l
    BY <1>1
  <2> QED
    BY <1>2, <1>6, <1>7, <2>1
<1>9. h[l] = sdoc
  BY <1>1, <1>8, SameDocument
<1> QED
  BY <1>9 DEF l

(* A step that commits nothing and broadcasts nothing late. *)
LEMMA LateKept ==
    ASSUME LateInv, UNCHANGED <<sdoc, late>>, late # <<>> => srv' = "resync" /\ link' # "down"
    PROVE  LateInv'
BY DEF LateInv, Simple, Deleted, WritesLast, Writes, Structural

(* A broadcast, late or not. *)
LEMMA BroadcastLate ==
    ASSUME Tally \notin Nodes, TypeInv, Linked, Normal, LateInv, NEW o \in Commit, Fits(sdoc, o),
           Brings(o), Broadcast(o)
    PROVE  LateInv'
<1> DEFINE r == Recorded(sdoc, o, sdoc')
<1>1. sdoc' = Committed(sdoc, o) /\ UNCHANGED <<srv, link>>
  BY DEF Broadcast
<1>2. Brings(r)
  BY <1>1, RecordedBrings
<1>3. \/ link = "down" /\ late' = late
      \/ late = <<>> /\ late' = late
      \/ srv = "resync" /\ late' = Append(late, PatchMsg(0, r))
  BY DEF Broadcast
<1>4. link = "down" => late = <<>> /\ srv = "idle"
  BY DEF Linked
<1> HIDE DEF r
<1>5. CASE late' = <<>>
  BY <1>5, LateEmpty
<1>6. CASE srv = "resync" /\ late' = Append(late, PatchMsg(0, r))
  BY <1>1, <1>2, <1>4, <1>6, LateAppended DEF r
<1> QED
  BY <1>3, <1>4, <1>5, <1>6

(* Every step keeps what is known of the late broadcasts. *)
LEMMA NextLate ==
    ASSUME Tally \notin Nodes, TypeInv, Linked, Normal, LateInv, [Next]_vars
    PROVE  LateInv'
<1>1. CASE Serve \/ SendError
  <2>1. late = <<>> /\ late' = late
    BY <1>1 DEF Serve, SendError, LateInv
  <2> QED
    BY <2>1, LateEmpty
<1>2. CASE Resync \/ GoOffline
  BY <1>2, LateEmpty DEF Resync, GoOffline
<1>3. CASE Connect
  <2>1. late = <<>> /\ late' = late
    BY <1>3 DEF Connect, Linked
  <2> QED
    BY <2>1, LateEmpty
<1>4. CASE HandlePatch \/ HandleError \/ InitDoc
  <2>1. UNCHANGED <<sdoc, late, srv>> /\ (link' = link \/ link' = "up")
    BY <1>4 DEF HandlePatch, HandleError, InitDoc, Received
  <2>2. late # <<>> => srv' = "resync" /\ link' # "down"
    BY <2>1 DEF LateInv
  <2> QED
    BY <2>1, <2>2, LateKept
<1>5. CASE Edit \/ UNCHANGED vars
  <2>1. UNCHANGED <<sdoc, late, srv, link>>
    <3>1. CASE Edit
      <4>1. PICK o, a, g, w : Queued(o, a, g, w)
        BY <3>1, EditQueued
      <4> QED
        BY <4>1 DEF Queued, Queue
    <3> QED
      BY <1>5, <3>1 DEF vars
  <2>2. late # <<>> => srv' = "resync" /\ link' # "down"
    BY <2>1 DEF LateInv
  <2> QED
    BY <2>1, <2>2, LateKept
<1>6. CASE HostCommit
  <2>1. PICK o \in HostEdits : Broadcast(o)
    BY <1>6 DEF HostCommit
  <2>2. o \in Commit /\ Fits(sdoc, o) /\ Brings(o)
    BY HostEditFits DEF Brings
  <2> QED
    BY <2>1, <2>2, BroadcastLate
<1>7. CASE ServeGhost
  <2> DEFINE o == Head(ghost).ops
  <2>1. o \in Own /\ o \in Commit /\ Shape(o)
    <3>1. Head(ghost) \in Request
      BY <1>7, HeadTailSeq DEF ServeGhost, TypeInv
    <3> QED
      BY <3>1, OwnIs DEF Request
  <2>2. Brings(o)
    BY <2>1 DEF Shape, Brings
  <2>3. (Applies(sdoc, o) /\ Broadcast(o)) \/ UNCHANGED <<sdoc, late, srv, link>>
    BY <1>7 DEF ServeGhost
  <2> HIDE DEF o
  <2>4. CASE Applies(sdoc, o) /\ Broadcast(o)
    BY <2>1, <2>2, <2>4, AppliesFits, BroadcastLate
  <2>5. CASE UNCHANGED <<sdoc, late, srv, link>>
    <3>1. late # <<>> => srv' = "resync" /\ link' # "down"
      BY <2>5 DEF LateInv
    <3> QED
      BY <2>5, <3>1, LateKept
  <2> QED
    BY <2>3, <2>4, <2>5
<1> QED
  BY <1>1, <1>2, <1>3, <1>4, <1>5, <1>6, <1>7 DEF Next

-----------------------------------------------------------------------------
(* A rejection is followed by a snapshot.                                  *)

Corrected(i) == \E j \in DOMAIN down : j > i /\ down[j].type = "snapshot"
Excused ==
    /\ rejected /\ Online => srv = "resync" \/ Corrected(0)
    /\ \A i \in DOMAIN down : down[i].type = "error" => srv = "resync" \/ Corrected(i)

(* A message more, which is a rejection only if its snapshot is to come. *)
LEMMA ExcusedAppended ==
    ASSUME TypeInv, Excused, NEW m \in Parcel, down' = Append(down, m),
           m.type = "error" => srv' = "resync", srv = "resync" => srv' = "resync",
           UNCHANGED <<rejected, link>>
    PROVE  Excused'
<1>0. PICK l \in Nat : l = Len(down)
  BY LenProperties DEF TypeInv
<1>1. /\ DOMAIN down = 1..l /\ DOMAIN down' = 1..(l + 1)
      /\ \A i \in 1..l : down'[i] = down[i]
      /\ down'[l + 1] = m
  <2>1. down \in Seq(Parcel) /\ m \in Parcel
    BY DEF TypeInv
  <2> QED
    BY <1>0, <2>1, AppendedAt
<1>2. \A i : Corrected(i) => Corrected(i)'
  <2>1. \A j \in 1..l : j \in 1..(l + 1)
    OBVIOUS
  <2> QED
    BY <1>1, <2>1 DEF Corrected
<1>3. \A i \in DOMAIN down' : down'[i].type = "error" => srv' = "resync" \/ Corrected(i)'
  <2>1. \A i \in 1..(l + 1) : i \in 1..l \/ i = l + 1
    OBVIOUS
  <2> QED
    BY <1>1, <1>2, <2>1 DEF Excused
<1> QED
  BY <1>2, <1>3 DEF Excused, Online

(* A message less, which was no snapshot, or left nothing rejected. *)
LEMMA ExcusedTaken ==
    ASSUME TypeInv, Excused, down # <<>>, down' = Tail(down), srv' = srv
    PROVE  /\ \A i \in DOMAIN down' : down'[i].type = "error" => srv' = "resync" \/ Corrected(i)'
           /\ Corrected(1) => Corrected(0)'
           /\ 1 \in DOMAIN down /\ Head(down) = down[1]
           /\ down[1].type # "snapshot" /\ Corrected(0) => Corrected(0)'
<1>0. PICK l \in Nat : l = Len(down)
  BY LenProperties DEF TypeInv
<1>1. /\ DOMAIN down = 1..l /\ DOMAIN down' = 1..(l - 1) /\ l >= 1 /\ Head(down) = down[1]
      /\ \A i \in 1..(l - 1) : down'[i] = down[i + 1]
  BY <1>0, HeadTailSeq DEF TypeInv
<1>2. ASSUME NEW i \in Nat, Corrected(i + 1)
      PROVE  Corrected(i)'
  <2>1. PICK j \in 1..l : j > i + 1 /\ down[j].type = "snapshot"
    BY <1>1, <1>2 DEF Corrected
  <2>2. j - 1 \in 1..(l - 1) /\ j - 1 > i /\ (j - 1) + 1 = j
    BY <2>1
  <2>3. down'[j - 1] = down[j]
    BY <1>1, <2>2
  <2> QED
    BY <1>1, <2>1, <2>2, <2>3 DEF Corrected
<1>3. ASSUME NEW i \in DOMAIN down', down'[i].type = "error"
      PROVE  srv' = "resync" \/ Corrected(i)'
  <2>1. i \in Nat /\ i + 1 \in DOMAIN down /\ down'[i] = down[i + 1]
    BY <1>1
  <2> QED
    BY <1>2, <1>3, <2>1 DEF Excused
<1>4. Corrected(1) => Corrected(0)'
  <2>1. 0 + 1 = 1
    OBVIOUS
  <2>2. Corrected(0 + 1) => Corrected(0)'
    BY <1>2
  <2> QED
    BY <2>1, <2>2
<1>5. ASSUME down[1].type # "snapshot", Corrected(0)
      PROVE  Corrected(1)
  <2>1. PICK j \in 1..l : j > 0 /\ down[j].type = "snapshot"
    BY <1>1, <1>5 DEF Corrected
  <2>2. j > 1
    BY <1>5, <2>1
  <2> QED
    BY <1>1, <2>1, <2>2 DEF Corrected
<1> QED
  BY <1>1, <1>3, <1>4, <1>5

(* A broadcast is no rejection ... *)
LEMMA BroadcastExcused ==
    ASSUME TypeInv, Excused, NEW o \in Commit, Fits(sdoc, o), Broadcast(o)
    PROVE  Excused'
<1> DEFINE m == PatchMsg(0, Recorded(sdoc, o, sdoc'))
<1>1. Sound(sdoc') /\ UNCHANGED <<srv, link, rejected>>
  BY CommittedIs DEF Broadcast, TypeInv, client
<1>2. m \in Parcel /\ m.type = "patch"
  BY <1>1, RecordedCommit, MessagesAre, EchoIs DEF TypeInv, PatchMsg
<1>3. down' = down \/ down' = Append(down, m)
  BY DEF Broadcast
<1> HIDE DEF m
<1>4. CASE down' = down
  BY <1>1, <1>4 DEF Excused, Corrected, Online
<1>5. CASE down' = Append(down, m)
  BY <1>1, <1>2, <1>5, ExcusedAppended
<1> QED
  BY <1>3, <1>4, <1>5

(* ... nor is an answer. *)
LEMMA ServeExcused ==
    ASSUME TypeInv, Excused, Serve
    PROVE  Excused'
<1> DEFINE r == Head(up)
           m == PatchMsg(r.id, Answer(sdoc, r.ops, sdoc'))
<1>1. r \in Request /\ UNCHANGED <<rejected, link>> /\ srv = "idle"
  BY HeadTailSeq DEF Serve, TypeInv, client
<1>2. r.id \in 1..MaxEdits /\ r.ops \in Own /\ r.ops \in Commit
  BY <1>1, OwnIs DEF Request
<1>3. CASE Applies(sdoc, r.ops) /\ sdoc' = Committed(sdoc, r.ops) /\ down' = Append(down, m)
  <2>1. m \in Parcel /\ m.type = "patch"
    <3>1. Fits(sdoc, r.ops)
      BY <1>2, <1>3, AppliesFits
    <3>2. Sound(sdoc') /\ sdoc'.order = Placed(sdoc.order, r.ops)
      BY <1>3, <3>1, CommittedIs DEF TypeInv
    <3>3. Answer(sdoc, r.ops, sdoc') \in Commit
      BY <1>2, <1>3, <3>2, AnswerCommit DEF TypeInv, Applies
    <3>4. r.id \in 0..MaxEdits
      BY <1>2, BoundsAssumption
    <3> QED
      BY <3>3, <3>4, MessagesAre DEF PatchMsg
  <2> HIDE DEF m
  <2> QED
    BY <1>1, <1>3, <2>1, ExcusedAppended
<1>4. CASE down' = down
  BY <1>1, <1>4 DEF Excused, Corrected, Online
<1> QED
  BY <1>3, <1>4 DEF Serve

(* Every step leaves a snapshot to follow each rejection. *)
LEMMA NextExcused ==
    ASSUME TypeInv, Linked, Excused, [Next]_vars
    PROVE  Excused'
<1>1. CASE SendError
  <2> DEFINE m == ErrorMsg(Head(up).id)
  <2>1. up # <<>> /\ down' = Append(down, m) /\ srv' = "resync" /\ UNCHANGED <<rejected, link>>
    BY <1>1 DEF Linked, SendError, client
  <2>2. m \in Parcel
    <3>1. Head(up) \in Request
      BY <2>1, HeadTailSeq DEF TypeInv
    <3> QED
      BY <3>1, MessagesAre DEF Request
  <2> HIDE DEF m
  <2> QED
    BY <2>1, <2>2, ExcusedAppended
<1>2. CASE Resync
  <2> DEFINE m == SnapshotMsg(sdoc)
             s == Append(down, m)
  <2>1. down' = s \o late
    BY <1>2 DEF Resync
  <2>2. m \in Parcel /\ m.type = "snapshot"
    BY MessagesAre DEF TypeInv, SnapshotMsg
  <2>3. late \in Seq(Parcel) /\ \A i \in DOMAIN late : late[i].type = "patch"
    <3>1. \A i \in DOMAIN late : late[i] \in Echo
      BY LenProperties, ElementOfSeq DEF TypeInv
    <3>2. late \in Seq(Parcel)
      BY EchoIs, SeqMonotonic DEF TypeInv
    <3> QED
      BY <3>1, <3>2, EchoIs
  <2> HIDE DEF m
  <2>4. s \in Seq(Parcel) /\ Len(s) = Len(down) + 1 /\ s[Len(down) + 1] = m
    BY <2>2, AppendProperties DEF TypeInv
  <2>5. PICK l \in Nat : l = Len(s) /\ l >= 1 /\ s[l] = m
    BY <2>4, LenProperties DEF TypeInv
  <2> HIDE DEF s
  <2>6. PICK n \in Nat : n = Len(late) /\ DOMAIN late = 1..n
    BY <2>3, LenProperties
  <2>7. /\ DOMAIN down' = 1..(l + n)
        /\ \A i \in 1..l : down'[i] = s[i]
        /\ \A i \in 1..n : down'[l + i] = late[i]
    <3>1. Listed(s) /\ Listed(late)
      BY <2>3, <2>4, SeqListed
    <3>2. Listed(s \o late) /\ Len(s \o late) = l + n
      BY <2>5, <2>6, <3>1, ListedConcat
    <3> QED
      BY <2>1, <2>5, <2>6, <3>1, <3>2, ListedConcat, ListedIs
  <2>8. l \in DOMAIN down' /\ down'[l].type = "snapshot"
    BY <2>2, <2>5, <2>7
  <2>9. ASSUME NEW i \in DOMAIN down', down'[i].type = "error"
        PROVE  Corrected(i)'
    <3>1. CASE i < l
      BY <2>8, <3>1 DEF Corrected
    <3>2. CASE i = l
      BY <2>8, <2>9, <3>2
    <3>3. CASE i > l
      <4>1. i - l \in 1..n /\ l + (i - l) = i
        BY <2>7, <3>3
      <4>2. down'[l + (i - l)] = late[i - l]
        BY <2>7, <4>1
      <4> QED
        BY <2>3, <2>6, <2>9, <4>1, <4>2
    <3> QED
      BY <2>7, <3>1, <3>2, <3>3
  <2>10. Corrected(0)'
    <3>1. l > 0
      BY <2>5
    <3> QED
      BY <2>8, <3>1 DEF Corrected
  <2> QED
    BY <2>9, <2>10 DEF Excused
<1>3. CASE HandlePatch
  <2>1. /\ down # <<>> /\ down' = Tail(down) /\ UNCHANGED <<srv, rejected, link>>
        /\ Head(down).type = "patch"
    BY <1>3 DEF HandlePatch, Received
  <2>2. down[1].type # "snapshot"
    BY <2>1, ExcusedTaken
  <2>3. /\ \A i \in DOMAIN down' : down'[i].type = "error" => srv' = "resync" \/ Corrected(i)'
        /\ Corrected(0) => Corrected(0)'
    BY <2>1, <2>2, ExcusedTaken
  <2> QED
    BY <2>1, <2>3 DEF Excused, Online
<1>4. CASE HandleError
  <2>1. /\ down # <<>> /\ down' = Tail(down) /\ UNCHANGED srv
        /\ Head(down).type = "error"
    BY <1>4 DEF HandleError, Received
  <2>2. 1 \in DOMAIN down /\ down[1].type = "error"
    BY <2>1, ExcusedTaken
  <2>3. srv' = "resync" \/ Corrected(1)
    BY <2>1, <2>2 DEF Excused
  <2>4. /\ \A i \in DOMAIN down' : down'[i].type = "error" => srv' = "resync" \/ Corrected(i)'
        /\ Corrected(1) => Corrected(0)'
    BY <2>1, ExcusedTaken
  <2> QED
    BY <2>3, <2>4 DEF Excused
<1>5. CASE InitDoc
  <2>1. down # <<>> /\ down' = Tail(down) /\ UNCHANGED srv /\ rejected' = FALSE
    BY <1>5 DEF InitDoc, Received
  <2>2. \A i \in DOMAIN down' : down'[i].type = "error" => srv' = "resync" \/ Corrected(i)'
    BY <2>1, ExcusedTaken
  <2> QED
    BY <2>1, <2>2 DEF Excused
<1>6. CASE GoOffline
  <2>1. DOMAIN down' = {} /\ link' = "down"
    BY <1>6, EmptyListed DEF GoOffline
  <2> QED
    BY <2>1 DEF Excused, Online
<1>7. CASE Connect
  <2> DEFINE m == SnapshotMsg(sdoc)
  <2>1. down' = <<m>> /\ link' = "pending" /\ m.type = "snapshot"
    BY <1>7 DEF Connect, SnapshotMsg
  <2> HIDE DEF m
  <2>2. \A i \in DOMAIN down' : down'[i] = m
    BY <2>1
  <2> QED
    BY <2>1, <2>2 DEF Excused, Online
<1>8. CASE Edit \/ UNCHANGED vars
  <2>1. UNCHANGED <<down, srv, rejected, link>>
    <3>1. CASE Edit
      <4>1. PICK o, a, g, w : Queued(o, a, g, w)
        BY <3>1, EditQueued
      <4> QED
        BY <4>1 DEF Queued, Queue
    <3> QED
      BY <1>8, <3>1 DEF vars, client
  <2> QED
    BY <2>1 DEF Excused, Corrected, Online
<1>9. CASE HostCommit
  <2>1. PICK o \in HostEdits : Broadcast(o)
    BY <1>9 DEF HostCommit
  <2> QED
    BY <2>1, HostEditFits, BroadcastExcused
<1>10. CASE ServeGhost
  <2> DEFINE o == Head(ghost).ops
  <2>1. o \in Own /\ o \in Commit
    <3>1. Head(ghost) \in Request
      BY <1>10, HeadTailSeq DEF ServeGhost, TypeInv
    <3> QED
      BY <3>1, OwnIs DEF Request
  <2>2. (Applies(sdoc, o) /\ Broadcast(o)) \/ UNCHANGED <<down, srv, link, rejected>>
    BY <1>10 DEF ServeGhost, client
  <2> HIDE DEF o
  <2>3. CASE Applies(sdoc, o) /\ Broadcast(o)
    BY <2>1, <2>3, AppliesFits, BroadcastExcused
  <2>4. CASE UNCHANGED <<down, srv, link, rejected>>
    BY <2>4 DEF Excused, Corrected, Online
  <2> QED
    BY <2>2, <2>3, <2>4
<1> QED
  BY <1>1, <1>2, <1>3, <1>4, <1>5, <1>6, <1>7, <1>8, <1>9, <1>10, ServeExcused DEF Next

-----------------------------------------------------------------------------
(* What is on its way leads from what the client was told to what the      *)
(* server holds, unless the snapshot after a rejection is yet to be sent.  *)

Replay ==
    ~doubled /\ link # "down" =>
        \E h : /\ Path(h, down, base) /\ First(h, down)
               /\ late = <<>> => h[Len(down)] = sdoc

(* At first nothing is on its way and both hold the same document. *)
LEMMA InitReplay == Init => Replay
<1> SUFFICES ASSUME Init
             PROVE  Replay
  OBVIOUS
<1> DEFINE h == [k \in 0..0 |-> base]
<1>1. Len(down) = 0 /\ sdoc = base /\ Sound(base)
  BY InitType, EmptyListed DEF Init, TypeInv
<1>2. h[0] = base /\ \A k \in 0..0 : h[k] = base
  OBVIOUS
<1> HIDE DEF h
<1>3. 1..0 = {}
  OBVIOUS
<1>4. Path(h, down, base) /\ First(h, down) /\ h[Len(down)] = sdoc
  BY <1>1, <1>2, <1>3 DEF Path, First
<1> QED
  BY <1>4 DEF Replay

(* A commit and the message that leads to what it leaves. *)
LEMMA ReplayAppended ==
    ASSUME TypeInv, Replay, NEW m \in Parcel, down' = Append(down, m), late = <<>>,
           sdoc' = Hear(sdoc, m), Echoes(m) => m.ops.node \notin ToSet(sdoc.order),
           UNCHANGED <<base, late, link, doubled>>
    PROVE  Replay'
<1> SUFFICES ASSUME ~doubled, link # "down"
             PROVE  \E g : /\ Path(g, Append(down, m), base) /\ First(g, Append(down, m))
                           /\ g[Len(Append(down, m))] = sdoc'
  BY DEF Replay
<1>1. PICK h : Path(h, down, base) /\ First(h, down) /\ h[Len(down)] = sdoc
  BY DEF Replay
<1>2. PICK g : /\ Path(g, Append(down, m), base) /\ First(g, Append(down, m))
               /\ g[Len(Append(down, m))] = Hear(h[Len(down)], m)
  <2>1. down \in Seq(Parcel) /\ (Echoes(m) => m.ops.node \notin ToSet(h[Len(down)].order))
    BY <1>1 DEF TypeInv
  <2> QED
    BY <1>1, <2>1, PathAppend
<1> QED
  BY <1>1, <1>2

(* The client hears the first message. *)
LEMMA ReplayTaken ==
    ASSUME TypeInv, Replay, link # "down", down # <<>>, down' = Tail(down),
           base' = Hear(base, down[1]), UNCHANGED <<sdoc, late, doubled>>
    PROVE  Replay'
<1> SUFFICES ASSUME ~doubled
             PROVE  \E g : /\ Path(g, Tail(down), Hear(base, down[1])) /\ First(g, Tail(down))
                           /\ late = <<>> => g[Len(Tail(down))] = sdoc
  BY DEF Replay
<1>1. PICK h : Path(h, down, base) /\ First(h, down) /\ (late = <<>> => h[Len(down)] = sdoc)
  BY DEF Replay
<1>2. PICK g : /\ Path(g, Tail(down), Hear(base, down[1])) /\ First(g, Tail(down))
               /\ g[Len(Tail(down))] = h[Len(down)]
  BY <1>1, PathTail DEF TypeInv
<1> QED
  BY <1>1, <1>2

(* A step that tells nothing and hears nothing. *)
LEMMA ReplayKept ==
    ASSUME Replay, UNCHANGED <<down, base, doubled>>, link' # "down" => link # "down",
           \/ UNCHANGED <<sdoc, late>>
           \/ late' # <<>>
    PROVE  Replay'
BY DEF Replay

(* A broadcast leads from what the server held to what it holds ... *)
LEMMA BroadcastReplay ==
    ASSUME TypeInv, LateInv, Replay, NEW o \in Commit, Fits(sdoc, o), Broadcast(o),
           UNCHANGED doubled
    PROVE  Replay'
<1> DEFINE r == Recorded(sdoc, o, sdoc')
           m == PatchMsg(0, r)
<1>1. sdoc' = Committed(sdoc, o) /\ Sound(sdoc) /\ Sound(sdoc')
      /\ UNCHANGED <<srv, link, base>>
  BY CommittedIs DEF Broadcast, TypeInv, client
<1>2. r \in Commit /\ Lenient(sdoc, r) = sdoc'
  BY <1>1, RecordedCommit, RecordedLeads
<1>3. \/ link = "down"
      \/ late = <<>> /\ down' = Append(down, m) /\ late' = late
      \/ late' = Append(late, m) /\ down' = down /\ srv = "resync"
  BY DEF Broadcast
<1> HIDE DEF r
<1>4. /\ m \in Parcel /\ m \in Echo /\ ~Echoes(m)
      /\ Hear(sdoc, m) = sdoc'
  <2>1. m \in Echo /\ m.type = "patch" /\ m.ref = 0 /\ m.ops = r
    BY <1>2, MessagesAre DEF PatchMsg
  <2> QED
    BY <1>2, <2>1, EchoIs DEF Hear, Echoes
<1> HIDE DEF m
<1>5. CASE link = "down"
  BY <1>1, <1>5 DEF Replay
<1>6. CASE late = <<>> /\ down' = Append(down, m) /\ late' = late
  BY <1>1, <1>4, <1>6, ReplayAppended
<1>7. CASE late' = Append(late, m) /\ down' = down
  <2>1. late' # <<>>
    <3>1. late \in Seq(Echo) /\ m \in Echo
      BY <1>4 DEF TypeInv
    <3>2. Append(late, m) # <<>>
      BY <3>1, AppendProperties, EmptyListed, LenProperties
    <3> QED
      BY <1>7, <3>2
  <2> QED
    BY <1>1, <1>7, <2>1, ReplayKept
<1> QED
  BY <1>3, <1>5, <1>6, <1>7

(* ... as does its answer to a request ... *)
LEMMA ServeReplay ==
    ASSUME TypeInv, LateInv, Replay, Serve
    PROVE  Replay'
<1> DEFINE r == Head(up)
           n == Answer(sdoc, r.ops, sdoc')
           m == PatchMsg(r.id, n)
<1>1. r \in Request /\ late = <<>> /\ UNCHANGED <<base, late, link, doubled>>
  BY HeadTailSeq DEF Serve, TypeInv, client, LateInv
<1>2. r.id \in 1..MaxEdits /\ r.ops \in Own /\ r.ops \in Commit
  BY <1>1, OwnIs DEF Request
<1>3. CASE Applies(sdoc, r.ops) /\ sdoc' = Committed(sdoc, r.ops) /\ down' = Append(down, m)
  <2>1. Fits(sdoc, r.ops)
    BY <1>2, <1>3, AppliesFits
  <2>2. Sound(sdoc) /\ Sound(sdoc') /\ sdoc'.order = Placed(sdoc.order, r.ops)
    BY <1>3, <2>1, CommittedIs DEF TypeInv
  <2>3. n \in Commit
    BY <1>2, <1>3, <2>2, AnswerCommit DEF Applies
  <2>4. Lenient(sdoc, n) = sdoc'
    BY <1>2, <1>3, <2>2, AnswerLeads
  <2>5. n.kind = "insert" => n.node \notin ToSet(sdoc.order)
    <3>1. Inserts(n, n.node) => Inserts(r.ops, n.node)
      BY <1>2, <2>2, AnswerInserts
    <3>2. r.ops.kind = "insert" => r.ops.node \notin ToSet(sdoc.order)
      BY <2>1, <2>2, OrderIs DEF Fits, Sound, Order
    <3> QED
      BY <3>1, <3>2 DEF Inserts
  <2> HIDE DEF n
  <2>6. m \in Parcel /\ m.type = "patch" /\ m.ops = n
    <3>1. r.id \in 0..MaxEdits
      BY <1>2, BoundsAssumption
    <3> QED
      BY <2>3, <3>1, MessagesAre DEF PatchMsg
  <2> HIDE DEF m
  <2>7. sdoc' = Hear(sdoc, m) /\ (Echoes(m) => m.ops.node \notin ToSet(sdoc.order))
    BY <2>4, <2>5, <2>6 DEF Hear, Echoes
  <2> QED
    BY <1>1, <1>3, <2>6, <2>7, ReplayAppended
<1>4. CASE sdoc' = sdoc /\ down' = down
  BY <1>1, <1>4, ReplayKept
<1> QED
  BY <1>3, <1>4 DEF Serve

(* ... the snapshot with the late broadcasts after it leads there ... *)
LEMMA ResyncReplay ==
    ASSUME TypeInv, LateInv, Linked, Replay, Resync
    PROVE  Replay'
<1> DEFINE m == SnapshotMsg(sdoc)
           s == Append(down, m)
<1>1. /\ down' = s \o late /\ UNCHANGED <<sdoc, base, link>>
      /\ doubled' = (doubled \/ \E i, j \in DOMAIN late :
                       i < j /\ Structural(late[i]) /\ Structural(late[j]))
      /\ link # "down"
  BY DEF Resync, client, Linked
<1>2. m \in Parcel /\ m.type = "snapshot" /\ m.doc = sdoc
  BY MessagesAre DEF TypeInv, SnapshotMsg
<1> HIDE DEF m
<1>3. s \in Seq(Parcel) /\ late \in Seq(Parcel) /\ down \in Seq(Parcel)
  BY <1>2, EchoIs, SeqMonotonic, AppendProperties DEF TypeInv
<1> SUFFICES ASSUME ~doubled'
             PROVE  \E g : /\ Path(g, s \o late, base) /\ First(g, s \o late)
                           /\ g[Len(s \o late)] = sdoc
  BY <1>1 DEF Replay
<1>4. ~doubled /\ Simple
  BY <1>1 DEF Simple
<1>5. PICK h : Path(h, down, base) /\ First(h, down)
  BY <1>1, <1>4 DEF Replay
<1>6. PICK k : Path(k, s, base) /\ First(k, s) /\ k[Len(s)] = sdoc
  <2>1. ~Echoes(m) /\ Hear(h[Len(down)], m) = sdoc
    BY <1>2 DEF Echoes, Hear
  <2>2. \E g : /\ Path(g, Append(down, m), base) /\ First(g, Append(down, m))
               /\ g[Len(Append(down, m))] = Hear(h[Len(down)], m)
    BY <1>2, <1>3, <1>5, <2>1, PathAppend
  <2> QED
    BY <2>1, <2>2
<1> HIDE DEF s
<1>7. PICK f : Path(f, late, sdoc)
  BY <1>3, PathExists DEF TypeInv
<1>8. f[Len(late)] = sdoc
  BY <1>4, <1>7, LateLeads
<1>9. First(f, late)
  <2>1. \A i \in 1..Len(late) : late[i] \in Echo
    BY ElementOfSeq DEF TypeInv
  <2>2. \A i \in 1..Len(late) : ~Echoes(late[i])
    BY <2>1, EchoIs DEF Echoes
  <2> QED
    BY <2>2 DEF First
<1>10. \E g : /\ Path(g, s \o late, base) /\ First(g, s \o late)
              /\ g[Len(s \o late)] = f[Len(late)]
  <2>1. Path(f, late, k[Len(s)])
    BY <1>6, <1>7
  <2> QED
    BY <1>3, <1>6, <1>9, <2>1, PathConcat
<1> QED
  BY <1>8, <1>10

(* ... the client hears what was first on its way ... *)
LEMMA TakenReplay ==
    ASSUME TypeInv, Replay, HandlePatch \/ HandleError \/ InitDoc
    PROVE  Replay'
<1>1. link # "down" /\ down # <<>> /\ down' = Tail(down) /\ UNCHANGED <<sdoc, late, doubled>>
  BY DEF HandlePatch, HandleError, InitDoc, Received
<1>2. Head(down) = down[1]
  BY <1>1, HeadTailSeq DEF TypeInv
<1>3. CASE HandlePatch
  <2>1. base' = Hear(base, down[1])
    BY <1>2, <1>3 DEF HandlePatch, Received, Hear
  <2> QED
    BY <1>1, <2>1, ReplayTaken
<1>4. CASE HandleError
  <2>1. base' = Hear(base, down[1])
    BY <1>2, <1>4 DEF HandleError, Received, Hear
  <2> QED
    BY <1>1, <2>1, ReplayTaken
<1>5. CASE InitDoc
  <2>1. base' = Hear(base, down[1])
    BY <1>2, <1>5 DEF InitDoc, Received, Hear
  <2> QED
    BY <1>1, <2>1, ReplayTaken
<1> QED
  BY <1>3, <1>4, <1>5

(* ... and a reconnection begins with a snapshot. *)
LEMMA ConnectReplay ==
    ASSUME TypeInv, Linked, Connect
    PROVE  Replay'
<1> DEFINE m == SnapshotMsg(sdoc)
           h == [k \in 0..1 |-> IF k = 0 THEN base ELSE sdoc]
<1>1. down' = <<m>> /\ UNCHANGED <<sdoc, base>>
  BY DEF Connect, client
<1>2. m.type = "snapshot" /\ m.doc = sdoc
  BY DEF SnapshotMsg
<1> HIDE DEF m
<1>3. Len(<<m>>) = 1 /\ <<m>>[1] = m
  OBVIOUS
<1>4. h[0] = base /\ h[1] = sdoc
  OBVIOUS
<1> HIDE DEF h
<1>5. (\A k \in 0..1 : k = 0 \/ k = 1) /\ (\A k \in 1..1 : k = 1) /\ 1 - 1 = 0
  OBVIOUS
<1>6. Path(h, <<m>>, base)
  BY <1>2, <1>3, <1>4, <1>5 DEF Path, Hear, TypeInv
<1>7. First(h, <<m>>)
  BY <1>2, <1>3, <1>5 DEF First, Echoes
<1>8. Path(h, down', base') /\ First(h, down') /\ h[Len(down')] = sdoc'
  BY <1>1, <1>3, <1>4, <1>6, <1>7
<1> QED
  BY <1>8 DEF Replay

(* Every step keeps the path to what the server holds. *)
LEMMA NextReplay ==
    ASSUME TypeInv, Linked, LateInv, Replay, [Next]_vars
    PROVE  Replay'
<1>1. CASE SendError
  <2> DEFINE m == ErrorMsg(Head(up).id)
  <2>1. /\ up # <<>> /\ down' = Append(down, m) /\ late = <<>>
        /\ UNCHANGED <<sdoc, base, late, link, doubled>>
    BY <1>1 DEF Linked, SendError, client, LateInv
  <2>2. m \in Parcel /\ m.type = "error"
    <3>1. Head(up) \in Request
      BY <2>1, HeadTailSeq DEF TypeInv
    <3> QED
      BY <3>1, MessagesAre DEF Request, ErrorMsg
  <2> HIDE DEF m
  <2>3. sdoc' = Hear(sdoc, m) /\ ~Echoes(m)
    BY <2>1, <2>2 DEF Hear, Echoes
  <2> QED
    BY <2>1, <2>2, <2>3, ReplayAppended
<1>2. CASE HostCommit
  <2>1. PICK o \in HostEdits : Broadcast(o)
    BY <1>2 DEF HostCommit
  <2>2. UNCHANGED doubled
    BY <1>2 DEF HostCommit
  <2> QED
    BY <2>1, <2>2, HostEditFits, BroadcastReplay
<1>3. CASE ServeGhost
  <2> DEFINE o == Head(ghost).ops
  <2>1. o \in Own /\ o \in Commit
    <3>1. Head(ghost) \in Request
      BY <1>3, HeadTailSeq DEF ServeGhost, TypeInv
    <3> QED
      BY <3>1, OwnIs DEF Request
  <2>2. /\ (Applies(sdoc, o) /\ Broadcast(o)) \/ UNCHANGED <<sdoc, late, down, base, link>>
        /\ UNCHANGED doubled
    BY <1>3 DEF ServeGhost, client
  <2> HIDE DEF o
  <2>3. CASE Applies(sdoc, o) /\ Broadcast(o)
    BY <2>1, <2>2, <2>3, AppliesFits, BroadcastReplay
  <2>4. CASE UNCHANGED <<sdoc, late, down, base, link>>
    BY <2>2, <2>4, ReplayKept
  <2> QED
    BY <2>2, <2>3, <2>4
<1>4. CASE GoOffline
  BY <1>4 DEF GoOffline, Replay
<1>5. CASE Edit \/ UNCHANGED vars
  <2>1. UNCHANGED <<sdoc, late, down, base, link, doubled>>
    <3>1. CASE Edit
      <4>1. PICK o, a, g, w : Queued(o, a, g, w)
        BY <3>1, EditQueued
      <4> QED
        BY <4>1 DEF Queued, Queue
    <3> QED
      BY <1>5, <3>1 DEF vars, client
  <2> QED
    BY <2>1, ReplayKept
<1> QED
  BY <1>1, <1>2, <1>3, <1>4, <1>5, ServeReplay, ResyncReplay, TakenReplay, ConnectReplay DEF Next

-----------------------------------------------------------------------------
(* A field that no pending operation covers is shown as it was told, also  *)
(* of a node that came twice.                                              *)

Told ==
    ~doubled /\ Online /\ ~rejected =>
        \A x \in ToSet(local.order) : Uncovered(x) => local.val[x] = base.val[x]

(* A patch heard by both documents, with covered fields masked in one. *)
LEMMA PatchTold ==
    ASSUME TypeInv, NEW o \in Commit, NEW s \in State, NEW x \in ToSet(local'.order),
           local' = Lenient(local, Masked(o, s)), base' = Lenient(base, o),
           \A y \in DOMAIN s : y \in DOMAIN o.state /\ s[y] = o.state[y],
           x \in DOMAIN o.state /\ ~Skips(local, o) => x \in DOMAIN s,
           x \in ToSet(local.order) /\ (x \notin DOMAIN o.state \/ Skips(local, o))
              => local.val[x] = base.val[x]
    PROVE  local'.val[x] = base'.val[x]
<1> DEFINE w == Masked(o, s)
<1>1. /\ Sound(local) /\ Sound(base) /\ local.order = base.order
      /\ o \in Ops /\ Wire(o)
  BY CommitIs DEF TypeInv
<1>2. /\ Wire(w) /\ w.state = s
      /\ \A q : Settled(q, w) = Settled(q, o)
      /\ \A d : Skips(d, w) <=> Skips(d, o)
  BY <1>1, MaskedIs
<1> HIDE DEF w
<1>3. Skips(base, o) <=> Skips(local, o)
  BY <1>1 DEF Skips
<1>4. /\ Sound(local') /\ local'.order = Settled(local.order, w)
      /\ Skips(local, w) => local' = local
      /\ ~Skips(local, w) => \A y \in Nodes : local'.val[y] =
            IF y \in ToSet(Settled(local.order, w)) THEN After(w, local.val, y) ELSE 0
  BY <1>1, <1>2, LenientIs DEF w
<1>5. /\ base'.order = Settled(base.order, o)
      /\ Skips(base, o) => base' = base
      /\ ~Skips(base, o) => \A y \in Nodes : base'.val[y] =
            IF y \in ToSet(Settled(base.order, o)) THEN After(o, base.val, y) ELSE 0
  BY <1>1, LenientIs
<1>6. x \in Nodes
  BY <1>4, OrderIs DEF Sound, Order
<1>7. CASE Skips(local, o)
  BY <1>2, <1>3, <1>4, <1>5, <1>7
<1>8. CASE ~Skips(local, o)
  <2>1. /\ local'.val[x] = After(w, local.val, x)
        /\ base'.val[x] = After(o, base.val, x)
    BY <1>1, <1>2, <1>3, <1>4, <1>5, <1>6, <1>8
  <2>2. CASE x \in DOMAIN o.state
    BY <1>2, <1>8, <2>1, <2>2 DEF After
  <2>3. CASE x \notin DOMAIN o.state
    <3>1. local'.val[x] = local.val[x] /\ base'.val[x] = base.val[x]
      BY <1>2, <2>1, <2>3 DEF After
    <3>2. x \notin ToSet(local.order) => local.val[x] = 0 /\ base.val[x] = 0
      BY <1>1, <1>6 DEF Sound
    <3> QED
      BY <2>3, <3>1, <3>2
  <2> QED
    BY <2>2, <2>3
<1> QED
  BY <1>7, <1>8

(* A patch of somebody else. *)
LEMMA ForeignTold ==
    ASSUME TypeInv, Inv, Told, HandlePatch, Online, ~rejected, ~doubled,
           Position(Head(down).ref) = 0
    PROVE  Told'
<1> DEFINE o == Head(down).ops
           s == Mask(o.state, pending, FALSE)
<1>1. o \in Commit
  BY PatchEffect
<1>2. Foreign(o) /\ base' = Lenient(base, o)
  BY DEF HandlePatch
<1>3. local' = Lenient(local, Masked(o, s)) /\ pending' = Refresh(o.state, pending)
  BY <1>2 DEF Foreign, Masked
<1>4. /\ s \in State
      /\ \A x : x \in DOMAIN s <=> x \in DOMAIN o.state /\ Uncovered(x)
      /\ \A x \in DOMAIN s : s[x] = o.state[x]
  <2>1. o.state \in State
    BY <1>1, CommitIs
  <2>2. /\ s \in State
        /\ \A x : x \in DOMAIN s <=>
              x \in DOMAIN o.state /\ \A i \in DOMAIN pending :
                  ~(Covers(pending[i], x) /\ (pending[i].applied \/ ~FALSE))
        /\ \A x \in DOMAIN s : s[x] = o.state[x]
    BY <2>1, MaskHas
  <2> HIDE DEF s
  <2> QED
    BY <2>2 DEF Uncovered
<1>5. /\ DOMAIN pending' = DOMAIN pending
      /\ \A k \in DOMAIN pending : pending'[k].ops = pending[k].ops
  <2>1. DOMAIN pending' = DOMAIN pending
    BY <1>3 DEF Refresh
  <2> QED
    BY <1>3, <2>1, RefreshKept
<1>6. \A x : Uncovered(x)' <=> Uncovered(x)
  BY <1>5 DEF Uncovered, Covers
<1> HIDE DEF s, o
<1>7. ASSUME NEW x \in ToSet(local'.order), Uncovered(x)'
      PROVE  local'.val[x] = base'.val[x]
  <2>1. Uncovered(x)
    BY <1>6, <1>7
  <2>2. x \in ToSet(local.order) => local.val[x] = base.val[x]
    BY <2>1 DEF Told
  <2>3. \A y \in DOMAIN s : y \in DOMAIN o.state /\ s[y] = o.state[y]
    BY <1>4
  <2>4. x \in DOMAIN o.state => x \in DOMAIN s
    BY <1>4, <2>1
  <2> QED
    BY <1>1, <1>2, <1>3, <1>4, <2>2, <2>3, <2>4, PatchTold
<1> QED
  BY <1>7 DEF Told

(* The answer to an own insert brings a node the client does not have.     *)
LEMMA OwnBrings ==
    ASSUME TypeInv, Inv, Replay, HandlePatch, ~doubled, Position(Head(down).ref) # 0
    PROVE  ~Skips(local, Head(down).ops)
<1>1. /\ Head(down) = down[1] /\ 1 \in DOMAIN down /\ Head(down).type = "patch"
      /\ down # <<>>
  BY PatchEffect
<1>2. link # "down"
  BY DEF HandlePatch, Received
<1>3. PICK h : Path(h, down, base) /\ First(h, down)
  BY <1>2 DEF Replay
<1>4. Head(down).ref # 0
  <2> DEFINE r == Head(down).ref
  <2>1. Position(r) \in DOMAIN pending /\ pending[Position(r)].id = r
    <3> HIDE DEF r
    <3>1. Listed(pending) /\ Sorted(pending) /\ Made(pending) /\ edits \in Nat
      BY DEF Inv, Lists, Held
    <3>2. /\ Position(r) \in 0..Len(pending)
          /\ Position(r) # 0 => pending[Position(r)].id = r
      BY <3>1, PositionIs
    <3>3. Len(pending) \in Nat /\ DOMAIN pending = 1..Len(pending)
      BY <3>1, ListedIs
    <3> QED
      BY <3>2, <3>3 DEF r
  <2> HIDE DEF r
  <2>2. r # 0
    BY <2>1, IdsPositive
  <2> QED
    BY <2>2 DEF r
<1>5. Head(down).ops.kind = "insert" => Head(down).ops.node \notin ToSet(h[0].order)
  <2>1. 1 \in 1..Len(down) /\ 1 - 1 = 0
    BY <1>1, LenProperties DEF TypeInv
  <2>2. Echoes(down[1]) => down[1].ops.node \notin ToSet(h[1 - 1].order)
    BY <1>3, <2>1 DEF First
  <2> QED
    BY <1>1, <1>4, <2>1, <2>2 DEF Echoes
<1>6. h[0] = base /\ base.order = local.order /\ local.order \in Seq(Nodes)
  BY <1>3 DEF Path, TypeInv, Sound, Order
<1> QED
  BY <1>5, <1>6, OrderIs DEF Skips

(* An echo, which tells the fields that are covered no longer. *)
LEMMA OwnTold ==
    ASSUME TypeInv, Inv, Agreed, Replay, Told, HandlePatch, Online, ~rejected, ~doubled,
           Position(Head(down).ref) # 0
    PROVE  Told'
<1> DEFINE m == Head(down)
           o == m.ops
           e == pending[1]
           s == Mask(o.state, pending', ~e.applied)
<1>1. o \in Commit
  BY PatchEffect
<1>2. Position(m.ref) = 1
  BY OwnTaken
<1>3. /\ base' = Lenient(base, o)
      /\ Confirm(e, o, TakePending(m.ref)) \/ Land(e, o, TakePending(m.ref))
  BY <1>2 DEF HandlePatch
<1>4. /\ pending' = TakePending(m.ref) /\ local' = Lenient(local, Masked(o, s))
      /\ e \in KeptOp
  <2>1. pending' = TakePending(m.ref)
    BY <1>3 DEF Confirm, Land
  <2>2. e \in KeptOp
    BY <1>2, TakePendingSeq
  <2>3. CASE Confirm(e, o, TakePending(m.ref))
    <3>1. e.applied = TRUE
      BY <2>2, <2>3 DEF Confirm, KeptOp
    <3>2. local' = Lenient(local, Masked(o, Mask(o.state, pending', FALSE)))
      BY <2>1, <2>3 DEF Confirm, Masked
    <3> QED
      BY <2>1, <2>2, <3>1, <3>2
  <2>4. CASE Land(e, o, TakePending(m.ref))
    <3>1. e.applied = FALSE
      BY <2>2, <2>4 DEF Land, KeptOp
    <3>2. local' = Lenient(local, Masked(o, Mask(o.state, pending', TRUE)))
      BY <2>1, <2>4 DEF Land, Masked
    <3> QED
      BY <2>1, <2>2, <3>1, <3>2
  <2> QED
    BY <1>3, <2>3, <2>4
<1>5. /\ s \in State
      /\ \A x : x \in DOMAIN s <=>
            x \in DOMAIN o.state /\ \A i \in DOMAIN pending' :
                ~(Covers(pending'[i], x) /\ (pending'[i].applied \/ e.applied))
      /\ \A x \in DOMAIN s : s[x] = o.state[x]
  <2>1. o.state \in State /\ e.applied \in BOOLEAN
    BY <1>1, <1>4, CommitIs DEF KeptOp
  <2>2. /\ s \in State
        /\ \A x : x \in DOMAIN s <=>
              x \in DOMAIN o.state /\ \A i \in DOMAIN pending' :
                  ~(Covers(pending'[i], x) /\ (pending'[i].applied \/ ~(~e.applied)))
        /\ \A x \in DOMAIN s : s[x] = o.state[x]
    <3> DEFINE b == ~e.applied
               q == pending'
    <3>1. /\ Mask(o.state, q, b) \in State
          /\ \A x : x \in DOMAIN Mask(o.state, q, b) <=>
                x \in DOMAIN o.state /\ \A i \in DOMAIN q :
                    ~(Covers(q[i], x) /\ (q[i].applied \/ ~b))
          /\ \A x \in DOMAIN Mask(o.state, q, b) : Mask(o.state, q, b)[x] = o.state[x]
      <4> HIDE DEF b, q, o, e, s
      <4> QED
        BY <2>1, MaskHas
    <3> HIDE DEF o, e
    <3> QED
      BY <3>1
  <2> HIDE DEF s, e
  <2> QED
    BY <2>1, <2>2
<1>6. /\ Len(pending) \in Nat /\ DOMAIN pending = 1..Len(pending)
      /\ DOMAIN pending' = 1..(Len(pending) - 1)
      /\ \A k \in DOMAIN pending' : pending'[k] = pending[k + 1]
      /\ Fulfils(e.ops, o)
  BY OwnTaken
<1>7. ~Skips(local, o)
  BY OwnBrings
<1> HIDE DEF s, e, o, m
<1>8. ASSUME NEW x, Uncovered(x)', ~Covers(e, x)
      PROVE  Uncovered(x)
  <2> SUFFICES ASSUME NEW k \in DOMAIN pending, Covers(pending[k], x)
               PROVE  FALSE
    BY DEF Uncovered
  <2>1. k # 1
    BY <1>8 DEF e
  <2>2. k - 1 \in DOMAIN pending' /\ (k - 1) + 1 = k
    BY <1>6, <2>1
  <2>3. pending'[k - 1] = pending[k]
    BY <1>6, <2>2
  <2> QED
    BY <1>8, <2>2, <2>3 DEF Uncovered, Covers
<1>9. ASSUME NEW x \in ToSet(local'.order), Uncovered(x)'
      PROVE  local'.val[x] = base'.val[x]
  <2>1. \A y \in DOMAIN s : y \in DOMAIN o.state /\ s[y] = o.state[y]
    BY <1>5
  <2>2. x \in DOMAIN o.state => x \in DOMAIN s
    BY <1>5, <1>9 DEF Uncovered, Covers
  <2>3. x \notin DOMAIN o.state => Uncovered(x)
    BY <1>6, <1>8, <1>9 DEF Fulfils, Covers
  <2>4. x \in ToSet(local.order) /\ x \notin DOMAIN o.state => local.val[x] = base.val[x]
    BY <2>3 DEF Told
  <2> QED
    BY <1>1, <1>3, <1>4, <1>5, <1>7, <2>1, <2>2, <2>4, PatchTold
<1> QED
  BY <1>9 DEF Told

(* An edit covers what it writes. *)
LEMMA EditTold ==
    ASSUME TypeInv, Told, Edit
    PROVE  Told'
<1>1. PICK o, a, g, w : Queued(o, a, g, w)
  BY EditQueued
<1> DEFINE e == Entry(edits + 1, o, a, g, w)
<1>2. /\ UNCHANGED <<base, link, rejected, doubled>>
      /\ Online => pending' = Append(pending, e)
      /\ o \in Own /\ e \in KeptOp /\ local'.order = local.order
  BY <1>1, WrittenOrder DEF Queued, Queue
<1>3. e.ops = o
  BY DEF Entry
<1> HIDE DEF e
<1> SUFFICES ASSUME Online, ~rejected, ~doubled, NEW x \in ToSet(local.order), Uncovered(x)'
             PROVE  local'.val[x] = base.val[x]
  BY <1>2 DEF Told, Online
<1>4. PICK l \in Nat : l = Len(pending)
  BY LenProperties DEF TypeInv
<1>5. /\ DOMAIN pending = 1..l /\ DOMAIN pending' = 1..(l + 1)
      /\ \A i \in 1..l : pending'[i] = pending[i]
      /\ pending'[l + 1] = e
  <2>1. pending \in Seq(KeptOp) /\ e \in KeptOp /\ pending' = Append(pending, e)
    BY <1>2 DEF TypeInv
  <2> QED
    BY <1>4, <2>1, AppendedAt
<1>6. Uncovered(x) /\ x \notin DOMAIN o.state
  <2>1. l + 1 \in 1..(l + 1) /\ \A i \in 1..l : i \in 1..(l + 1)
    OBVIOUS
  <2> QED
    BY <1>3, <1>5, <2>1 DEF Uncovered, Covers
<1>7. local'.val[x] = local.val[x]
  <2>1. CASE a
    <3>1. local' = Applied(local, o) /\ Placed(local.order, o) = local.order
      <4>1. o.kind = "none"
        BY <1>1, <2>1, WrittenOrder
      <4> QED
        BY <1>1, <2>1, <4>1 DEF Queued, Placed
    <3>2. Wire(o) /\ o.kind # "insert" /\ Sound(local) /\ x \in Nodes
      BY <1>1, <1>2, <2>1, OwnIs, OrderIs, WrittenOrder DEF TypeInv, Sound, Order
    <3>3. \A y \in Nodes : Applied(local, o).val[y] =
             IF y \in ToSet(Placed(local.order, o)) THEN After(o, local.val, y) ELSE 0
      BY <3>2, AppliedIs
    <3>4. local'.val[x] = After(o, local.val, x)
      BY <3>1, <3>2, <3>3
    <3> QED
      BY <1>6, <3>4 DEF After
  <2>2. CASE ~a
    BY <1>1, <2>2 DEF Queued
  <2> QED
    BY <2>1, <2>2
<1> QED
  BY <1>6, <1>7 DEF Told

(* A step that leaves the client alone. *)
LEMMA ToldKept ==
    ASSUME Told, UNCHANGED <<local, base, pending, link, rejected>>, doubled => doubled'
    PROVE  Told'
BY DEF Told, Uncovered, Covers, Online

(* Every step keeps what is told and not covered shown. *)
LEMMA NextTold ==
    ASSUME TypeInv, Inv, Agreed, Replay, Told, [Next]_vars
    PROVE  Told'
<1>1. CASE UNCHANGED vars
  BY <1>1, ToldKept DEF vars, client
<1>2. CASE Serve \/ SendError \/ Resync
  <2>1. UNCHANGED <<local, base, pending, link, rejected>> /\ (doubled => doubled')
    <3>1. CASE Serve
      BY <3>1 DEF Serve, client
    <3>2. CASE SendError
      BY <3>2 DEF SendError, client
    <3>3. CASE Resync
      <4>1. UNCHANGED <<local, base, pending, link, rejected>>
        BY <3>3 DEF Resync, client
      <4>2. doubled' = (doubled \/ \E i, j \in DOMAIN late :
                                      i < j /\ Structural(late[i]) /\ Structural(late[j]))
        BY <3>3 DEF Resync
      <4> QED
        BY <4>1, <4>2
    <3> QED
      BY <1>2, <3>1, <3>2, <3>3
  <2> QED
    BY <2>1, ToldKept
<1>3. CASE ServeGhost \/ HostCommit
  BY <1>3, ToldKept DEF ServeGhost, HostCommit, Broadcast, client
<1>4. CASE HandlePatch
  <2>1. UNCHANGED <<link, rejected, doubled>>
    BY <1>4 DEF HandlePatch, Received
  <2>2. CASE Online /\ ~rejected /\ ~doubled
    BY <1>4, <2>2, ForeignTold, OwnTold
  <2>3. CASE ~(Online /\ ~rejected /\ ~doubled)
    BY <2>1, <2>3 DEF Told, Online
  <2> QED
    BY <2>2, <2>3
<1>5. CASE HandleError
  BY <1>5 DEF HandleError, Told
<1>6. CASE InitDoc
  BY <1>6 DEF InitDoc, Told
<1>7. CASE GoOffline \/ Connect
  BY <1>7 DEF GoOffline, Connect, Told, Online
<1> QED
  BY <1>1, <1>2, <1>3, <1>4, <1>5, <1>6, <1>7, EditTold DEF Next

(* When nothing is under way, what the client shows is what it was told,   *)
(* and that is what the server holds.                                      *)
LEMMA QuietConverged ==
    ASSUME TypeInv, Inv, Excused, Replay, Told
    PROVE  ConvergedOnce
<1>1. NothingWaits
  BY InvSettled
<1> SUFFICES ASSUME Quiet, ~doubled
             PROVE  local = sdoc
  BY <1>1 DEF ConvergedOnce
<1>2. Online /\ srv = "idle" /\ down = <<>> /\ late = <<>> /\ pending = <<>>
  BY <1>1 DEF Quiet, NothingWaits
<1>3. ~rejected
  BY <1>2, EmptyListed DEF Excused, Corrected
<1>4. base = sdoc
  <2>1. PICK h : Path(h, down, base) /\ h[Len(down)] = sdoc
    BY <1>2 DEF Replay, Online
  <2>2. h[0] = base /\ Len(down) = 0
    BY <1>2, <2>1, EmptyListed DEF Path
  <2> QED
    BY <2>1, <2>2
<1>5. \A x \in ToSet(local.order) : local.val[x] = base.val[x]
  BY <1>2, <1>3, EmptyListed DEF Told, Uncovered
<1>6. local = base
  BY <1>5, SameDocument DEF TypeInv
<1> QED
  BY <1>4, <1>6

(* When nothing is under way between a client and its server, nothing is   *)
(* pending and both hold the same document, whatever was edited, rejected, *)
(* normalized, broken off and sent again before, but for structure that    *)
(* came both in a snapshot and after it.                                   *)
THEOREM Converged == ASSUME Tally \notin Nodes PROVE Spec => []ConvergedOnce
<1> DEFINE J == /\ Inv /\ TypeInv /\ Normal /\ Agreed /\ Alone
                /\ LateInv /\ Excused /\ Replay /\ Told
<1>1. Init => J
  <2>1. Init => Alone /\ LateInv /\ Excused /\ Told
    BY EmptyListed DEF Init, Alone, LateInv, WritesLast, Writes, Excused, Told
  <2> QED
    BY <2>1, InitInv, InitType, InitNormal, InitAgreed, InitReplay
<1>2. J /\ [Next]_vars => J'
  <2> SUFFICES ASSUME J, [Next]_vars
               PROVE  J'
    OBVIOUS
  <2>1. Inv' /\ TypeInv'
    BY NextInv, NextType
  <2>2. Normal' /\ Agreed'
    BY NextNormal, NextAgreed
  <2>3. Alone' /\ LateInv' /\ Excused' /\ Replay'
    BY NextAlone, NextLate, NextExcused, NextReplay DEF Inv
  <2>4. Told'
    BY NextTold
  <2> QED
    BY <2>1, <2>2, <2>3, <2>4
<1>3. J => ConvergedOnce
  BY QuietConverged
<1> QED
  BY <1>1, <1>2, <1>3, PTL DEF Spec
=============================================================================
