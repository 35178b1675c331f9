---------------------------- MODULE UndoProofs ----------------------------
(* The history of a manager that records every commit is exact, for as     *)
(* long as no commit loses a value: it implements Timeline.                *)
EXTENDS UndoManager, SequenceTheorems, TLAPS

USE UndoAssumption

(* A step can be taken in document d, and leads to e. *)
Leads(it, d, e) == Applies(it, d) /\ Apply(it, d) = e

(* The steps of a stack, taken one after the other from document d on,     *)
(* lead to the documents docs.                                             *)
Chain(stack, docs, d) ==
    /\ Len(docs) = Len(stack)
    /\ \A i \in 1..Len(stack) :
          Leads(stack[i], IF i = Len(stack) THEN d ELSE docs[i + 1], docs[i])

TypeInv == TypeOK /\ InStep

Aligned ==
    /\ Chain(hist[Host].undo, past, doc)
    /\ Chain(hist[Host].redo, future, doc)

LineVars == <<past, doc, future>>

-----------------------------------------------------------------------------
(* Operations.                                                             *)

(* An operation makes a document of a document. *)
LEMMA ApplyType ==
    ASSUME NEW it \in Operations, NEW d \in Documents
    PROVE  Apply(it, d) \in Documents
  BY DEF Apply, Operations, Documents, Words, NoWord, Values

(* An inverse is an operation. *)
LEMMA InverseType ==
    ASSUME NEW it \in Operations, NEW d \in Documents
    PROVE  InverseOf(it, d) \in Operations
  <1> DEFINE a == Apply(it, d)
             o == InverseOf(it, d).ordered
             s == InverseOf(it, d).state
  <1>1. o \in [Nodes -> Words]
    BY DEF InverseOf, Words, Kinds, NoWord
  <1>2. s \in [Nodes -> Values \cup {Absent}]
    BY DEF InverseOf, Documents
  <1>3. InverseOf(it, d) = [ordered |-> o, state |-> s]
    BY DEF InverseOf
  <1> QED
    BY <1>1, <1>2, <1>3 DEF Operations

(* The inverse of an operation that loses nothing takes it back. *)
LEMMA InverseLeads ==
    ASSUME NEW it \in Operations, NEW d \in Documents, Sound(d),
           Applies(it, d), ~Loses(it, d)
    PROVE  Leads(InverseOf(it, d), Apply(it, d), d)
  <1> DEFINE a == Apply(it, d)
             inv == InverseOf(it, d)
  <1>1. a \in Documents /\ inv \in Operations
    BY ApplyType, InverseType
  <1>2. \A n \in Nodes :
            /\ inv.state[n] = IF d[n] = a[n] \/ (d[n] = Default /\ a[n] = Absent)
                                THEN Absent ELSE d[n]
            /\ inv.ordered[n].first = "insert" => a[n] = Absent
    BY DEF InverseOf, NoWord
  <1>3. ASSUME NEW n \in Nodes
        PROVE  Apply(inv, a)[n] = d[n]
    <2>1. CASE it.ordered[n] = NoWord
      <3>1. a[n] = Absent <=> d[n] = Absent
        BY <2>1 DEF Apply, Operations
      <3>2. inv.ordered[n] = NoWord
        BY <2>1 DEF InverseOf
      <3> QED
        BY <1>2, <3>1, <3>2 DEF Apply
    <2>2. CASE it.ordered[n] # NoWord /\ d[n] = Absent /\ a[n] = Absent
      <3>1. inv.ordered[n] = NoWord
        BY <2>2 DEF InverseOf
      <3> QED
        BY <2>2, <3>1 DEF Apply
    <2>3. CASE it.ordered[n] # NoWord /\ ~(d[n] = Absent /\ a[n] = Absent)
      <3>1. /\ inv.ordered[n] # NoWord
            /\ inv.ordered[n].last = IF d[n] = Absent THEN "delete" ELSE "insert"
        BY <2>3 DEF InverseOf, NoWord
      <3>2. d[n] = a[n] => d[n] = Default
        BY <2>3 DEF Loses
      <3> QED
        BY <1>2, <3>1, <3>2 DEF Apply
    <2> QED
      BY <2>1, <2>2, <2>3
  <1>4. Apply(inv, a) = d
    BY <1>1, <1>3 DEF Apply, Documents
  <1> QED
    BY <1>2, <1>4 DEF Leads, Applies

(* Merged steps are one operation. *)
LEMMA MergeType ==
    ASSUME NEW newer \in Operations, NEW older \in Operations
    PROVE  Merge(newer, older) \in Operations
  <1>1. Merge(newer, older).ordered \in [Nodes -> Words]
    BY DEF Merge, Operations, Words, NoWord
  <1>2. Merge(newer, older).state \in [Nodes -> Values \cup {Absent}]
    BY DEF Merge, Operations
  <1> QED
    BY <1>1, <1>2 DEF Merge, Operations

(* What an operation makes of the value v of a node that it subjects to    *)
(* the word w and writes s to.                                             *)
Becomes(w, s, v) ==
    IF ~(IF w = NoWord THEN v # Absent ELSE w.last = "insert") THEN Absent
    ELSE IF s # Absent THEN s
    ELSE IF w = NoWord THEN v ELSE Default

(* Step s takes the node from v to u. *)
Takes(w, s, v, u) ==
    /\ w.first = "insert" => v = Absent
    /\ Becomes(w, s, v) = u

(* A merged step leads a node where its two steps lead it, unless the      *)
(* older one means it to have the default and the newer one has a value.   *)
LEMMA MergeTakes ==
    ASSUME NEW w \in Words, NEW x \in Words, NEW y, NEW s, NEW t, NEW u, NEW v1,
           NEW v2, NEW v3, Takes(w, s, v1, v2), Takes(x, t, v2, v3),
           ~(x.last = "insert" /\ t = Absent /\ s \notin {Absent, Default}),
           y = IF w = NoWord THEN x ELSE IF x = NoWord THEN w
               ELSE [first |-> w.first, last |-> x.last],
           u = IF t # Absent THEN t ELSE s
    PROVE  Takes(y, u, v1, v3)
  <1>1. NoWord.first # "insert" /\ NoWord.last # "insert" /\ Default # Absent
    BY DEF NoWord, Values
  <1>2. CASE w = NoWord
    <2>1. y = x /\ v2 \in {v1, s, Absent} /\ (v1 = Absent => v2 = Absent)
      BY <1>2 DEF Takes, Becomes
    <2>2. CASE x = NoWord
      BY <1>1, <1>2, <2>1, <2>2 DEF Takes, Becomes
    <2>3. CASE x # NoWord
      BY <1>1, <1>2, <2>1, <2>3 DEF Takes, Becomes
    <2> QED
      BY <2>2, <2>3
  <1>3. CASE w # NoWord /\ x = NoWord
    <2>1. y = w
      BY <1>3
    <2>2. CASE t = Absent
      BY <1>1, <1>3, <2>1, <2>2 DEF Takes, Becomes
    <2>3. CASE t # Absent
      BY <1>1, <1>3, <2>1, <2>3 DEF Takes, Becomes
    <2> QED
      BY <2>2, <2>3
  <1>4. CASE w # NoWord /\ x # NoWord
    <2>1. y = [first |-> w.first, last |-> x.last] /\ y # NoWord
      BY <1>4 DEF Words, Kinds, NoWord
    <2>2. CASE t = Absent
      BY <1>1, <1>4, <2>1, <2>2 DEF Takes, Becomes
    <2>3. CASE t # Absent
      BY <1>1, <1>4, <2>1, <2>3 DEF Takes, Becomes
    <2> QED
      BY <2>2, <2>3
  <1> QED
    BY <1>2, <1>3, <1>4

(* A merged step leads where its two steps lead one after the other. *)
LEMMA MergeLeads ==
    ASSUME NEW newer \in Operations, NEW older \in Operations,
           NEW d \in Documents, NEW e \in Documents, NEW f \in Documents,
           Leads(newer, d, e), Leads(older, e, f), ~Confuses(newer, older)
    PROVE  Leads(Merge(newer, older), d, f)
  <1> DEFINE it == Merge(newer, older)
  <1>1. ASSUME NEW n \in Nodes
        PROVE  /\ it.ordered[n].first = "insert" => d[n] = Absent
               /\ Apply(it, d)[n] = f[n]
    <2>1. ASSUME NEW z, NEW c
          PROVE  Apply(z, c)[n] = Becomes(z.ordered[n], z.state[n], c[n])
      BY DEF Apply, Becomes
    <2>2. /\ Takes(newer.ordered[n], newer.state[n], d[n], e[n])
          /\ Takes(older.ordered[n], older.state[n], e[n], f[n])
      BY <2>1 DEF Leads, Applies, Takes
    <2>3. newer.ordered[n] \in Words /\ older.ordered[n] \in Words
      BY DEF Operations
    <2>4. /\ it.ordered[n] = IF newer.ordered[n] = NoWord THEN older.ordered[n]
                             ELSE IF older.ordered[n] = NoWord THEN newer.ordered[n]
                             ELSE [first |-> newer.ordered[n].first,
                                   last |-> older.ordered[n].last]
          /\ it.state[n] = IF older.state[n] # Absent THEN older.state[n]
                           ELSE newer.state[n]
      BY DEF Merge
    <2>5. Takes(it.ordered[n], it.state[n], d[n], f[n])
      BY <2>2, <2>3, <2>4, MergeTakes DEF Confuses
    <2> QED
      BY <2>1, <2>5 DEF Takes
  <1>2. Apply(it, d) = f
    BY <1>1, MergeType, ApplyType DEF Apply, Documents
  <1>3. Sound(f)
    BY DEF Leads, Applies
  <1> QED
    BY <1>1, <1>2, <1>3 DEF Leads, Applies

-----------------------------------------------------------------------------
(* Stacks.                                                                 *)

(* What cutting a stack leaves. *)
LEMMA NewestProperties ==
    ASSUME NEW S, NEW s \in Seq(S), NEW k \in 0..Len(s)
    PROVE  /\ Newest(s, k) \in Seq(S)
           /\ Len(Newest(s, k)) = k
           /\ \A i \in 1..k : Newest(s, k)[i] = s[Len(s) - k + i]
  <1> DEFINE m == Len(s) - k + 1
             n == Len(s)
  <1>1. m \in Int /\ n \in Int /\ \A i \in m..n : s[i] \in S
    OBVIOUS
  <1>2. /\ SubSeq(s, m, n) \in Seq(S)
        /\ Len(SubSeq(s, m, n)) = IF m <= n THEN n - m + 1 ELSE 0
        /\ \A i \in 1..n - m + 1 : SubSeq(s, m, n)[i] = s[m + i - 1]
    BY <1>1, SubSeqProperties
  <1> QED
    BY <1>2 DEF Newest

(* What taking the last of a stack leaves. *)
LEMMA RestProperties ==
    ASSUME NEW S, NEW s \in Seq(S), s # <<>>
    PROVE  /\ Rest(s) \in Seq(S)
           /\ Len(Rest(s)) = Len(s) - 1
           /\ \A i \in 1..Len(s) - 1 : Rest(s)[i] = s[i]
           /\ Len(s) >= 1 /\ Top(s) = s[Len(s)] /\ Top(s) \in S
  <1>1. Len(s) \in Nat /\ Len(s) >= 1
    BY EmptySeq
  <1> DEFINE n == Len(s) - 1
  <1>2. 1 \in Int /\ n \in Int /\ \A i \in 1..n : s[i] \in S
    BY <1>1
  <1>3. /\ SubSeq(s, 1, n) \in Seq(S)
        /\ Len(SubSeq(s, 1, n)) = IF 1 <= n THEN n - 1 + 1 ELSE 0
        /\ \A i \in 1..n - 1 + 1 : SubSeq(s, 1, n)[i] = s[1 + i - 1]
    BY <1>2, SubSeqProperties
  <1>4. Rest(s) = SubSeq(s, 1, n)
    BY DEF Rest
  <1>5. Top(s) = s[Len(s)] /\ Top(s) \in S
    BY <1>1 DEF Top
  <1> HIDE DEF n
  <1>6. n = Len(s) - 1 /\ n \in Nat
    BY <1>1 DEF n
  <1>7. Len(Rest(s)) = n
    BY <1>3, <1>4, <1>6
  <1>8. \A i \in 1..n : Rest(s)[i] = s[i]
    BY <1>3, <1>4, <1>6
  <1> QED
    BY <1>1, <1>3, <1>4, <1>5, <1>6, <1>7, <1>8

(* Dropping the oldest is keeping the newest. *)
LEMMA TailIsNewest ==
    ASSUME NEW S, NEW s \in Seq(S), s # <<>>
    PROVE  Tail(s) = Newest(s, Len(s) - 1) /\ Len(s) - 1 \in 0..Len(s)
  <1>1. Len(s) \in Nat /\ Len(s) >= 1
    BY EmptySeq
  <1>2. Tail(s) = SubSeq(s, 2, Len(s))
    BY TailIsSubSeq
  <1>3. Len(s) - (Len(s) - 1) + 1 = 2
    BY <1>1
  <1> QED
    BY <1>1, <1>2, <1>3 DEF Newest

(* A chain stays one when its oldest links are dropped. *)
LEMMA ChainCut ==
    ASSUME NEW S \in Seq(Operations), NEW D \in Seq(Documents), NEW d,
           Chain(S, D, d), NEW k \in 0..Len(S)
    PROVE  Chain(Newest(S, k), Newest(D, k), d)
  <1> DEFINE j == Len(S) - k
  <1>1. Len(D) = Len(S) /\ Len(S) \in Nat /\ j \in Nat
    BY DEF Chain
  <1>2. /\ Len(Newest(S, k)) = k /\ Len(Newest(D, k)) = k
        /\ \A i \in 1..k : Newest(S, k)[i] = S[j + i] /\ Newest(D, k)[i] = D[j + i]
    <2>1. k \in 0..Len(S) /\ k \in 0..Len(D)
      BY <1>1
    <2>2. /\ Len(Newest(S, k)) = k
          /\ \A i \in 1..k : Newest(S, k)[i] = S[Len(S) - k + i]
      BY ONLY <2>1, S \in Seq(Operations), NewestProperties
    <2>3. /\ Len(Newest(D, k)) = k
          /\ \A i \in 1..k : Newest(D, k)[i] = D[Len(D) - k + i]
      BY ONLY <2>1, D \in Seq(Documents), NewestProperties
    <2> QED
      BY <1>1, <2>2, <2>3
  <1>3. ASSUME NEW i \in 1..k
        PROVE  Leads(Newest(S, k)[i], IF i = k THEN d ELSE Newest(D, k)[i + 1],
                     Newest(D, k)[i])
    <2>1. j + i \in 1..Len(S)
      BY <1>1
    <2>2. Leads(S[j + i], IF j + i = Len(S) THEN d ELSE D[j + i + 1], D[j + i])
      BY <2>1 DEF Chain
    <2>3. CASE i = k
      BY <1>1, <1>2, <2>2, <2>3
    <2>4. CASE i # k
      <3>1. i + 1 \in 1..k /\ j + i # Len(S) /\ j + (i + 1) = j + i + 1
        BY <1>1, <2>4
      <3> QED
        BY <1>2, <2>2, <2>4, <3>1
    <2> QED
      BY <2>3, <2>4
  <1> QED
    BY <1>2, <1>3 DEF Chain

(* A step whose inverse is put on the stack extends the chain. *)
LEMMA ChainPush ==
    ASSUME NEW S \in Seq(Operations), NEW D \in Seq(Documents),
           NEW d \in Documents, NEW e \in Documents, NEW it \in Operations,
           Chain(S, D, d), Leads(it, e, d)
    PROVE  Chain(Append(S, it), Append(D, d), e)
  <1> DEFINE T == Append(S, it)
             F == Append(D, d)
             l == Len(S)
  <1>1. Len(D) = l /\ l \in Nat /\ Len(T) = l + 1 /\ Len(F) = l + 1
    BY AppendProperties DEF Chain
  <1>2. /\ \A i \in 1..l : T[i] = S[i] /\ F[i] = D[i]
        /\ T[l + 1] = it /\ F[l + 1] = d
    BY <1>1, AppendProperties
  <1>3. ASSUME NEW i \in 1..l + 1
        PROVE  Leads(T[i], IF i = l + 1 THEN e ELSE F[i + 1], F[i])
    <2>1. CASE i = l + 1
      BY <1>2, <2>1
    <2>2. CASE i \in 1..l
      <3>1. Leads(S[i], IF i = l THEN d ELSE D[i + 1], D[i])
        BY <2>2 DEF Chain
      <3>2. F[i + 1] = IF i = l THEN d ELSE D[i + 1]
        BY <1>1, <1>2, <2>2
      <3>3. i # l + 1
        BY <1>1, <2>2
      <3> QED
        BY <1>2, <2>2, <3>1, <3>2, <3>3
    <2> QED
      BY <1>1, <2>1, <2>2
  <1> QED
    BY <1>1, <1>3 DEF Chain

(* Taking the newest step leads to the newest document, and leaves a chain. *)
LEMMA ChainPop ==
    ASSUME NEW S \in Seq(Operations), NEW D \in Seq(Documents), NEW d,
           Chain(S, D, d), S # <<>>
    PROVE  /\ Leads(Top(S), d, Top(D)) /\ D # <<>> /\ Top(D) \in Documents
           /\ Chain(Rest(S), Rest(D), Top(D))
  <1> DEFINE l == Len(S)
  <1>1. l \in Nat /\ l >= 1 /\ Len(D) = l
    BY RestProperties DEF Chain
  <1>2. D # <<>>
    BY <1>1, EmptySeq
  <1>3. /\ Len(Rest(S)) = l - 1 /\ Len(Rest(D)) = l - 1
        /\ \A i \in 1..l - 1 : Rest(S)[i] = S[i] /\ Rest(D)[i] = D[i]
        /\ Top(S) = S[l] /\ Top(D) = D[l] /\ Top(D) \in Documents
    <2>1. /\ Len(Rest(S)) = Len(S) - 1 /\ Top(S) = S[Len(S)]
          /\ \A i \in 1..Len(S) - 1 : Rest(S)[i] = S[i]
      BY ONLY S \in Seq(Operations), S # <<>>, RestProperties
    <2>2. /\ Len(Rest(D)) = Len(D) - 1 /\ Top(D) = D[Len(D)] /\ Top(D) \in Documents
          /\ \A i \in 1..Len(D) - 1 : Rest(D)[i] = D[i]
      BY ONLY D \in Seq(Documents), <1>2, RestProperties
    <2> QED
      BY <1>1, <2>1, <2>2
  <1>4. Leads(S[l], d, D[l])
    BY <1>1 DEF Chain
  <1>5. ASSUME NEW i \in 1..l - 1
        PROVE  Leads(Rest(S)[i], IF i = l - 1 THEN Top(D) ELSE Rest(D)[i + 1],
                     Rest(D)[i])
    <2>1. Leads(S[i], IF i = l THEN d ELSE D[i + 1], D[i]) /\ i # l
      BY <1>1 DEF Chain
    <2>2. D[i + 1] = IF i = l - 1 THEN Top(D) ELSE Rest(D)[i + 1]
      BY <1>1, <1>3
    <2> QED
      BY <1>3, <2>1, <2>2
  <1> QED
    BY <1>1, <1>2, <1>3, <1>4, <1>5 DEF Chain

(* A step merged into the newest of a stack: the chain starts at the new   *)
(* document.                                                               *)
LEMMA ChainMerge ==
    ASSUME NEW S \in Seq(Operations), NEW D \in Seq(Documents),
           NEW d \in Documents, NEW e \in Documents, NEW it \in Operations,
           Chain(S, D, d), Leads(it, e, d), S # <<>>, ~Confuses(it, Top(S))
    PROVE  Chain([S EXCEPT ![Len(S)] = Merge(it, @)], D, e)
  <1> DEFINE l == Len(S)
             T == [S EXCEPT ![Len(S)] = Merge(it, @)]
  <1>1. /\ l \in Nat /\ l >= 1 /\ Len(D) = l
        /\ Top(S) = S[l] /\ Top(S) \in Operations
    BY RestProperties DEF Chain
  <1>2. Leads(S[l], d, D[l]) /\ D[l] \in Documents
    BY <1>1 DEF Chain
  <1>3. Leads(Merge(it, S[l]), e, D[l])
    BY <1>1, <1>2, MergeLeads
  <1>4. /\ Len(T) = l /\ T[l] = Merge(it, S[l])
        /\ \A i \in 1..l : i # l => T[i] = S[i]
    BY <1>1
  <1>5. ASSUME NEW i \in 1..l
        PROVE  Leads(T[i], IF i = l THEN e ELSE D[i + 1], D[i])
    <2>1. CASE i = l
      BY <1>3, <1>4, <2>1
    <2>2. CASE i # l
      BY <1>4, <2>2 DEF Chain
    <2> QED
      BY <2>1, <2>2
  <1> QED
    BY <1>1, <1>4, <1>5 DEF Chain

-----------------------------------------------------------------------------
(* Actions.                                                                *)
Stacks == [undo : Seq(Operations), redo : Seq(Operations)]

(* What users do is an operation. *)
LEMMA EditsType == Edits \subseteq Operations
  <1>1. NoWords \in [Nodes -> Words] /\ Nothing \in [Nodes -> Values \cup {Absent}]
    BY DEF NoWords, Nothing, Words
  <1>2. Word("insert") \in Words /\ Word("delete") \in Words
    BY DEF Word, Words, Kinds
  <1>3. ASSUME NEW n \in Nodes, NEW v \in Values
        PROVE  Insertion(n, v) \in Operations /\ Setting(n, v) \in Operations
    BY <1>1, <1>2 DEF Insertion, Setting, Operations
  <1>4. ASSUME NEW n \in Nodes
        PROVE  Deletion(n) \in Operations
    BY <1>1, <1>2 DEF Deletion, Operations
  <1> QED
    BY <1>3, <1>4 DEF Edits

(* A manager that records a step still has stacks. *)
LEMMA RecordedType ==
    ASSUME TypeOK, NEW m \in Managers, NEW inv \in Operations
    PROVE  /\ Recorded(m, inv) \in Stacks
           /\ Recorded(m, inv).redo = <<>>
  <1> DEFINE S == hist[m].undo
  <1>1. S \in Seq(Operations) /\ Len(S) \in Nat
    BY DEF TypeOK
  <1>2. <<>> \in Seq(Operations)
    BY EmptySeq
  <1>3. CASE Joins(m)
    <2>1. S # <<>>
      BY <1>3 DEF Joins
    <2>2. Len(S) \in 1..Len(S) /\ S[Len(S)] \in Operations
      BY <1>1, <2>1, RestProperties
    <2>3. [S EXCEPT ![Len(S)] = Merge(inv, @)] \in Seq(Operations)
      BY <1>1, <2>2, MergeType, ExceptSeq
    <2> QED
      BY <1>2, <1>3, <2>3 DEF Recorded, Stacks
  <1>4. CASE ~Joins(m)
    <2>1. (IF Len(S) >= steps[m] THEN Tail(S) ELSE S) \in Seq(Operations)
      <3>1. CASE Len(S) >= steps[m]
        <4>1. S # <<>>
          BY <1>1, <3>1 DEF TypeOK
        <4> QED
          BY <1>1, <3>1, <4>1, HeadTailProperties
      <3> QED
        BY <1>1, <3>1
    <2> QED
      BY <1>2, <1>4, <2>1, AppendProperties DEF Recorded, Stacks
  <1> QED
    BY <1>3, <1>4

(* A commit leaves documents and stacks, and every manager but the one     *)
(* that asked for it either records it or does not hear of it.             *)
LEMMA CommitType ==
    ASSUME TypeOK, NEW m \in Managers, NEW it \in Operations, Applies(it, doc),
           NEW filed \in Stacks, Commit(m, it, filed)
    PROVE  /\ doc' \in Documents /\ Sound(doc')
           /\ hist' \in [Managers -> Stacks] /\ hist'[m] = filed
           /\ m # Host => hist'[Host] = Recorded(Host, InverseOf(it, doc))
  <1>1. doc' = Apply(it, doc) /\ doc \in Documents
    BY DEF Commit, TypeOK
  <1>2. InverseOf(it, doc) \in Operations
    BY <1>1, InverseType
  <1>3. \A o \in Managers : Recorded(o, InverseOf(it, doc)) \in Stacks /\ hist[o] \in Stacks
    BY <1>2, RecordedType DEF TypeOK, Stacks
  <1>4. hist' = [o \in Managers |->
                   IF o = m THEN filed
                   ELSE IF Accepts(o, m) THEN Recorded(o, InverseOf(it, doc))
                   ELSE hist[o]]
    BY DEF Commit
  <1>5. Host \in Managers /\ Accepts(Host, m)
    BY DEF Managers, Accepts
  <1> QED
    BY <1>1, <1>3, <1>4, <1>5, ApplyType DEF Applies

(* The stacks of the document's manager and the auxiliary ones, when it    *)
(* records a commit.                                                       *)
LEMMA RememberType ==
    ASSUME TypeInv, NEW it, NEW inv \in Operations, RememberEdit(it)
    PROVE  /\ past' \in Seq(Documents) /\ future' \in Seq(Documents)
           /\ intact' \in BOOLEAN
           /\ Len(past') = Len(Recorded(Host, inv).undo)
           /\ Len(future') = Len(Recorded(Host, inv).redo)
  <1> DEFINE S == hist[Host].undo
  <1>1. /\ S \in Seq(Operations) /\ past \in Seq(Documents) /\ doc \in Documents
        /\ Len(past) = Len(S) /\ Len(S) \in Nat /\ steps[Host] \in Nat \ {0}
    BY DEF TypeInv, TypeOK, InStep, Managers
  <1>2. future' = <<>> /\ Recorded(Host, inv).redo = <<>> /\ <<>> \in Seq(Documents)
        /\ intact' \in BOOLEAN
    BY EmptySeq DEF RememberEdit, Recorded
  <1>3. CASE Joins(Host)
    <2>1. past' = past
      BY <1>3 DEF RememberEdit
    <2>2. Recorded(Host, inv).undo = [S EXCEPT ![Len(S)] = Merge(inv, @)]
      BY <1>3 DEF Recorded
    <2> QED
      BY <1>1, <1>2, <2>1, <2>2
  <1>4. CASE ~Joins(Host) /\ Len(S) >= steps[Host]
    <2>1. past' = Append(Tail(past), doc)
      BY <1>1, <1>4 DEF RememberEdit
    <2>2. Recorded(Host, inv).undo = Append(Tail(S), inv)
      BY <1>4 DEF Recorded
    <2>3. past # <<>> /\ S # <<>>
      BY <1>1, <1>4, EmptySeq
    <2>4. Tail(past) \in Seq(Documents) /\ Len(Tail(past)) = Len(past) - 1
      BY <1>1, <2>3, HeadTailProperties
    <2>5. Tail(S) \in Seq(Operations) /\ Len(Tail(S)) = Len(S) - 1
      BY <1>1, <2>3, HeadTailProperties
    <2>6. past' \in Seq(Documents) /\ Len(past') = Len(S)
      BY <1>1, <2>1, <2>4, AppendProperties
    <2>7. Len(Recorded(Host, inv).undo) = Len(S)
      BY <1>1, <2>2, <2>5, AppendProperties
    <2> QED
      BY <1>2, <2>6, <2>7
  <1>5. CASE ~Joins(Host) /\ ~(Len(S) >= steps[Host])
    <2>1. past' = Append(past, doc)
      BY <1>1, <1>5 DEF RememberEdit
    <2>2. Recorded(Host, inv).undo = Append(S, inv)
      BY <1>5 DEF Recorded
    <2>3. past' \in Seq(Documents) /\ Len(past') = Len(S) + 1
      BY <1>1, <2>1, AppendProperties
    <2>4. Len(Recorded(Host, inv).undo) = Len(S) + 1
      BY <1>1, <2>2, AppendProperties
    <2> QED
      BY <1>2, <2>3, <2>4
  <1> QED
    BY <1>3, <1>4, <1>5

(* An edit keeps types, and the auxiliary stacks in step. *)
LEMMA EditType ==
    ASSUME TypeInv, NEW m \in Managers, Edit(m)
    PROVE  TypeInv'
  <1>1. PICK it \in Edits :
            /\ Applies(it, doc)
            /\ Commit(m, it, Recorded(m, InverseOf(it, doc)))
            /\ recent' = Merging /\ RememberEdit(it) /\ steps' = steps
    BY DEF Edit
  <1>2. TypeOK /\ it \in Operations
    BY EditsType DEF TypeInv
  <1>3. InverseOf(it, doc) \in Operations
    BY <1>2, InverseType DEF TypeOK
  <1>4. Recorded(m, InverseOf(it, doc)) \in Stacks
    BY <1>2, <1>3, RecordedType
  <1>5. /\ doc' \in Documents /\ Sound(doc') /\ hist' \in [Managers -> Stacks]
        /\ hist'[Host] = Recorded(Host, InverseOf(it, doc))
    BY <1>1, <1>2, <1>4, CommitType
  <1>6. /\ past' \in Seq(Documents) /\ future' \in Seq(Documents)
        /\ Len(past') = Len(hist'[Host].undo) /\ Len(future') = Len(hist'[Host].redo)
        /\ intact' \in BOOLEAN
    BY <1>1, <1>3, <1>5, RememberType
  <1>7. edits' \in 0..MaxEdits /\ steps' \in [Managers -> 1..MaxSteps]
        /\ recent' \in BOOLEAN
    BY <1>1, <1>2 DEF Edit, TypeOK
  <1> QED
    BY <1>5, <1>6, <1>7 DEF TypeInv, TypeOK, InStep, Stacks

(* The stacks after the newest step of a side is taken off. *)
LEMMA TakenType ==
    ASSUME TypeOK, NEW m \in Managers, NEW side \in Sides,
           hist[m][side] # <<>>
    PROVE  /\ Top(hist[m][side]) \in Operations
           /\ [hist[m] EXCEPT ![side] = Rest(@)] \in Stacks
           /\ [[hist[m] EXCEPT ![side] = Rest(@)] EXCEPT
                 ![Other(side)] = Append(@, InverseOf(Top(hist[m][side]), doc))]
                   \in Stacks
  <1>1. hist[m] \in Stacks /\ doc \in Documents
    BY DEF TypeOK, Stacks
  <1>2. hist[m][side] \in Seq(Operations)
    BY <1>1 DEF Stacks, Sides
  <1>3. Top(hist[m][side]) \in Operations /\ Rest(hist[m][side]) \in Seq(Operations)
    BY <1>2, RestProperties
  <1>4. InverseOf(Top(hist[m][side]), doc) \in Operations
    BY <1>1, <1>3, InverseType
  <1>5. [hist[m] EXCEPT ![side] = Rest(@)] \in Stacks
    BY <1>1, <1>3 DEF Stacks
  <1>6. ASSUME NEW r \in Stacks, NEW x \in Operations, NEW y \in Sides
        PROVE  [r EXCEPT ![y] = Append(@, x)] \in Stacks
    <2>1. r[y] \in Seq(Operations)
      BY DEF Stacks, Sides
    <2>2. Append(r[y], x) \in Seq(Operations)
      BY <2>1, AppendProperties
    <2> QED
      BY <2>2 DEF Stacks
  <1>7. Other(side) \in Sides
    BY DEF Other, Sides
  <1> QED
    BY <1>3, <1>4, <1>5, <1>6, <1>7

(* Undo and redo keep types, and the auxiliary stacks in step. *)
LEMMA StepType ==
    ASSUME TypeInv, NEW m \in Managers, NEW side \in Sides, Step(m, side)
    PROVE  TypeInv'
  <1> DEFINE it == Top(hist[m][side])
             taken == [hist[m] EXCEPT ![side] = Rest(@)]
             filed == [taken EXCEPT ![Other(side)] = Append(@, InverseOf(it, doc))]
             S == hist[Host].undo
             R == hist[Host].redo
  <1>1. /\ TypeOK /\ Host \in Managers /\ hist[m][side] # <<>>
        /\ steps' = steps /\ edits' = edits
    BY DEF TypeInv, Step, Managers
  <1>2. it \in Operations /\ taken \in Stacks /\ filed \in Stacks
    BY <1>1, TakenType
  <1>3. /\ S \in Seq(Operations) /\ R \in Seq(Operations) /\ hist[Host] \in Stacks
        /\ past \in Seq(Documents) /\ future \in Seq(Documents)
        /\ doc \in Documents /\ Sound(doc)
        /\ Len(past) = Len(S) /\ Len(future) = Len(R)
        /\ recent \in BOOLEAN /\ Merging \in BOOLEAN /\ intact \in BOOLEAN
    BY <1>1 DEF TypeInv, TypeOK, InStep, Stacks
  <1>4. InverseOf(it, doc) \in Operations
    BY <1>2, <1>3, InverseType
  <1>p. past \in Seq(Documents)
    BY <1>3
  <1>f. future \in Seq(Documents)
    BY <1>3
  <1>s. S \in Seq(Operations)
    BY <1>3
  <1>r. R \in Seq(Operations)
    BY <1>3
  <1>5. ASSUME NEW commits \in BOOLEAN, m = Host, Retrace(side, commits),
               hist'[Host] = IF commits THEN filed ELSE taken
        PROVE  /\ past' \in Seq(Documents) /\ future' \in Seq(Documents)
               /\ Len(past') = Len(hist'[Host].undo)
               /\ Len(future') = Len(hist'[Host].redo)
    <2>1. CASE side = "undo"
      <3>1. /\ hist'[Host].undo = Rest(S) /\ S # <<>>
            /\ hist'[Host].redo = IF commits THEN Append(R, InverseOf(it, doc)) ELSE R
        BY <1>1, <1>3, <1>5, <2>1 DEF Other, Stacks
      <3>2. past' = Rest(past) /\ future' = IF commits THEN Append(future, doc) ELSE future
        BY <1>5, <2>1 DEF Retrace
      <3>3. past # <<>>
        BY <1>3, <3>1, EmptySeq
      <3>4. Rest(past) \in Seq(Documents) /\ Len(Rest(past)) = Len(past) - 1
        BY ONLY <1>p, <3>3, RestProperties
      <3>5. Len(Rest(S)) = Len(S) - 1
        BY ONLY <1>s, <3>1, RestProperties
      <3>6. /\ Append(future, doc) \in Seq(Documents)
            /\ Len(Append(future, doc)) = Len(Append(R, InverseOf(it, doc)))
        BY <1>3, <1>4, AppendProperties
      <3> QED
        BY <1>3, <3>1, <3>2, <3>4, <3>5, <3>6
    <2>2. CASE side = "redo"
      <3>1. /\ hist'[Host].redo = Rest(R) /\ R # <<>>
            /\ hist'[Host].undo = IF commits THEN Append(S, InverseOf(it, doc)) ELSE S
        BY <1>1, <1>3, <1>5, <2>2 DEF Other, Stacks
      <3>2. future' = Rest(future) /\ past' = IF commits THEN Append(past, doc) ELSE past
        BY <1>5, <2>2 DEF Retrace
      <3>3. future # <<>>
        BY <1>3, <3>1, EmptySeq
      <3>4. Rest(future) \in Seq(Documents) /\ Len(Rest(future)) = Len(future) - 1
        BY ONLY <1>f, <3>3, RestProperties
      <3>5. Len(Rest(R)) = Len(R) - 1
        BY ONLY <1>r, <3>1, RestProperties
      <3>6. /\ Append(past, doc) \in Seq(Documents)
            /\ Len(Append(past, doc)) = Len(Append(S, InverseOf(it, doc)))
        BY <1>3, <1>4, AppendProperties
      <3> QED
        BY <1>3, <3>1, <3>2, <3>4, <3>5, <3>6
    <2> QED
      BY <2>1, <2>2 DEF Sides
  <1>6. CASE UNCHANGED <<doc, hist, past, future, intact>> /\ recent' \in BOOLEAN
    BY <1>1, <1>6 DEF TypeInv, TypeOK, InStep
  <1>7. CASE /\ hist' = [hist EXCEPT ![m] = taken] /\ recent' \in BOOLEAN
             /\ IF m = Host THEN Retrace(side, FALSE) ELSE UNCHANGED <<past, future>>
             /\ UNCHANGED <<doc, intact>>
    <2>1. hist' \in [Managers -> Stacks] /\ hist'[m] = taken
          /\ (m # Host => hist'[Host] = hist[Host])
      BY <1>1, <1>2, <1>7 DEF TypeOK, Stacks
    <2>2. /\ past' \in Seq(Documents) /\ future' \in Seq(Documents)
          /\ Len(past') = Len(hist'[Host].undo) /\ Len(future') = Len(hist'[Host].redo)
      BY <1>3, <1>5, <1>7, <2>1
    <2> QED
      BY <1>1, <1>3, <1>7, <2>1, <2>2 DEF TypeInv, TypeOK, InStep, Stacks
  <1>8. CASE /\ Applies(it, doc) /\ Commit(m, it, filed) /\ recent' \in BOOLEAN
             /\ IF m = Host THEN Retrace(side, TRUE) /\ intact' \in BOOLEAN
                ELSE RememberEdit(it)
    <2>1. /\ doc' \in Documents /\ Sound(doc') /\ hist' \in [Managers -> Stacks]
          /\ hist'[m] = filed
          /\ (m # Host => hist'[Host] = Recorded(Host, InverseOf(it, doc)))
      BY <1>1, <1>2, <1>8, CommitType
    <2>2. /\ past' \in Seq(Documents) /\ future' \in Seq(Documents)
          /\ Len(past') = Len(hist'[Host].undo) /\ Len(future') = Len(hist'[Host].redo)
          /\ intact' \in BOOLEAN
      <3>1. CASE m = Host
        BY <1>5, <1>8, <2>1, <3>1
      <3>2. CASE m # Host
        BY <1>4, <1>8, <2>1, <3>2, RememberType
      <3> QED
        BY <3>1, <3>2
    <2> QED
      BY <1>1, <1>8, <2>1, <2>2 DEF TypeInv, TypeOK, InStep, Stacks
  <1> QED
    BY <1>3, <1>6, <1>7, <1>8 DEF Step

(* Clearing a history, too. *)
LEMMA ClearType ==
    ASSUME TypeInv, NEW m \in Managers, Clear(m)
    PROVE  TypeInv'
  <1>1. /\ TypeOK /\ UNCHANGED <<doc, steps, intact, edits>>
        /\ hist' = [hist EXCEPT ![m] = NoHistory] /\ recent' \in BOOLEAN
    BY DEF TypeInv, Clear, TypeOK
  <1>2. /\ NoHistory \in Stacks /\ NoHistory.undo = <<>> /\ NoHistory.redo = <<>>
        /\ <<>> \in Seq(Documents)
    BY EmptySeq DEF NoHistory, Stacks
  <1>3. hist' \in [Managers -> Stacks] /\ hist'[m] = NoHistory
        /\ (m # Host => hist'[Host] = hist[Host])
    BY <1>1, <1>2 DEF TypeOK, Stacks, Managers
  <1>4. CASE m = Host
    BY <1>1, <1>2, <1>3, <1>4 DEF Clear, TypeInv, TypeOK, InStep, Stacks
  <1>5. CASE m # Host
    BY <1>1, <1>3, <1>5 DEF Clear, TypeInv, TypeOK, InStep, Stacks
  <1> QED
    BY <1>4, <1>5

(* What is left of a stack that is imported. *)
LEMMA CutProperties ==
    ASSUME NEW S, NEW s \in Seq(S), NEW k \in Nat
    PROVE  /\ Cut(s, k) = Newest(s, Least(Len(s), k)) /\ Least(Len(s), k) \in 0..Len(s)
           /\ Cut(s, k) \in Seq(S) /\ Len(Cut(s, k)) = Least(Len(s), k)
  <1>1. Least(Len(s), k) \in 0..Len(s)
    BY DEF Least
  <1> QED
    BY <1>1, NewestProperties DEF Cut

(* Transferring a history, too. *)
LEMMA TransferType ==
    ASSUME TypeInv, Transfer
    PROVE  TypeInv'
  <1>1. PICK k \in 1..MaxSteps :
            /\ steps' = [steps EXCEPT ![Host] = k]
            /\ hist' = [m \in Managers |->
                           IF m = Host THEN [undo |-> Cut(hist[m].undo, k),
                                             redo |-> Cut(hist[m].redo, k)]
                           ELSE NoHistory]
            /\ past' = Cut(past, k) /\ future' = Cut(future, k)
            /\ UNCHANGED <<doc, recent, intact, edits>>
    BY DEF Transfer
  <1>2. /\ TypeOK /\ Host \in Managers /\ k \in Nat
        /\ hist[Host].undo \in Seq(Operations) /\ hist[Host].redo \in Seq(Operations)
        /\ past \in Seq(Documents) /\ future \in Seq(Documents)
        /\ Len(past) = Len(hist[Host].undo) /\ Len(future) = Len(hist[Host].redo)
    BY DEF TypeInv, TypeOK, InStep, Managers
  <1>3. /\ Cut(hist[Host].undo, k) \in Seq(Operations)
        /\ Len(Cut(hist[Host].undo, k)) = Least(Len(hist[Host].undo), k)
    BY <1>2, CutProperties
  <1>4. /\ Cut(hist[Host].redo, k) \in Seq(Operations)
        /\ Len(Cut(hist[Host].redo, k)) = Least(Len(hist[Host].redo), k)
    BY <1>2, CutProperties
  <1>5. past' \in Seq(Documents) /\ Len(past') = Least(Len(past), k)
    BY <1>1, <1>2, CutProperties
  <1>6. future' \in Seq(Documents) /\ Len(future') = Least(Len(future), k)
    BY <1>1, <1>2, CutProperties
  <1>7. NoHistory \in Stacks
    BY EmptySeq DEF NoHistory, Stacks
  <1>8. /\ hist'[Host].undo = Cut(hist[Host].undo, k)
        /\ hist'[Host].redo = Cut(hist[Host].redo, k)
        /\ hist' \in [Managers -> Stacks]
    BY <1>1, <1>2, <1>3, <1>4, <1>7 DEF Stacks
  <1>9. steps' \in [Managers -> 1..MaxSteps]
    BY <1>1, <1>2 DEF TypeOK
  <1> QED
    BY <1>1, <1>2, <1>3, <1>4, <1>5, <1>6, <1>8, <1>9 DEF TypeInv, TypeOK, InStep, Stacks

(* The types hold at the start. *)
LEMMA InitType == Init => TypeInv
  <1> SUFFICES ASSUME Init PROVE TypeInv
    OBVIOUS
  <1>1. doc \in Documents /\ Sound(doc)
    <2>1. \A n \in Nodes : doc[n] = Default /\ Default \notin Targets
      BY DEF Init
    <2>2. doc \in Documents
      BY DEF Init, Documents, Values
    <2> QED
      BY <2>1, <2>2 DEF Sound
  <1>2. /\ past = <<>> /\ future = <<>> /\ <<>> \in Seq(Documents)
        /\ hist[Host].undo = <<>> /\ hist[Host].redo = <<>>
    BY EmptySeq DEF Init, Managers
  <1>3. hist \in [Managers -> [undo : Seq(Operations), redo : Seq(Operations)]]
    BY EmptySeq DEF Init
  <1>4. steps \in [Managers -> 1..MaxSteps] /\ recent \in BOOLEAN /\ intact \in BOOLEAN
    BY DEF Init
  <1>5. edits \in 0..MaxEdits
    BY DEF Init
  <1> QED
    BY <1>1, <1>2, <1>3, <1>4, <1>5 DEF TypeInv, TypeOK, InStep

(* and every step keeps them. *)
LEMMA NextType == TypeInv /\ [Next]_vars => TypeInv'
  <1> SUFFICES ASSUME TypeInv, [Next]_vars PROVE TypeInv'
    OBVIOUS
  <1>1. ASSUME NEW m \in Managers, NEW side \in Sides, Step(m, side)
        PROVE  TypeInv'
    BY <1>1, StepType
  <1>2. CASE Pause
    BY <1>2 DEF Pause, TypeInv, TypeOK, InStep
  <1>3. CASE UNCHANGED vars
    BY <1>3 DEF vars, TypeInv, TypeOK, Sound, InStep
  <1>4. "undo" \in Sides /\ "redo" \in Sides
    BY DEF Sides
  <1> QED
    BY <1>1, <1>2, <1>3, <1>4, EditType, ClearType, TransferType DEF Next, Undo, Redo

-----------------------------------------------------------------------------
(* The history.                                                            *)

(* The document's manager records a commit: its history is still exact,    *)
(* and longer by a step.                                                   *)
LEMMA HostRecords ==
    ASSUME TypeInv, Aligned, NEW it \in Operations, Applies(it, doc),
           doc' = Apply(it, doc), RememberEdit(it), intact'
    PROVE  /\ Chain(Recorded(Host, InverseOf(it, doc)).undo, past', doc')
           /\ Chain(Recorded(Host, InverseOf(it, doc)).redo, future', doc')
           /\ Line!Edit
  <1> DEFINE S == hist[Host].undo
             inv == InverseOf(it, doc)
  <1>1. /\ S \in Seq(Operations) /\ past \in Seq(Documents)
        /\ doc \in Documents /\ Sound(doc) /\ Chain(S, past, doc)
        /\ Len(S) \in Nat /\ Len(past) = Len(S) /\ steps[Host] \in Nat \ {0}
    BY DEF TypeInv, TypeOK, InStep, Managers, Aligned
  <1>2. doc' \in Documents /\ inv \in Operations /\ Leads(inv, doc', doc)
    BY <1>1, ApplyType, InverseType, InverseLeads DEF RememberEdit
  <1>3. /\ future' = <<>> /\ Recorded(Host, inv).redo = <<>>
        /\ Chain(<<>>, <<>>, doc')
    BY DEF RememberEdit, Recorded, Chain
  <1>4. CASE Joins(Host)
    <2>1. S # <<>>
      BY <1>4 DEF Joins
    <2>2. past' = past /\ past # <<>>
      BY <1>1, <1>4, <2>1, EmptySeq DEF RememberEdit
    <2>3. Recorded(Host, inv).undo = [S EXCEPT ![Len(S)] = Merge(inv, @)]
      BY <1>4 DEF Recorded
    <2>4. ~Confuses(inv, Top(S))
      BY <1>4 DEF RememberEdit
    <2>5. Chain(Recorded(Host, inv).undo, past', doc')
      BY <1>1, <1>2, <2>1, <2>2, <2>3, <2>4, ChainMerge
    <2> QED
      BY <1>1, <1>2, <1>3, <2>2, <2>5 DEF Line!Edit
  <1>5. CASE ~Joins(Host)
    <2> DEFINE k == IF Len(S) >= steps[Host] THEN Len(S) - 1 ELSE Len(S)
    <2>1. k \in 0..Len(S) /\ k \in 0..Len(past)
      BY <1>1
    <2>2. ASSUME NEW V, NEW s \in Seq(V), Len(s) = Len(S)
          PROVE  (IF Len(s) >= steps[Host] THEN Tail(s) ELSE s) = Newest(s, k)
      <3>1. CASE Len(S) >= steps[Host]
        <4>1. s # <<>>
          BY <1>1, <2>2, <3>1, EmptySeq
        <4> QED
          BY <2>2, <3>1, <4>1, TailIsNewest
      <3>2. CASE ~(Len(S) >= steps[Host])
        <4>1. Len(s) - Len(s) + 1 = 1
          BY <1>1, <2>2
        <4> QED
          BY <2>2, <3>2, <4>1, SubSeqFull DEF Newest
      <3> QED
        BY <3>1, <3>2
    <2>3. Recorded(Host, inv).undo = Append(Newest(S, k), inv)
      <3>1. (IF Len(S) >= steps[Host] THEN Tail(S) ELSE S) = Newest(S, k)
        BY <1>1, <2>2
      <3> QED
        BY <1>5, <3>1 DEF Recorded
    <2>4. past' = Append(Newest(past, k), doc)
      <3>1. (IF Len(past) >= steps[Host] THEN Tail(past) ELSE past) = Newest(past, k)
        BY <1>1, <2>2
      <3> QED
        BY <1>5, <3>1 DEF RememberEdit
    <2>5. Newest(S, k) \in Seq(Operations) /\ Newest(past, k) \in Seq(Documents)
      BY <1>1, <2>1, NewestProperties
    <2>6. Chain(Newest(S, k), Newest(past, k), doc)
      BY <1>1, <2>1, ChainCut
    <2>7. Chain(Recorded(Host, inv).undo, past', doc')
      BY <1>1, <1>2, <2>3, <2>4, <2>5, <2>6, ChainPush
    <2>8. Line!Edit
      <3>1. Newest(past, k) = Line!Newest(past, k)
        BY DEF Newest, Line!Newest
      <3> QED
        BY <1>2, <1>3, <2>1, <2>4, <3>1 DEF Line!Edit
    <2> QED
      BY <1>3, <2>7, <2>8
  <1> QED
    BY <1>4, <1>5

(* The history starts out exact. *)
LEMMA InitChain == Init => Aligned /\ Line!Init
  <1> SUFFICES ASSUME Init PROVE Aligned /\ Line!Init
    OBVIOUS
  <1>1. /\ past = <<>> /\ future = <<>>
        /\ hist[Host].undo = <<>> /\ hist[Host].redo = <<>>
    BY DEF Init, Managers
  <1>2. Chain(<<>>, <<>>, doc)
    BY DEF Chain
  <1>3. doc \in Documents
    BY InitType DEF TypeInv, TypeOK
  <1> QED
    BY <1>1, <1>2, <1>3 DEF Aligned, Line!Init

(* An edit, by the host or by a client. *)
LEMMA EditChain ==
    ASSUME TypeInv, Aligned, NEW m \in Managers, Edit(m), intact'
    PROVE  Aligned' /\ Line!Edit
  <1>1. PICK it \in Edits :
            /\ Applies(it, doc) /\ RememberEdit(it)
            /\ Commit(m, it, Recorded(m, InverseOf(it, doc)))
    BY DEF Edit
  <1>2. TypeOK /\ it \in Operations
    BY EditsType DEF TypeInv
  <1>3. doc' = Apply(it, doc)
    BY <1>1 DEF Commit
  <1>4. InverseOf(it, doc) \in Operations
    BY <1>2, InverseType DEF TypeOK
  <1>5. hist'[Host] = Recorded(Host, InverseOf(it, doc))
    BY <1>1, <1>2, <1>4, RecordedType, CommitType
  <1> QED
    BY <1>1, <1>2, <1>3, <1>5, HostRecords DEF Aligned

(* Undo and redo of a client are edits to the document's manager. *)
LEMMA ClientStepChain ==
    ASSUME TypeInv, Aligned, NEW m \in Managers \ {Host}, NEW side \in Sides,
           Step(m, side), intact'
    PROVE  Aligned' /\ (Line!Edit \/ UNCHANGED LineVars)
  <1> DEFINE it == Top(hist[m][side])
             taken == [hist[m] EXCEPT ![side] = Rest(@)]
             filed == [taken EXCEPT ![Other(side)] = Append(@, InverseOf(it, doc))]
  <1>1. TypeOK /\ hist[m][side] # <<>>
    BY DEF TypeInv, Step
  <1>2. it \in Operations /\ filed \in Stacks
    BY <1>1, TakenType
  <1>3. CASE UNCHANGED <<doc, past, future>>
             /\ hist' \in {hist, [hist EXCEPT ![m] = taken]}
    <2>1. hist'[Host] = hist[Host]
      BY <1>1, <1>3 DEF TypeOK, Managers
    <2> QED
      BY <1>3, <2>1 DEF Aligned, LineVars
  <1>4. CASE Applies(it, doc) /\ Commit(m, it, filed) /\ RememberEdit(it)
    <2>1. doc' = Apply(it, doc)
      BY <1>4 DEF Commit
    <2>2. hist'[Host] = Recorded(Host, InverseOf(it, doc))
      BY <1>1, <1>2, <1>4, CommitType
    <2> QED
      BY <1>2, <1>4, <2>1, <2>2, HostRecords DEF Aligned
  <1> QED
    BY <1>3, <1>4 DEF Step

(* Taking the newest step of one stack and filing its inverse on the other. *)
LEMMA StepChains ==
    ASSUME NEW S \in Seq(Operations), NEW D \in Seq(Documents),
           NEW T \in Seq(Operations), NEW F \in Seq(Documents),
           NEW d \in Documents, Sound(d),
           Chain(S, D, d), Chain(T, F, d), S # <<>>
    PROVE  /\ Applies(Top(S), d) /\ Apply(Top(S), d) = Top(D) /\ D # <<>>
           /\ Chain(Rest(S), Rest(D), Top(D))
           /\ ~Loses(Top(S), d) =>
                Chain(Append(T, InverseOf(Top(S), d)), Append(F, d), Top(D))
           /\ ~Changes(Top(S), d) => Top(D) = d
  <1> DEFINE it == Top(S)
             inv == InverseOf(it, d)
  <1>1. /\ Leads(it, d, Top(D)) /\ D # <<>> /\ Top(D) \in Documents
        /\ Chain(Rest(S), Rest(D), Top(D))
    BY ChainPop
  <1>2. it \in Operations
    BY ONLY S \in Seq(Operations), S # <<>>, RestProperties
  <1>3. Applies(it, d) /\ Apply(it, d) = Top(D)
    BY <1>1 DEF Leads
  <1>4. ASSUME ~Loses(it, d)
        PROVE  Chain(Append(T, inv), Append(F, d), Top(D))
    <2>1. inv \in Operations /\ Leads(inv, Top(D), d)
      BY <1>2, <1>3, <1>4, InverseType, InverseLeads
    <2> QED
      BY <1>1, <2>1, ChainPush
  <1>5. ASSUME ~Changes(it, d)
        PROVE  Top(D) = d
    <2>1. \A n \in Nodes : Top(D)[n] = d[n]
      BY <1>3, <1>5 DEF Changes
    <2> QED
      BY <1>1, <2>1 DEF Documents
  <1> QED
    BY <1>1, <1>3, <1>4, <1>5

(* Undo and redo of the document's manager go along the timeline. *)
LEMMA HostStepChain ==
    ASSUME TypeInv, Aligned, NEW side \in Sides, Step(Host, side), intact'
    PROVE  Aligned' /\ (Line!Undo \/ Line!Redo)
  <1> DEFINE S == hist[Host].undo
             R == hist[Host].redo
             it == Top(hist[Host][side])
             taken == [hist[Host] EXCEPT ![side] = Rest(@)]
             filed == [taken EXCEPT ![Other(side)] = Append(@, InverseOf(it, doc))]
  <1>1. TypeOK /\ Host \in Managers /\ hist[Host][side] # <<>>
    BY DEF TypeInv, Step, Managers
  <1>2. /\ S \in Seq(Operations) /\ R \in Seq(Operations) /\ hist[Host] \in Stacks
        /\ past \in Seq(Documents) /\ future \in Seq(Documents)
        /\ doc \in Documents /\ Sound(doc)
        /\ Chain(S, past, doc) /\ Chain(R, future, doc)
    BY <1>1 DEF TypeOK, Stacks, Aligned
  <1>3. it \in Operations /\ filed \in Stacks
    BY <1>1, TakenType
  <1>4. \/ /\ ~Applies(it, doc)
           /\ UNCHANGED <<doc, hist, past, future>>
        \/ /\ ~Changes(it, doc) /\ hist'[Host] = taken /\ doc' = doc
           /\ Retrace(side, FALSE)
        \/ /\ ~Loses(it, doc) /\ hist'[Host] = filed /\ doc' = Apply(it, doc)
           /\ Retrace(side, TRUE)
    <2>1. ASSUME Commit(Host, it, filed)
          PROVE  hist'[Host] = filed /\ doc' = Apply(it, doc)
      BY <1>1, <2>1 DEF Commit
    <2>2. ASSUME hist' = [hist EXCEPT ![Host] = taken]
          PROVE  hist'[Host] = taken
      BY <1>1, <2>2 DEF TypeOK
    <2> QED
      BY <2>1, <2>2 DEF Step
  <1>5. CASE side = "undo"
    <2>1. /\ hist[Host][side] = S /\ S # <<>>
          /\ taken.undo = Rest(S) /\ taken.redo = R
          /\ filed.undo = Rest(S) /\ filed.redo = Append(R, InverseOf(it, doc))
      BY <1>1, <1>2, <1>5 DEF Other, Stacks
    <2>2. /\ Applies(it, doc) /\ Apply(it, doc) = Top(past) /\ past # <<>>
          /\ Chain(Rest(S), Rest(past), Top(past))
          /\ ~Loses(it, doc) =>
               Chain(Append(R, InverseOf(it, doc)), Append(future, doc), Top(past))
          /\ ~Changes(it, doc) => Top(past) = doc
      BY <1>2, <2>1, StepChains
    <2>3. Line!Top(past) = Top(past) /\ Line!Rest(past) = Rest(past)
      BY DEF Top, Rest, Line!Top, Line!Rest
    <2>4. CASE ~Changes(it, doc) /\ hist'[Host] = taken /\ doc' = doc
               /\ Retrace(side, FALSE)
      <3>1. past' = Rest(past) /\ future' = future /\ doc' = Top(past)
        BY <1>5, <2>2, <2>4 DEF Retrace
      <3> QED
        BY <1>2, <2>1, <2>2, <2>3, <2>4, <3>1 DEF Aligned, Line!Undo
    <2>5. CASE ~Loses(it, doc) /\ hist'[Host] = filed /\ doc' = Apply(it, doc)
               /\ Retrace(side, TRUE)
      <3>1. past' = Rest(past) /\ future' = Append(future, doc) /\ doc' = Top(past)
        BY <1>5, <2>2, <2>5 DEF Retrace
      <3> QED
        BY <2>1, <2>2, <2>3, <2>5, <3>1 DEF Aligned, Line!Undo
    <2> QED
      BY <1>4, <2>2, <2>4, <2>5
  <1>6. CASE side = "redo"
    <2>1. /\ hist[Host][side] = R /\ R # <<>>
          /\ taken.redo = Rest(R) /\ taken.undo = S
          /\ filed.redo = Rest(R) /\ filed.undo = Append(S, InverseOf(it, doc))
      BY <1>1, <1>2, <1>6 DEF Other, Stacks
    <2>2. /\ Applies(it, doc) /\ Apply(it, doc) = Top(future) /\ future # <<>>
          /\ Chain(Rest(R), Rest(future), Top(future))
          /\ ~Loses(it, doc) =>
               Chain(Append(S, InverseOf(it, doc)), Append(past, doc), Top(future))
          /\ ~Changes(it, doc) => Top(future) = doc
      BY <1>2, <2>1, StepChains
    <2>3. Line!Top(future) = Top(future) /\ Line!Rest(future) = Rest(future)
      BY DEF Top, Rest, Line!Top, Line!Rest
    <2>4. CASE ~Changes(it, doc) /\ hist'[Host] = taken /\ doc' = doc
               /\ Retrace(side, FALSE)
      <3>1. future' = Rest(future) /\ past' = past /\ doc' = Top(future)
        BY <1>6, <2>2, <2>4 DEF Retrace
      <3> QED
        BY <1>2, <2>1, <2>2, <2>3, <2>4, <3>1 DEF Aligned, Line!Redo
    <2>5. CASE ~Loses(it, doc) /\ hist'[Host] = filed /\ doc' = Apply(it, doc)
               /\ Retrace(side, TRUE)
      <3>1. future' = Rest(future) /\ past' = Append(past, doc) /\ doc' = Top(future)
        BY <1>6, <2>2, <2>5 DEF Retrace
      <3> QED
        BY <2>1, <2>2, <2>3, <2>5, <3>1 DEF Aligned, Line!Redo
    <2> QED
      BY <1>4, <2>2, <2>4, <2>5
  <1> QED
    BY <1>5, <1>6 DEF Sides

(* What is left of a history that is cleared holds. *)
LEMMA ClearChain ==
    ASSUME TypeInv, Aligned, NEW m \in Managers, Clear(m)
    PROVE  Aligned' /\ (Line!Forget \/ UNCHANGED LineVars)
  <1>1. /\ TypeOK /\ doc' = doc /\ Host \in Managers
        /\ hist' = [hist EXCEPT ![m] = NoHistory]
    BY DEF TypeInv, Clear, Managers
  <1>2. CASE m = Host
    <2>1. past' = <<>> /\ future' = <<>> /\ hist'[Host] = NoHistory
      BY <1>1, <1>2 DEF Clear, TypeOK
    <2>2. Chain(<<>>, <<>>, doc)
      BY DEF Chain
    <2>3. ASSUME NEW s \in Seq(Documents)
          PROVE  0 \in 0..Len(s) /\ Line!Newest(s, 0) = <<>>
      <3>1. 0 \in 0..Len(s)
        OBVIOUS
      <3>2. Newest(s, 0) \in Seq(Documents) /\ Len(Newest(s, 0)) = 0
        BY <3>1, NewestProperties
      <3> QED
        BY <3>1, <3>2, EmptySeq DEF Newest, Line!Newest
    <2> QED
      BY <1>1, <2>1, <2>2, <2>3 DEF TypeOK, NoHistory, Aligned, Line!Forget
  <1>3. CASE m # Host
    <2>1. past' = past /\ future' = future /\ hist'[Host] = hist[Host]
      BY <1>1, <1>3 DEF Clear, TypeOK
    <2> QED
      BY <1>1, <2>1 DEF Aligned, LineVars
  <1> QED
    BY <1>2, <1>3

(* An imported history is the newest part of the exported one. *)
LEMMA TransferChain ==
    ASSUME TypeInv, Aligned, Transfer
    PROVE  Aligned' /\ Line!Forget
  <1>1. PICK k \in 1..MaxSteps :
            /\ hist' = [m \in Managers |->
                           IF m = Host THEN [undo |-> Cut(hist[m].undo, k),
                                             redo |-> Cut(hist[m].redo, k)]
                           ELSE NoHistory]
            /\ past' = Cut(past, k) /\ future' = Cut(future, k)
            /\ doc' = doc
    BY DEF Transfer
  <1>2. /\ Host \in Managers /\ k \in Nat
        /\ hist[Host].undo \in Seq(Operations) /\ hist[Host].redo \in Seq(Operations)
        /\ past \in Seq(Documents) /\ future \in Seq(Documents)
    BY DEF TypeInv, TypeOK, Managers
  <1>3. ASSUME NEW S \in Seq(Operations), NEW D \in Seq(Documents),
               Chain(S, D, doc)
        PROVE  /\ Chain(Cut(S, k), Cut(D, k), doc)
               /\ \E j \in 0..Len(D) : Cut(D, k) = Line!Newest(D, j)
    <2> DEFINE j == Least(Len(S), k)
    <2>1. Len(S) = Len(D)
      BY <1>3 DEF Chain
    <2>2. Cut(S, k) = Newest(S, j) /\ j \in 0..Len(S)
      BY <1>2, CutProperties
    <2>3. Cut(D, k) = Newest(D, j)
      BY <2>1 DEF Cut
    <2>4. Chain(Newest(S, j), Newest(D, j), doc)
      BY <1>3, <2>2, ChainCut
    <2>5. Newest(D, j) = Line!Newest(D, j)
      BY DEF Newest, Line!Newest
    <2> QED
      BY <2>1, <2>2, <2>3, <2>4, <2>5
  <1>4. /\ hist'[Host].undo = Cut(hist[Host].undo, k)
        /\ hist'[Host].redo = Cut(hist[Host].redo, k)
    BY <1>1, <1>2
  <1> QED
    BY <1>1, <1>2, <1>3, <1>4 DEF Aligned, Line!Forget

(* Every step that loses nothing keeps the history exact and goes along    *)
(* the timeline.                                                           *)
LEMMA NextChain ==
    ASSUME TypeInv, intact => Aligned, [Next]_vars, intact'
    PROVE  Aligned' /\ [Line!Next]_LineVars
  <1>1. intact
    <2>1. ASSUME NEW m \in Managers, NEW side \in Sides, Step(m, side)
          PROVE  intact
      BY <2>1 DEF Step, Retrace, RememberEdit
    <2>2. ASSUME NEW m \in Managers, Edit(m)
          PROVE  intact
      BY <2>2 DEF Edit, RememberEdit
    <2>3. ASSUME NEW m \in Managers, Clear(m)
          PROVE  intact
      BY <2>3 DEF Clear
    <2> QED
      BY <2>1, <2>2, <2>3 DEF Next, Undo, Redo, Sides, Pause, Transfer, vars
  <1>2. ASSUME NEW m \in Managers, Edit(m)
        PROVE  Aligned' /\ Line!Next
    BY <1>1, <1>2, EditChain DEF Line!Next
  <1>3. ASSUME NEW m \in Managers, NEW side \in Sides, Step(m, side)
        PROVE  Aligned' /\ [Line!Next]_LineVars
    <2>1. CASE m = Host
      BY <1>1, <1>3, <2>1, HostStepChain DEF Line!Next
    <2>2. CASE m # Host
      BY <1>1, <1>3, <2>2, ClientStepChain DEF Line!Next
    <2> QED
      BY <2>1, <2>2
  <1>4. ASSUME NEW m \in Managers, Clear(m)
        PROVE  Aligned' /\ [Line!Next]_LineVars
    BY <1>1, <1>4, ClearChain DEF Line!Next
  <1>5. CASE Pause \/ UNCHANGED vars
    BY <1>1, <1>5 DEF Pause, vars, Aligned, LineVars
  <1>6. CASE Transfer
    BY <1>1, <1>6, TransferChain DEF Line!Next
  <1>7. "undo" \in Sides /\ "redo" \in Sides
    BY DEF Sides
  <1> QED
    BY <1>2, <1>3, <1>4, <1>5, <1>6, <1>7 DEF Next, Undo, Redo

(* The history is exact as long as no commit has lost a value. *)
LEMMA ChainHolds == Spec => [](TypeInv /\ (intact => Aligned))
  <1>1. Init => TypeInv /\ (intact => Aligned)
    BY InitType, InitChain
  <1>2. TypeInv /\ (intact => Aligned) /\ [Next]_vars
          => TypeInv' /\ (intact => Aligned)'
    BY NextType, NextChain
  <1> QED
    BY <1>1, <1>2, PTL DEF Spec

-----------------------------------------------------------------------------
(* Documents, stacks and their bounds are what they are said to be, and    *)
(* every reference in the document resolves (_operations.py).              *)
THEOREM TypeCorrect == Spec => []TypeOK
  <1>1. TypeInv => TypeOK
    BY DEF TypeInv
  <1> QED
    BY <1>1, ChainHolds, PTL

(* As long as no commit has lost a value, the history of the document's    *)
(* manager is exact (_undo.py): it goes back and forth along the documents *)
(* the steps went through, and no step gets lost or made up.               *)
THEOREM Exact == Spec => Retraces
  <1>1. TypeInv /\ (intact => Aligned) /\ [Next]_vars
          => [intact' => Line!Next]_LineVars
    BY NextChain
  <1>2. TypeInv => (intact => InStep)
    BY DEF TypeInv
  <1> QED
    BY <1>1, <1>2, InitChain, ChainHolds, PTL DEF Spec, Retraces, LineVars

(* undo() and redo() of the document's manager are never refused, as long  *)
(* as no commit has lost a value.                                          *)
THEOREM NothingRefused == Spec => []NeverRefused
  <1>1. TypeInv /\ (intact => Aligned) => NeverRefused
    <2> SUFFICES ASSUME TypeInv, Aligned, NEW side \in Sides,
                        hist[Host][side] # <<>>
                 PROVE  Applies(Top(hist[Host][side]), doc)
      BY DEF NeverRefused
    <2>1. /\ hist[Host].undo \in Seq(Operations) /\ past \in Seq(Documents)
          /\ hist[Host].redo \in Seq(Operations) /\ future \in Seq(Documents)
          /\ Chain(hist[Host].undo, past, doc) /\ Chain(hist[Host].redo, future, doc)
      BY DEF TypeInv, TypeOK, Managers, Aligned
    <2> QED
      BY <2>1, ChainPop DEF Sides, Leads
  <1> QED
    BY <1>1, ChainHolds, PTL

(* A step that can be taken, of any manager, can be taken back, unless a   *)
(* value is lost.                                                          *)
THEOREM EveryStepReverts == Spec => []Reversible
  <1>1. TypeInv => Reversible
    <2> SUFFICES ASSUME TypeInv, NEW m \in Managers, NEW side \in Sides,
                        hist[m][side] # <<>>, Applies(Top(hist[m][side]), doc),
                        ~Loses(Top(hist[m][side]), doc)
                 PROVE  Reverts(Top(hist[m][side]), doc)
      BY DEF Reversible
    <2>1. TypeOK /\ doc \in Documents /\ Sound(doc)
      BY DEF TypeInv, TypeOK
    <2>2. Top(hist[m][side]) \in Operations
      BY <2>1, TakenType
    <2> QED
      BY <2>1, <2>2, InverseLeads DEF Leads, Reverts
  <1> QED
    BY <1>1, ChainHolds, PTL
=============================================================================
