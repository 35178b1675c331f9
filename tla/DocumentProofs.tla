--------------------------- MODULE DocumentProofs ---------------------------
(* What holds of the tree of every document and of its transactions: for any *)
(* nodes, any trees to start from, any number of calls and transactions.     *)
(*                                                                           *)
(* The first parts are about the pointers: what they lead to, and that every *)
(* call that is allowed keeps them those of a tree.                          *)
(* IsTree says it as the code could check it, by walks: from the root they   *)
(* find every node of the document, each once.  The proofs need it without   *)
(* walks: a Forest is a set of nodes S with the tops T, where later[k] are   *)
(* the siblings that come after k, next and prev name the first of the later *)
(* and the last of the earlier ones, first and last the ends, and no nodes   *)
(* are all below each other (Grounded).  A tree is a forest with one top     *)
(* (TreeForest), a forest with one top is a tree (ForestTree), and what an    *)
(* operation does to a forest is set arithmetic: it cuts a bough off, or     *)
(* puts one in between two siblings.                                         *)
(*                                                                           *)
(* The parts on fields, the index and references, which follow, say nothing  *)
(* of how the pointers lead from one node to the next; they take what is     *)
(* below a node for any set of nodes.  The last two bring both together: the *)
(* document stays a tree.                                                    *)
EXTENDS Document, SequenceTheorems, FiniteSetTheorems, WellFoundedInduction, TLAPS

-----------------------------------------------------------------------------
(* Induction over numbers and recursion, for a set and a function in place   *)
(* of a predicate and an operator.                                           *)

Lower == {p \in Nat \X Nat : p[1] < p[2]}

LEMMA LowerIsWellFounded == IsWellFoundedOn(Lower, Nat)
  BY NatLessThanWellFounded DEF OpToRel, Lower

LEMMA Least ==
  ASSUME NEW I, I \subseteq Nat, I # {}
  PROVE  \E x \in I : \A y \in I : x <= y
<1>1. PICK x \in I : \A y \in I : ~(<<y, x>> \in Lower)
  BY LowerIsWellFounded, WFMin
<1>2. ASSUME NEW y \in I PROVE x <= y
  <2>1. x \in Nat /\ y \in Nat /\ ~(y < x)
    BY <1>1 DEF Lower
  <2> QED
    BY <2>1
<1> QED
  BY <1>2

LEMMA Induction ==
  ASSUME NEW T, 0 \in T, \A n \in Nat : n \in T => n + 1 \in T
  PROVE  Nat \subseteq T
<1> SUFFICES ASSUME Nat \ T # {} PROVE FALSE
  OBVIOUS
<1>1. PICK x \in Nat \ T : \A y \in Nat \ T : x <= y
  BY Least
<1>2. x # 0
  BY <1>1
<1>3. x - 1 \in Nat /\ x - 1 \in T
  BY <1>1, <1>2
<1> QED
  BY <1>1, <1>3

(* The first n + 1 values of what starts as `first' and goes on by `step'.   *)
Unrolled(S, first, step, n) ==
  {f \in [0..n -> S] : f[0] = first /\ \A k \in 1..n : f[k] = step[f[k - 1]]}

LEMMA UnrolledExists ==
  ASSUME NEW S, NEW first \in S, NEW step \in [S -> S]
  PROVE  \A n \in Nat : Unrolled(S, first, step, n) # {}
<1> DEFINE T == {n \in Nat : Unrolled(S, first, step, n) # {}}
<1>1. 0 \in T
  <2>1. [k \in 0..0 |-> first] \in Unrolled(S, first, step, 0)
    BY DEF Unrolled
  <2> QED
    BY <2>1
<1>2. ASSUME NEW n \in Nat, n \in T PROVE n + 1 \in T
  <2>1. PICK f \in Unrolled(S, first, step, n) : TRUE
    BY <1>2
  <2> DEFINE g == [k \in 0..(n + 1) |-> IF k <= n THEN f[k] ELSE step[f[n]]]
  <2>2. f \in [0..n -> S] /\ f[0] = first /\ \A k \in 1..n : f[k] = step[f[k - 1]]
    BY <2>1 DEF Unrolled
  <2>3. g \in [0..(n + 1) -> S]
    BY <2>2
  <2>4. g[0] = first
    BY <2>2
  <2>5. ASSUME NEW k \in 1..(n + 1) PROVE g[k] = step[g[k - 1]]
    <3>1. CASE k <= n
      <4>1. k \in 1..n /\ k \in 0..(n + 1) /\ k - 1 \in 0..(n + 1) /\ k - 1 <= n
        BY <3>1
      <4> QED
        BY <2>2, <4>1
    <3>2. CASE k = n + 1
      <4>1. k \in 0..(n + 1) /\ k - 1 \in 0..(n + 1) /\ k - 1 = n /\ ~(k <= n)
        BY <3>2
      <4> QED
        BY <4>1
    <3> QED
      BY <3>1, <3>2
  <2>6. g \in Unrolled(S, first, step, n + 1)
    <3> HIDE DEF g
    <3> QED
      BY <2>3, <2>4, <2>5 DEF Unrolled
  <2> QED
    BY <2>6
<1> HIDE DEF T
<1>3. Nat \subseteq T
  BY <1>1, <1>2, Induction
<1> QED
  BY <1>3 DEF T

LEMMA UnrolledSame ==
  ASSUME NEW S, NEW first \in S, NEW step \in [S -> S],
         NEW m \in Nat, NEW n \in Nat,
         NEW f \in Unrolled(S, first, step, m), NEW g \in Unrolled(S, first, step, n)
  PROVE  \A k \in Nat : k <= m /\ k <= n => f[k] = g[k]
<1> DEFINE T == {k \in Nat : k <= m /\ k <= n => f[k] = g[k]}
<1>1. 0 \in T
  BY DEF Unrolled
<1>2. ASSUME NEW k \in Nat, k \in T PROVE k + 1 \in T
  <2> SUFFICES ASSUME k + 1 <= m, k + 1 <= n PROVE f[k + 1] = g[k + 1]
    OBVIOUS
  <2>1. k + 1 \in 1..m /\ k + 1 \in 1..n /\ k <= m /\ k <= n /\ (k + 1) - 1 = k
    OBVIOUS
  <2>2. f[k + 1] = step[f[k]] /\ g[k + 1] = step[g[k]]
    BY <2>1 DEF Unrolled
  <2> QED
    BY <1>2, <2>1, <2>2
<1> HIDE DEF T
<1>3. Nat \subseteq T
  BY <1>1, <1>2, Induction
<1> QED
  BY <1>3 DEF T

(* What starts as `first' and goes on by `step' for ever.                    *)
Iterated(S, first, step) ==
  {f \in [Nat -> S] : f[0] = first /\ \A n \in Nat : f[n + 1] = step[f[n]]}

LEMMA RecursionExists ==
  ASSUME NEW S, NEW first \in S, NEW step \in [S -> S]
  PROVE  \E f : f \in Iterated(S, first, step)
<1> DEFINE U(n) == CHOOSE g : g \in Unrolled(S, first, step, n)
           f == [n \in Nat |-> U(n)[n]]
<1>1. \A n \in Nat : U(n) \in Unrolled(S, first, step, n)
  BY UnrolledExists
<1> HIDE DEF U
<1>2. f \in [Nat -> S] /\ f[0] = first
  BY <1>1 DEF Unrolled
<1>3. ASSUME NEW n \in Nat PROVE f[n + 1] = step[f[n]]
  <2>1. n + 1 \in Nat /\ n + 1 \in 1..(n + 1) /\ (n + 1) - 1 = n /\ n <= n + 1 /\ n <= n
    OBVIOUS
  <2>2. U(n + 1) \in Unrolled(S, first, step, n + 1) /\ U(n) \in Unrolled(S, first, step, n)
    BY <1>1, <2>1
  <2>3. U(n + 1)[n + 1] = step[U(n + 1)[n]]
    BY <2>1, <2>2 DEF Unrolled
  <2>4. U(n + 1)[n] = U(n)[n]
    BY <2>1, <2>2, UnrolledSame
  <2> QED
    BY <2>1, <2>3, <2>4
<1> QED
  BY <1>2, <1>3 DEF Iterated

-----------------------------------------------------------------------------
(* Sequences.                                                                *)

LEMMA SeqIs ==
  ASSUME NEW S, NEW s \in Seq(S)
  PROVE  /\ Len(s) \in Nat /\ DOMAIN s = 1..Len(s) /\ s \in [1..Len(s) -> S]
         /\ \A i \in 1..Len(s) : s[i] \in S /\ s[i] \in ToSet(s)
         /\ ToSet(s) \subseteq S
         /\ \A x : x \in ToSet(s) <=> \E i \in 1..Len(s) : s[i] = x
         /\ \A x : Contains(s, x) <=> x \in ToSet(s)
         /\ s = <<>> <=> Len(s) = 0
         /\ s = <<>> <=> ToSet(s) = {}
<1>1. Len(s) \in Nat /\ DOMAIN s = 1..Len(s) /\ s \in [1..Len(s) -> S]
  BY LenProperties
<1>2. s = <<>> <=> Len(s) = 0
  BY <1>1, EmptySeq
<1>3. \A x : x \in ToSet(s) <=> \E i \in 1..Len(s) : s[i] = x
  BY <1>1 DEF ToSet
<1>4. \A x : Contains(s, x) <=> x \in ToSet(s)
  BY <1>3 DEF Contains
<1>5. \A i \in 1..Len(s) : s[i] \in S /\ s[i] \in ToSet(s)
  BY <1>1, <1>3
<1>6. s # <<>> => 1 \in 1..Len(s)
  BY <1>1, <1>2
<1>7. s = <<>> <=> ToSet(s) = {}
  BY <1>1, <1>2, <1>3, <1>5, <1>6
<1> QED
  BY <1>1, <1>2, <1>3, <1>4, <1>5, <1>7

LEMMA ConsIs ==
  ASSUME NEW S, NEW x \in S, NEW s \in Seq(S)
  PROVE  /\ <<x>> \o s \in Seq(S)
         /\ Len(<<x>> \o s) = Len(s) + 1
         /\ (<<x>> \o s)[1] = x
         /\ \A i \in 1..Len(s) : (<<x>> \o s)[i + 1] = s[i]
         /\ \A i \in 2..(Len(s) + 1) : (<<x>> \o s)[i] = s[i - 1]
         /\ ToSet(<<x>> \o s) = {x} \cup ToSet(s)
<1> DEFINE q == <<x>> \o s
<1>1. Len(s) \in Nat
  BY SeqIs
<1>2. <<x>> \in Seq(S) /\ Len(<<x>>) = 1 /\ <<x>>[1] = x
  OBVIOUS
<1>3. /\ q \in Seq(S) /\ Len(q) = Len(<<x>>) + Len(s)
      /\ \A i \in 1..(Len(<<x>>) + Len(s)) : q[i] = IF i <= Len(<<x>>) THEN <<x>>[i] ELSE s[i - Len(<<x>>)]
  BY <1>2, ConcatProperties
<1> HIDE DEF q
<1>4. /\ q \in Seq(S) /\ Len(q) = Len(s) + 1 /\ q[1] = x
      /\ \A i \in 2..(Len(s) + 1) : q[i] = s[i - 1]
  BY <1>1, <1>2, <1>3
<1>5. \A i \in 1..Len(s) : q[i + 1] = s[i]
  <2> SUFFICES ASSUME NEW i \in 1..Len(s) PROVE q[i + 1] = s[i]
    OBVIOUS
  <2>1. i + 1 \in 2..(Len(s) + 1) /\ (i + 1) - 1 = i
    BY <1>1
  <2> QED
    BY <1>4, <2>1
<1>6. ToSet(q) = {x} \cup ToSet(s)
  <2>1. ASSUME NEW y \in ToSet(q) PROVE y \in {x} \cup ToSet(s)
    <3>1. PICK i \in 1..(Len(s) + 1) : q[i] = y
      BY <1>4, <2>1, SeqIs
    <3>2. CASE i = 1
      BY <1>4, <3>1, <3>2
    <3>3. CASE i # 1
      <4>1. i \in 2..(Len(s) + 1) /\ i - 1 \in 1..Len(s)
        BY <1>1, <3>3
      <4>2. PICK k : k = i - 1
        OBVIOUS
      <4>3. q[i] = s[k] /\ k \in 1..Len(s)
        BY <1>4, <4>1, <4>2
      <4>4. s[k] \in ToSet(s)
        BY <4>3, SeqIs
      <4> QED
        BY <3>1, <4>3, <4>4
    <3> QED
      BY <3>2, <3>3
  <2>2. 1 \in 1..Len(q) /\ \A i \in 1..Len(s) : i + 1 \in 1..Len(q)
    BY <1>1, <1>4
  <2>3. ASSUME NEW y \in {x} \cup ToSet(s) PROVE y \in ToSet(q)
    <3>1. CASE y = x
      BY <1>4, <2>2, <3>1, SeqIs
    <3>2. CASE y \in ToSet(s)
      <4>1. PICK i \in 1..Len(s) : s[i] = y
        BY <3>2, SeqIs
      <4> QED
        BY <1>4, <1>5, <2>2, <4>1, SeqIs
    <3> QED
      BY <2>3, <3>1, <3>2
  <2> QED
    BY <2>1, <2>3
<1> QED
  BY <1>4, <1>5, <1>6 DEF q

(* What a walk by `to' gives, from the places themselves.                    *)
LEMMA ChainRule ==
  ASSUME NEW to \in [Nodes -> Values]
  PROVE  \E From \in [Nat \X Values -> Seq(Nodes)] :
            /\ \A n \in Values : Chain(to, n) = From[<<Cardinality(Nodes), n>>]
            /\ \A i \in Nat, n \in Values : From[<<i, n>>] \in Seq(Nodes)
            /\ \A n \in Values : From[<<0, n>>] = <<>>
            /\ \A i \in Nat : From[<<i, None>>] = <<>>
            /\ \A i \in Nat, n \in Nodes : From[<<i + 1, n>>] = <<n>> \o From[<<i, to[n]>>]
<1> DEFINE S == [Values -> Seq(Nodes)]
           first == [m \in Values |-> <<>>]
           step == [f \in S |-> [m \in Values |-> IF m = None THEN <<>> ELSE <<m>> \o f[to[m]]]]
<1>0. Cardinality(Nodes) \in Nat
  BY DocumentTreeAssumption, FS_CardinalityType
<1>1. first \in S
  OBVIOUS
<1>2. step \in [S -> S]
  <2> SUFFICES ASSUME NEW f \in S, NEW m \in Values \ {None}
               PROVE  <<m>> \o f[to[m]] \in Seq(Nodes)
    OBVIOUS
  <2>1. m \in Nodes /\ f[to[m]] \in Seq(Nodes)
    BY DEF Values
  <2> QED
    BY <2>1, ConsIs
<1>3. PICK F \in [Nat -> S] : F[0] = first /\ \A i \in Nat : F[i + 1] = step[F[i]]
  <2>1. PICK A, z, on : A = S /\ z = first /\ on = step
    OBVIOUS
  <2>2. z \in A /\ on \in [A -> A]
    BY <1>1, <1>2, <2>1
  <2> HIDE DEF S, first, step
  <2>3. \E f : f \in Iterated(A, z, on)
    BY <2>2, RecursionExists
  <2> QED
    BY <2>1, <2>3 DEF Iterated
<1> DEFINE G == [w \in Nat \X Values |-> F[w[1]][w[2]]]
<1>4. ASSUME NEW i \in Nat, NEW m \in Values
      PROVE  G[<<i, m>>] = IF i = 0 \/ m = None THEN <<>> ELSE <<m>> \o G[<<i - 1, to[m]>>]
  <2>1. G[<<i, m>>] = F[i][m]
    OBVIOUS
  <2>2. CASE i = 0
    BY <1>3, <2>1, <2>2
  <2>3. CASE i # 0
    <3>1. i - 1 \in Nat /\ (i - 1) + 1 = i
      BY <2>3
    <3>2. F[i] = step[F[i - 1]] /\ F[i - 1] \in S
      BY <1>3, <3>1
    <3>3. F[i][m] = IF m = None THEN <<>> ELSE <<m>> \o F[i - 1][to[m]]
      BY <3>2
    <3>4. m # None => to[m] \in Values /\ G[<<i - 1, to[m]>>] = F[i - 1][to[m]]
      BY <3>1 DEF Values
    <3> QED
      BY <2>1, <2>3, <3>3, <3>4
  <2> QED
    BY <2>2, <2>3
<1>5. G = [w \in Nat \X Values |->
             IF w[1] = 0 \/ w[2] = None THEN <<>> ELSE <<w[2]>> \o G[<<w[1] - 1, to[w[2]]>>]]
  <2> DEFINE H == [w \in Nat \X Values |->
             IF w[1] = 0 \/ w[2] = None THEN <<>> ELSE <<w[2]>> \o G[<<w[1] - 1, to[w[2]]>>]]
  <2>1. ASSUME NEW w \in Nat \X Values PROVE G[w] = H[w]
    <3>1. PICK i \in Nat, m \in Values : w = <<i, m>>
      OBVIOUS
    <3>2. H[w] = IF i = 0 \/ m = None THEN <<>> ELSE <<m>> \o G[<<i - 1, to[m]>>]
      <4>1. w[1] = i /\ w[2] = m
        BY <3>1
      <4>2. H[w] = IF w[1] = 0 \/ w[2] = None THEN <<>> ELSE <<w[2]>> \o G[<<w[1] - 1, to[w[2]]>>]
        OBVIOUS
      <4> HIDE DEF G, H
      <4> QED
        BY <4>1, <4>2
    <3> HIDE DEF G, H
    <3> QED
      BY <1>4, <3>1, <3>2
  <2>2. DOMAIN G = Nat \X Values /\ DOMAIN H = Nat \X Values
    OBVIOUS
  <2>3. G = [w \in Nat \X Values |-> G[w]] /\ H = [w \in Nat \X Values |-> H[w]]
    OBVIOUS
  <2> HIDE DEF G, H
  <2>4. G = H
    BY <2>1, <2>3
  <2> QED
    BY <2>4 DEF H
<1> DEFINE From == CHOOSE g : g = [w \in Nat \X Values |->
             IF w[1] = 0 \/ w[2] = None THEN <<>> ELSE <<w[2]>> \o g[<<w[1] - 1, to[w[2]]>>]]
<1>6. From = [w \in Nat \X Values |->
             IF w[1] = 0 \/ w[2] = None THEN <<>> ELSE <<w[2]>> \o From[<<w[1] - 1, to[w[2]]>>]]
  <2>1. \E g : g = [w \in Nat \X Values |->
             IF w[1] = 0 \/ w[2] = None THEN <<>> ELSE <<w[2]>> \o g[<<w[1] - 1, to[w[2]]>>]]
    <3> HIDE DEF G
    <3> QED
      BY <1>5
  <2> QED
    BY <2>1, Zenon
<1>7. \A n : Chain(to, n) = From[<<Cardinality(Nodes), n>>]
  BY Zenon DEF Chain
<1> HIDE DEF From, G, S
<1>8. ASSUME NEW i \in Nat, NEW m \in Values
      PROVE  From[<<i, m>>] = IF i = 0 \/ m = None THEN <<>> ELSE <<m>> \o From[<<i - 1, to[m]>>]
  BY <1>6
<1>9. \A n \in Values : From[<<0, n>>] = <<>>
  BY <1>8
<1>10. \A i \in Nat : From[<<i, None>>] = <<>>
  BY <1>8 DEF Values
<1>11. \A i \in Nat, n \in Nodes : From[<<i + 1, n>>] = <<n>> \o From[<<i, to[n]>>]
  <2> SUFFICES ASSUME NEW i \in Nat, NEW n \in Nodes
               PROVE  From[<<i + 1, n>>] = <<n>> \o From[<<i, to[n]>>]
    OBVIOUS
  <2>1. i + 1 \in Nat /\ i + 1 # 0 /\ (i + 1) - 1 = i /\ n \in Values /\ n # None
    BY DocumentTreeAssumption DEF Values
  <2> QED
    BY <1>8, <2>1
<1>12. \A i \in Nat, n \in Values : From[<<i, n>>] \in Seq(Nodes)
  <2> DEFINE T == {i \in Nat : \A n \in Values : From[<<i, n>>] \in Seq(Nodes)}
  <2>1. 0 \in T
    <3> SUFFICES ASSUME NEW n \in Values PROVE From[<<0, n>>] \in Seq(Nodes)
      OBVIOUS
    <3>1. From[<<0, n>>] = <<>>
      BY <1>9
    <3> QED
      BY <3>1
  <2>2. ASSUME NEW i \in Nat, i \in T PROVE i + 1 \in T
    <3> SUFFICES ASSUME NEW n \in Values PROVE From[<<i + 1, n>>] \in Seq(Nodes)
      OBVIOUS
    <3>1. CASE n = None
      <4>1. From[<<i + 1, n>>] = <<>>
        BY <1>10, <3>1
      <4> QED
        BY <4>1
    <3>2. CASE n # None
      <4>1. n \in Nodes /\ to[n] \in Values
        BY <3>2 DEF Values
      <4>2. From[<<i + 1, n>>] = <<n>> \o From[<<i, to[n]>>] /\ From[<<i, to[n]>>] \in Seq(Nodes)
        BY <1>11, <2>2, <4>1
      <4> QED
        BY <4>1, <4>2, ConsIs
    <3> QED
      BY <3>1, <3>2
  <2> HIDE DEF T
  <2>3. Nat \subseteq T
    BY <2>1, <2>2, Induction
  <2> QED
    BY <2>3 DEF T
<1>13. From \in [Nat \X Values -> Seq(Nodes)]
  <2>1. ASSUME NEW w \in Nat \X Values PROVE From[w] \in Seq(Nodes)
    <3>1. PICK i \in Nat, m \in Values : w = <<i, m>>
      OBVIOUS
    <3> QED
      BY <1>12, <3>1
  <2>2. \E f : From = [w \in Nat \X Values |-> f[w]]
    BY <1>6
  <2> QED
    BY <2>1, <2>2
<1> QED
  BY <1>7, <1>9, <1>10, <1>11, <1>12, <1>13

(* A walk that is shorter than it may be has come to its end.                *)
LEMMA ChainSound ==
  ASSUME NEW to \in [Nodes -> Values], NEW n \in Values
  PROVE  LET q == Chain(to, n) IN
         /\ q \in Seq(Nodes) /\ Len(q) <= Cardinality(Nodes)
         /\ n = None => q = <<>>
         /\ n # None => q # <<>> /\ q[1] = n
         /\ \A j \in 1..(Len(q) - 1) : q[j + 1] = to[q[j]]
         /\ q # <<>> /\ Len(q) < Cardinality(Nodes) => to[q[Len(q)]] = None
<1>0. Cardinality(Nodes) \in Nat /\ Cardinality(Nodes) # 0
  BY DocumentTreeAssumption, FS_CardinalityType, FS_EmptySet
<1>1. PICK From \in [Nat \X Values -> Seq(Nodes)] :
            /\ \A m \in Values : Chain(to, m) = From[<<Cardinality(Nodes), m>>]
            /\ \A i \in Nat, m \in Values : From[<<i, m>>] \in Seq(Nodes)
            /\ \A m \in Values : From[<<0, m>>] = <<>>
            /\ \A i \in Nat : From[<<i, None>>] = <<>>
            /\ \A i \in Nat, m \in Nodes : From[<<i + 1, m>>] = <<m>> \o From[<<i, to[m]>>]
  BY ChainRule
<1> DEFINE Walk(q, i, m) ==
             /\ q \in Seq(Nodes) /\ Len(q) <= i
             /\ m = None => q = <<>>
             /\ m # None /\ i # 0 => q # <<>> /\ q[1] = m
             /\ \A j \in 1..(Len(q) - 1) : q[j + 1] = to[q[j]]
             /\ q # <<>> /\ Len(q) < i => to[q[Len(q)]] = None
           T == {i \in Nat : \A m \in Values : Walk(From[<<i, m>>], i, m)}
<1>2. 0 \in T
  <2> SUFFICES ASSUME NEW m \in Values PROVE Walk(From[<<0, m>>], 0, m)
    OBVIOUS
  <2>1. From[<<0, m>>] = <<>> /\ <<>> \in Seq(Nodes) /\ Len(<<>>) = 0
    BY <1>1
  <2> QED
    BY <2>1
<1>3. ASSUME NEW i \in Nat, i \in T PROVE i + 1 \in T
  <2> SUFFICES ASSUME NEW m \in Values PROVE Walk(From[<<i + 1, m>>], i + 1, m)
    OBVIOUS
  <2>1. CASE m = None
    <3>1. From[<<i + 1, m>>] = <<>> /\ <<>> \in Seq(Nodes) /\ Len(<<>>) = 0
      BY <1>1, <2>1
    <3> QED
      BY <2>1, <3>1
  <2>2. CASE m # None
    <3>1. m \in Nodes /\ to[m] \in Values
      BY <2>2 DEF Values
    <3>2. PICK r : r = From[<<i, to[m]>>]
      OBVIOUS
    <3>3. From[<<i + 1, m>>] = <<m>> \o r /\ Walk(r, i, to[m])
      BY <1>1, <1>3, <3>1, <3>2
    <3>4. PICK q : q = <<m>> \o r
      OBVIOUS
    <3>5. /\ q \in Seq(Nodes) /\ Len(q) = Len(r) + 1 /\ q[1] = m
          /\ \A j \in 2..(Len(r) + 1) : q[j] = r[j - 1]
          /\ Len(r) \in Nat /\ (r = <<>> <=> Len(r) = 0)
          /\ (q = <<>> <=> Len(q) = 0)
      BY <3>1, <3>3, <3>4, ConsIs, SeqIs
    <3>6. ASSUME NEW j \in 1..(Len(q) - 1) PROVE q[j + 1] = to[q[j]]
      <4>1. j \in 1..Len(r) /\ j + 1 \in 2..(Len(r) + 1) /\ (j + 1) - 1 = j
        BY <3>5
      <4>2. q[j + 1] = r[j]
        BY <3>5, <4>1
      <4>3. CASE j = 1
        <5>1. to[m] # None /\ i # 0
          BY <3>3, <3>5, <4>1
        <5>2. r[1] = to[m]
          BY <3>3, <5>1
        <5> QED
          BY <3>5, <4>2, <4>3, <5>2
      <4>4. CASE j # 1
        <5>1. j \in 2..(Len(r) + 1) /\ j - 1 \in 1..(Len(r) - 1) /\ (j - 1) + 1 = j
          BY <4>1, <4>4
        <5>2. q[j] = r[j - 1] /\ r[(j - 1) + 1] = to[r[j - 1]]
          BY <3>3, <3>5, <5>1
        <5> QED
          BY <4>2, <5>1, <5>2
      <4> QED
        BY <4>3, <4>4
    <3>7. ASSUME Len(q) < i + 1 PROVE to[q[Len(q)]] = None
      <4>1. CASE r = <<>>
        <5>1. Len(q) = 1 /\ i # 0
          BY <3>5, <3>7, <4>1
        <5>2. to[m] = None
          BY <3>3, <4>1, <5>1
        <5> QED
          BY <3>5, <5>1, <5>2
      <4>2. CASE r # <<>>
        <5>1. Len(r) < i /\ Len(q) \in 2..(Len(r) + 1) /\ Len(q) - 1 = Len(r)
          BY <3>5, <3>7, <4>2
        <5>2. to[r[Len(r)]] = None /\ q[Len(q)] = r[Len(r)]
          BY <3>3, <3>5, <4>2, <5>1
        <5> QED
          BY <5>2
      <4> QED
        BY <4>1, <4>2
    <3>8. Len(q) <= i + 1 /\ q # <<>>
      BY <3>3, <3>5
    <3>9. Walk(q, i + 1, m)
      BY <2>2, <3>5, <3>6, <3>7, <3>8
    <3> QED
      BY <3>3, <3>4, <3>9
  <2> QED
    BY <2>1, <2>2
<1> HIDE DEF T
<1>4. Nat \subseteq T
  BY <1>2, <1>3, Induction
<1>5. Walk(From[<<Cardinality(Nodes), n>>], Cardinality(Nodes), n)
  BY <1>0, <1>4 DEF T
<1>6. Chain(to, n) = From[<<Cardinality(Nodes), n>>]
  BY <1>1
<1> QED
  BY <1>0, <1>5, <1>6

(* q is the way by `to' from n, through all that is above n.                 *)
Way(q, to, D, above, n) ==
  /\ q \in Seq(D) /\ q # <<>> /\ q[1] = n /\ ToSet(q) = {n} \cup above[n]
  /\ \A i, j \in 1..Len(q) : i < j => q[j] \in above[q[i]]
  /\ \A j \in 1..(Len(q) - 1) : q[j + 1] = to[q[j]]
  /\ to[q[Len(q)]] = None

(* Nothing is above itself, and what is above n is the next and what is      *)
(* above that.                                                               *)
Climbs(to, D, above) ==
  /\ above \in [D -> SUBSET D]
  /\ \A n \in D : /\ n \notin above[n]
                  /\ to[n] = None => above[n] = {}
                  /\ to[n] # None => to[n] \in D /\ above[n] = {to[n]} \cup above[to[n]]

LEMMA ClimbsDown ==
  ASSUME NEW to, NEW D, NEW above, Climbs(to, D, above), NEW n \in D, NEW m \in above[n]
  PROVE  to[n] # None /\ (m = to[n] \/ m \in above[to[n]])
  BY DEF Climbs

LEMMA ChainIs ==
  ASSUME NEW to \in [Nodes -> Values], NEW D, D \subseteq Nodes,
         NEW above, Climbs(to, D, above), NEW n \in D
  PROVE  Way(Chain(to, n), to, D, above, n)
<1>0. Cardinality(Nodes) \in Nat
  BY DocumentTreeAssumption, FS_CardinalityType
<1>1. PICK From \in [Nat \X Values -> Seq(Nodes)] :
            /\ \A m \in Values : Chain(to, m) = From[<<Cardinality(Nodes), m>>]
            /\ \A i \in Nat, m \in Values : From[<<i, m>>] \in Seq(Nodes)
            /\ \A m \in Values : From[<<0, m>>] = <<>>
            /\ \A i \in Nat : From[<<i, None>>] = <<>>
            /\ \A i \in Nat, m \in Nodes : From[<<i + 1, m>>] = <<m>> \o From[<<i, to[m]>>]
  BY ChainRule
<1>2. \A m \in D : IsFiniteSet(above[m]) /\ Cardinality(above[m]) \in Nat
  <2> SUFFICES ASSUME NEW m \in D PROVE IsFiniteSet(above[m]) /\ Cardinality(above[m]) \in Nat
    OBVIOUS
  <2>1. above[m] \subseteq Nodes
    BY DEF Climbs
  <2>2. IsFiniteSet(above[m])
    BY <2>1, DocumentTreeAssumption, FS_Subset
  <2> QED
    BY <2>2, FS_CardinalityType
<1> DEFINE T == {i \in Nat : \A m \in D : Cardinality(above[m]) < i => Way(From[<<i, m>>], to, D, above, m)}
<1>3. 0 \in T
  BY <1>2
<1>4. ASSUME NEW i \in Nat, i \in T PROVE i + 1 \in T
  <2> SUFFICES ASSUME NEW m \in D, Cardinality(above[m]) < i + 1
               PROVE  Way(From[<<i + 1, m>>], to, D, above, m)
    OBVIOUS
  <2>0. m \in Nodes /\ From[<<i + 1, m>>] = <<m>> \o From[<<i, to[m]>>]
    BY <1>1
  <2>1. CASE to[m] = None
    <3>1. From[<<i + 1, m>>] = <<m>> \o <<>>
      BY <1>1, <2>0, <2>1
    <3>2. <<m>> \o <<>> = <<m>>
      BY <2>0, ConcatEmptySeq
    <3>3. PICK q : q = <<m>>
      OBVIOUS
    <3>4. q \in Seq(D) /\ q # <<>> /\ Len(q) = 1 /\ q[1] = m /\ ToSet(q) = {m}
      BY <3>3 DEF ToSet
    <3>5. above[m] = {}
      BY <2>1 DEF Climbs
    <3>6. \A k, j \in 1..Len(q) : ~(k < j)
      BY <3>4
    <3>7. Way(q, to, D, above, m)
      BY <2>1, <3>4, <3>5, <3>6 DEF Way
    <3> QED
      BY <3>1, <3>2, <3>3, <3>7
  <2>2. CASE to[m] # None
    <3>1. /\ to[m] \in D /\ above[m] = {to[m]} \cup above[to[m]] /\ m \notin above[m]
          /\ to[m] \notin above[to[m]] /\ above[to[m]] \subseteq D
      BY <2>2 DEF Climbs
    <3>2. Cardinality(above[m]) = Cardinality(above[to[m]]) + 1
      <4>1. above[to[m]] \cup {to[m]} = above[m]
        BY <3>1
      <4>2. Cardinality(above[to[m]] \cup {to[m]}) = Cardinality(above[to[m]]) + 1
        BY <1>2, <3>1, FS_AddElement
      <4> QED
        BY <4>1, <4>2
    <3>3. PICK k : k = to[m]
      OBVIOUS
    <3>4. PICK r : r = From[<<i, k>>]
      OBVIOUS
    <3>5. Way(r, to, D, above, k)
      BY <1>2, <1>4, <3>1, <3>2, <3>3, <3>4
    <3>6. PICK q : q = <<m>> \o r
      OBVIOUS
    <3>7. r \in Seq(D) /\ r # <<>> /\ r[1] = k /\ ToSet(r) = {k} \cup above[k]
      BY <3>5 DEF Way
    <3>8. /\ q \in Seq(D) /\ Len(q) = Len(r) + 1 /\ q[1] = m
          /\ \A j \in 2..(Len(r) + 1) : q[j] = r[j - 1]
          /\ ToSet(q) = {m} \cup ToSet(r)
      BY <3>6, <3>7, ConsIs
    <3>9. /\ Len(r) \in Nat /\ Len(r) # 0 /\ \A j \in 1..Len(r) : r[j] \in ToSet(r)
      BY <3>7, SeqIs
    <3>10. q # <<>>
      BY <3>8, <3>9, SeqIs
    <3>11. ToSet(q) = {m} \cup above[m]
      BY <3>1, <3>3, <3>7, <3>8
    <3>12. ASSUME NEW a \in 1..Len(q), NEW b \in 1..Len(q), a < b PROVE q[b] \in above[q[a]]
      <4>1. b \in 2..(Len(r) + 1) /\ b - 1 \in 1..Len(r) /\ q[b] = r[b - 1]
        BY <3>8, <3>9, <3>12
      <4>2. CASE a = 1
        BY <3>1, <3>3, <3>7, <3>8, <3>9, <4>1, <4>2
      <4>3. CASE a # 1
        <5>1. a \in 2..(Len(r) + 1) /\ a - 1 \in 1..Len(r) /\ a - 1 < b - 1
          BY <3>8, <3>9, <3>12, <4>3
        <5>2. q[a] = r[a - 1]
          BY <3>8, <5>1
        <5> QED
          BY <3>5, <4>1, <5>1, <5>2 DEF Way
      <4> QED
        BY <4>2, <4>3
    <3>13. ASSUME NEW j \in 1..(Len(q) - 1) PROVE q[j + 1] = to[q[j]]
      <4>1. j \in 1..Len(r) /\ j + 1 \in 2..(Len(r) + 1) /\ (j + 1) - 1 = j
        BY <3>8, <3>9
      <4>2. q[j + 1] = r[j]
        BY <3>8, <4>1
      <4>3. CASE j = 1
        BY <3>3, <3>7, <3>8, <4>2, <4>3
      <4>4. CASE j # 1
        <5>1. j \in 2..(Len(r) + 1) /\ j - 1 \in 1..(Len(r) - 1) /\ (j - 1) + 1 = j
          BY <4>1, <4>4
        <5>2. q[j] = r[j - 1]
          BY <3>8, <5>1
        <5>3. r[(j - 1) + 1] = to[r[j - 1]]
          BY <3>5, <5>1 DEF Way
        <5> QED
          BY <4>2, <5>1, <5>2, <5>3
      <4> QED
        BY <4>3, <4>4
    <3>14. to[q[Len(q)]] = None
      <4>1. Len(q) \in 2..(Len(r) + 1) /\ Len(q) - 1 = Len(r)
        BY <3>8, <3>9
      <4>2. q[Len(q)] = r[Len(r)]
        BY <3>8, <4>1
      <4>3. to[r[Len(r)]] = None
        BY <3>5 DEF Way
      <4> QED
        BY <4>2, <4>3
    <3>15. Way(q, to, D, above, m)
      BY <3>8, <3>10, <3>11, <3>12, <3>13, <3>14 DEF Way
    <3> QED
      BY <2>0, <3>3, <3>4, <3>6, <3>15
  <2> QED
    BY <2>1, <2>2
<1> HIDE DEF T
<1>5. Nat \subseteq T
  BY <1>3, <1>4, Induction
<1>6. Cardinality(above[n]) < Cardinality(Nodes)
  <2>1. above[n] \subseteq Nodes /\ n \notin above[n] /\ n \in Nodes
    BY DEF Climbs
  <2>2. Cardinality(above[n]) <= Cardinality(Nodes)
    BY <2>1, DocumentTreeAssumption, FS_Subset
  <2>3. Cardinality(above[n]) # Cardinality(Nodes)
    BY <2>1, DocumentTreeAssumption, FS_Subset
  <2> QED
    BY <1>0, <1>2, <2>2, <2>3
<1>7. Way(From[<<Cardinality(Nodes), n>>], to, D, above, n)
  BY <1>0, <1>5, <1>6 DEF T
<1>8. Chain(to, n) = From[<<Cardinality(Nodes), n>>]
  BY <1>1 DEF Values
<1> QED
  BY <1>7, <1>8

-----------------------------------------------------------------------------
(* A forest: the nodes S with the tops T, K of them below another one.       *)
(* later[k] are the siblings of k that come after it.                        *)

Typed(t) == {t.parent, t.prev, t.next, t.first, t.last} \subseteq [Nodes -> Values]

Siblings(t, K, later) ==
  /\ later \in [K -> SUBSET K]
  /\ \A a \in K : a \notin later[a]
  /\ \A a \in K : \A b \in later[a] :
        t.parent[b] = t.parent[a] /\ a \notin later[b] /\ later[b] \subseteq later[a]
  /\ \A a, b \in K : t.parent[a] = t.parent[b] /\ a # b => b \in later[a] \/ a \in later[b]

LinkedOn(t, K, later) ==
  \A a \in K :
    /\ t.next[a] = None => later[a] = {}
    /\ t.next[a] # None =>
         t.next[a] \in later[a] /\ \A b \in later[a] : b = t.next[a] \/ b \in later[t.next[a]]

LinkedBack(t, K, later) ==
  \A a \in K :
    /\ t.prev[a] = None => \A b \in K : a \notin later[b]
    /\ t.prev[a] # None =>
         /\ t.prev[a] \in K /\ a \in later[t.prev[a]]
         /\ \A b \in K : a \in later[b] => b = t.prev[a] \/ t.prev[a] \in later[b]

Ends(t, S, K, later) ==
  \A n \in S :
    /\ t.first[n] = None => \A k \in K : t.parent[k] # n
    /\ t.first[n] # None =>
         /\ t.first[n] \in K /\ t.parent[t.first[n]] = n
         /\ \A k \in K : t.parent[k] = n => k = t.first[n] \/ k \in later[t.first[n]]
    /\ t.last[n] = None => \A k \in K : t.parent[k] # n
    /\ t.last[n] # None =>
         /\ t.last[n] \in K /\ t.parent[t.last[n]] = n
         /\ \A k \in K : t.parent[k] = n => k = t.last[n] \/ t.last[n] \in later[k]

(* No nodes are all below each other.                                        *)
Grounded(t, K) == \A A \in SUBSET K : (\A n \in A : t.parent[n] \in A) => A = {}

Forest(t, S, T, later) ==
  /\ Typed(t) /\ T \subseteq S /\ S \subseteq Nodes
  /\ \A k \in S \ T : t.parent[k] \in S
  /\ Siblings(t, S \ T, later)
  /\ LinkedOn(t, S \ T, later) /\ LinkedBack(t, S \ T, later)
  /\ Ends(t, S, S \ T, later)
  /\ Grounded(t, S \ T)

ChildrenIn(t, K, n) == {k \in K : t.parent[k] = n}

LEMMA NextClimbs ==
  ASSUME NEW t, NEW S, NEW T, NEW later, Forest(t, S, T, later)
  PROVE  Climbs(t.next, S \ T, later)
<1> DEFINE K == S \ T
<1>1. Siblings(t, K, later) /\ LinkedOn(t, K, later)
  BY DEF Forest
<1> HIDE DEF K
<1>2. ASSUME NEW n \in K, t.next[n] # None PROVE t.next[n] \in K /\ later[n] = {t.next[n]} \cup later[t.next[n]]
  BY <1>1, <1>2 DEF Siblings, LinkedOn
<1>3. Climbs(t.next, K, later)
  BY <1>1, <1>2 DEF Siblings, LinkedOn, Climbs
<1> QED
  BY <1>3 DEF K

Earlier(K, later) == [a \in K |-> {b \in K : a \in later[b]}]

LEMMA PrevClimbs ==
  ASSUME NEW t, NEW S, NEW T, NEW later, Forest(t, S, T, later)
  PROVE  Climbs(t.prev, S \ T, Earlier(S \ T, later))
<1> DEFINE K == S \ T
           early == [a \in K |-> {b \in K : a \in later[b]}]
<1>1. Siblings(t, K, later) /\ LinkedBack(t, K, later)
  BY DEF Forest
<1> HIDE DEF K
<1>2. early \in [K -> SUBSET K] /\ \A n \in K : n \notin early[n]
  BY <1>1 DEF Siblings
<1>3. ASSUME NEW n \in K, t.prev[n] # None PROVE t.prev[n] \in K /\ early[n] = {t.prev[n]} \cup early[t.prev[n]]
  <2>1. /\ t.prev[n] \in K /\ n \in later[t.prev[n]]
        /\ \A b \in K : n \in later[b] => b = t.prev[n] \/ t.prev[n] \in later[b]
    BY <1>1, <1>3 DEF LinkedBack
  <2>2. \A b \in K : t.prev[n] \in later[b] => n \in later[b]
    BY <1>1, <2>1 DEF Siblings
  <2> QED
    BY <2>1, <2>2
<1>4. \A n \in K : t.prev[n] = None => early[n] = {}
  BY <1>1 DEF LinkedBack
<1>5. Climbs(t.prev, K, early)
  <2> HIDE DEF early
  <2> QED
    BY <1>2, <1>3, <1>4 DEF Climbs
<1> QED
  BY <1>5 DEF K, Earlier

(* Two ways to put a set in order are the same.                              *)
InOrder(q, K, later, C) ==
  /\ q \in Seq(K) /\ ToSet(q) = C
  /\ \A i, j \in 1..Len(q) : i < j => q[j] \in later[q[i]]

LEMMA InOrderAgrees ==
  ASSUME NEW K, NEW later, NEW C, NEW q, NEW r, InOrder(q, K, later, C), InOrder(r, K, later, C),
         \A a \in K : a \notin later[a], \A a, b \in K : b \in later[a] => a \notin later[b]
  PROVE  \A n \in Nat : n <= Len(q) => n <= Len(r) /\ \A i \in 1..n : q[i] = r[i]
<1>1. /\ Len(q) \in Nat /\ Len(r) \in Nat
      /\ \A i \in 1..Len(q) : q[i] \in K /\ q[i] \in C
      /\ \A i \in 1..Len(r) : r[i] \in K /\ r[i] \in C
      /\ \A x \in C : \E i \in 1..Len(q) : q[i] = x
      /\ \A x \in C : \E i \in 1..Len(r) : r[i] = x
  BY SeqIs DEF InOrder
<1>2. /\ \A i, j \in 1..Len(q) : i < j => q[j] \in later[q[i]]
      /\ \A i, j \in 1..Len(r) : i < j => r[j] \in later[r[i]]
  BY DEF InOrder
<1> DEFINE T == {n \in Nat : n <= Len(q) => n <= Len(r) /\ \A i \in 1..n : q[i] = r[i]}
<1>3. 0 \in T
  BY <1>1
<1>4. ASSUME NEW n \in Nat, n \in T PROVE n + 1 \in T
  <2> SUFFICES ASSUME n + 1 <= Len(q)
               PROVE  n + 1 <= Len(r) /\ \A i \in 1..(n + 1) : q[i] = r[i]
    OBVIOUS
  <2>1. n <= Len(r) /\ \A i \in 1..n : q[i] = r[i]
    BY <1>1, <1>4
  <2>2. n + 1 \in 1..Len(q)
    BY <1>1
  <2>3. PICK j \in 1..Len(r) : r[j] = q[n + 1]
    BY <1>1, <2>2
  <2>4. j > n
    <3> SUFFICES ASSUME j \in 1..n PROVE FALSE
      BY <1>1
    <3>1. q[j] = q[n + 1] /\ j \in 1..Len(q) /\ j < n + 1
      BY <1>1, <2>1, <2>3
    <3>2. q[n + 1] \in later[q[j]]
      BY <1>2, <2>2, <3>1
    <3> QED
      BY <1>1, <2>2, <3>1, <3>2
  <2>5. n + 1 \in 1..Len(r)
    BY <1>1, <2>4
  <2>6. PICK m \in 1..Len(q) : q[m] = r[n + 1]
    BY <1>1, <2>5
  <2>7. m > n
    <3> SUFFICES ASSUME m \in 1..n PROVE FALSE
      BY <1>1
    <3>1. r[m] = r[n + 1] /\ m \in 1..Len(r) /\ m < n + 1
      BY <1>1, <2>1, <2>5, <2>6
    <3>2. r[n + 1] \in later[r[m]]
      BY <1>2, <2>5, <3>1
    <3> QED
      BY <1>1, <2>5, <3>1, <3>2
  <2>8. q[n + 1] = r[n + 1]
    <3>1. CASE m = n + 1
      BY <2>6, <3>1
    <3>2. CASE j = n + 1
      BY <2>3, <3>2
    <3>3. CASE m > n + 1 /\ j > n + 1
      <4>1. q[m] \in later[q[n + 1]] /\ r[j] \in later[r[n + 1]]
        BY <1>2, <2>2, <2>5, <3>3
      <4>2. r[n + 1] \in later[q[n + 1]] /\ q[n + 1] \in later[r[n + 1]]
        BY <2>3, <2>6, <4>1
      <4> QED
        BY <1>1, <2>2, <2>5, <4>2
    <3> QED
      BY <2>4, <2>7, <3>1, <3>2, <3>3
  <2>9. ASSUME NEW i \in 1..(n + 1) PROVE q[i] = r[i]
    <3>1. i \in 1..n \/ i = n + 1
      OBVIOUS
    <3> QED
      BY <2>1, <2>8, <3>1
  <2> QED
    BY <1>1, <2>5, <2>9
<1> HIDE DEF T
<1>5. Nat \subseteq T
  BY <1>3, <1>4, Induction
<1> QED
  BY <1>5 DEF T

LEMMA InOrderSame ==
  ASSUME NEW K, NEW later, NEW C, NEW q, NEW r, InOrder(q, K, later, C), InOrder(r, K, later, C),
         \A a \in K : a \notin later[a], \A a, b \in K : b \in later[a] => a \notin later[b]
  PROVE  q = r
<1>1. Len(q) \in Nat /\ Len(r) \in Nat /\ q \in Seq(K) /\ r \in Seq(K)
  BY SeqIs DEF InOrder
<1>2. \A n \in Nat : n <= Len(q) => n <= Len(r) /\ \A i \in 1..n : q[i] = r[i]
  BY InOrderAgrees
<1>3. \A n \in Nat : n <= Len(r) => n <= Len(q) /\ \A i \in 1..n : r[i] = q[i]
  BY InOrderAgrees
<1>4. Len(q) <= Len(r) /\ Len(r) <= Len(q)
  BY <1>1, <1>2, <1>3
<1>5. Len(q) = Len(r) /\ \A i \in 1..Len(q) : q[i] = r[i]
  BY <1>1, <1>2, <1>4
<1> QED
  BY <1>1, <1>5, SeqEqual

LEMMA ReverseIs ==
  ASSUME NEW S, NEW s \in Seq(S)
  PROVE  /\ Reverse(s) \in Seq(S) /\ Len(Reverse(s)) = Len(s)
         /\ \A i \in 1..Len(s) : Len(s) - i + 1 \in 1..Len(s) /\ Reverse(s)[i] = s[Len(s) - i + 1]
         /\ ToSet(Reverse(s)) = ToSet(s)
<1>1. Len(s) \in Nat /\ \A i \in 1..Len(s) : s[i] \in S
  BY SeqIs
<1>2. \A i \in 1..Len(s) : Len(s) - i + 1 \in 1..Len(s)
  BY <1>1
<1>3. Reverse(s) = [i \in 1..Len(s) |-> s[(Len(s) - i) + 1]]
  BY DEF Reverse
<1>4. Reverse(s) \in [1..Len(s) -> S]
  BY <1>1, <1>2, <1>3
<1>5. Reverse(s) \in Seq(S)
  BY <1>1, <1>4, SeqDef
<1>6. Len(Reverse(s)) = Len(s)
  <2>1. DOMAIN Reverse(s) = 1..Len(s) /\ DOMAIN Reverse(s) = 1..Len(Reverse(s)) /\ Len(Reverse(s)) \in Nat
    BY <1>3, <1>5, SeqIs
  <2> QED
    BY <1>1, <2>1
<1>7. \A i \in 1..Len(s) : Reverse(s)[i] = s[Len(s) - i + 1]
  BY <1>3
<1>8. ToSet(Reverse(s)) = ToSet(s)
  <2>1. \A x : x \in ToSet(Reverse(s)) <=> \E i \in 1..Len(s) : Reverse(s)[i] = x
    BY <1>5, <1>6, SeqIs
  <2>2. \A x : x \in ToSet(s) <=> \E i \in 1..Len(s) : s[i] = x
    BY SeqIs
  <2>3. ASSUME NEW i \in 1..Len(s) PROVE Reverse(s)[Len(s) - i + 1] = s[i]
    <3>1. Len(s) - (Len(s) - i + 1) + 1 = i
      BY <1>1
    <3> QED
      BY <1>2, <1>7, <3>1
  <2> QED
    BY <1>2, <1>7, <2>1, <2>2, <2>3
<1> QED
  BY <1>2, <1>5, <1>6, <1>7, <1>8

(* The children of a node, from the first on and back from the last.         *)
LEMMA KidsInOrder ==
  ASSUME NEW t, NEW S, NEW T, NEW later, Forest(t, S, T, later), NEW n \in S
  PROVE  InOrder(Kids(t, n), S \ T, later, ChildrenIn(t, S \ T, n))
<1> DEFINE K == S \ T
           C == ChildrenIn(t, K, n)
           q == Kids(t, n)
<1>0. /\ t.next \in [Nodes -> Values] /\ t.first[n] \in Values /\ n \in Nodes /\ K \subseteq Nodes
  BY DEF Forest, Typed
<1>1. Ends(t, S, K, later) /\ Siblings(t, K, later)
  BY DEF Forest
<1>2. CASE t.first[n] = None
  <2>1. q = <<>>
    BY <1>0, <1>2, ChainSound DEF Kids
  <2>2. C = {}
    BY <1>1, <1>2 DEF Ends, ChildrenIn
  <2>3. q \in Seq(K) /\ Len(q) = 0 /\ ToSet(q) = {}
    BY <2>1 DEF ToSet
  <2> HIDE DEF C, q, K
  <2>4. InOrder(q, K, later, C)
    BY <2>2, <2>3 DEF InOrder
  <2> QED
    BY <2>4 DEF C, q, K
<1>3. CASE t.first[n] # None
  <2>1. /\ t.first[n] \in K /\ t.parent[t.first[n]] = n
        /\ \A k \in K : t.parent[k] = n => k = t.first[n] \/ k \in later[t.first[n]]
    BY <1>1, <1>3 DEF Ends
  <2>2. Way(q, t.next, K, later, t.first[n])
    BY <1>0, <2>1, NextClimbs, ChainIs DEF Kids
  <2>3. C = {t.first[n]} \cup later[t.first[n]]
    BY <1>1, <2>1 DEF Siblings, ChildrenIn
  <2> QED
    BY <2>2, <2>3 DEF Way, InOrder
<1> QED
  BY <1>2, <1>3

LEMMA BackwardsInOrder ==
  ASSUME NEW t, NEW S, NEW T, NEW later, Forest(t, S, T, later), NEW n \in S
  PROVE  InOrder(Backwards(t, n), S \ T, later, ChildrenIn(t, S \ T, n))
<1> DEFINE K == S \ T
           C == ChildrenIn(t, K, n)
           early == Earlier(K, later)
<1>0. /\ t.prev \in [Nodes -> Values] /\ t.last[n] \in Values /\ n \in Nodes /\ K \subseteq Nodes
  BY DEF Forest, Typed
<1>1. Ends(t, S, K, later) /\ Siblings(t, K, later)
  BY DEF Forest
<1>4. PICK q : q = Chain(t.prev, t.last[n])
  OBVIOUS
<1>5. Backwards(t, n) = Reverse(q)
  BY <1>4 DEF Backwards
<1>2. CASE t.last[n] = None
  <2>1. q = <<>>
    BY <1>0, <1>2, <1>4, ChainSound
  <2>2. C = {}
    BY <1>1, <1>2 DEF Ends, ChildrenIn
  <2>3. q \in Seq(K) /\ Len(q) = 0 /\ ToSet(q) = {}
    BY <2>1 DEF ToSet
  <2>4. Reverse(q) \in Seq(K) /\ Len(Reverse(q)) = 0 /\ ToSet(Reverse(q)) = {}
    BY <2>3, ReverseIs
  <2> QED
    BY <1>5, <2>2, <2>4 DEF InOrder
<1>3. CASE t.last[n] # None
  <2>1. /\ t.last[n] \in K /\ t.parent[t.last[n]] = n
        /\ \A k \in K : t.parent[k] = n => k = t.last[n] \/ t.last[n] \in later[k]
    BY <1>1, <1>3 DEF Ends
  <2>2. Way(q, t.prev, K, early, t.last[n])
    <3>1. Climbs(t.prev, K, early)
      BY PrevClimbs
    <3> HIDE DEF K, early
    <3> QED
      BY <1>0, <1>4, <2>1, <3>1, ChainIs
  <2>3. C = {t.last[n]} \cup early[t.last[n]]
    BY <1>1, <2>1 DEF Siblings, ChildrenIn, Earlier
  <2>4. q \in Seq(K) /\ ToSet(q) = C /\ \A i, j \in 1..Len(q) : i < j => q[j] \in early[q[i]]
    BY <2>2, <2>3 DEF Way
  <2>5. Len(q) \in Nat /\ \A i \in 1..Len(q) : q[i] \in K
    BY <2>4, SeqIs
  <2>6. \A i, j \in 1..Len(q) : i < j => q[i] \in later[q[j]]
    BY <2>4, <2>5 DEF Earlier
  <2>7. /\ Reverse(q) \in Seq(K) /\ Len(Reverse(q)) = Len(q) /\ ToSet(Reverse(q)) = C
        /\ \A i \in 1..Len(q) : Len(q) - i + 1 \in 1..Len(q) /\ Reverse(q)[i] = q[Len(q) - i + 1]
    BY <2>4, ReverseIs
  <2>8. ASSUME NEW i \in 1..Len(q), NEW j \in 1..Len(q), i < j
        PROVE  Reverse(q)[j] \in later[Reverse(q)[i]]
    <3>1. Len(q) - j + 1 < Len(q) - i + 1
      BY <2>5, <2>8
    <3> QED
      BY <2>6, <2>7, <3>1
  <2> HIDE DEF C, early
  <2> QED
    BY <1>5, <2>7, <2>8 DEF InOrder, C
<1> QED
  BY <1>2, <1>3

LEMMA ForestAgrees ==
  ASSUME NEW t, NEW S, NEW T, NEW later, Forest(t, S, T, later), NEW n \in S
  PROVE  Agree(t, n) /\ ToSet(Kids(t, n)) = ChildrenIn(t, S \ T, n)
<1>1. PICK K : K = S \ T
  OBVIOUS
<1>2. PICK C : C = ChildrenIn(t, K, n)
  OBVIOUS
<1>3. InOrder(Kids(t, n), K, later, C) /\ InOrder(Backwards(t, n), K, later, C)
  BY <1>1, <1>2, KidsInOrder, BackwardsInOrder
<1>4. (\A a \in K : a \notin later[a]) /\ \A a, b \in K : b \in later[a] => a \notin later[b]
  BY <1>1 DEF Forest, Siblings
<1>5. Kids(t, n) = Backwards(t, n)
  BY <1>3, <1>4, InOrderSame
<1>6. ToSet(Kids(t, n)) = C
  BY <1>3 DEF InOrder
<1> QED
  BY <1>1, <1>2, <1>5, <1>6 DEF Agree, ChildrenIn

-----------------------------------------------------------------------------
(* What is above a node.                                                     *)

UpIn(t, S, T) == [n \in S |-> IF n \in T THEN None ELSE t.parent[n]]

LEMMA AncestorsExist ==
  ASSUME NEW t, NEW S, NEW T, NEW later, Forest(t, S, T, later)
  PROVE  \E above : Climbs(UpIn(t, S, T), S, above)
<1> DEFINE Closed(B) == \A x \in B \ T : t.parent[x] \in B
           Cl(n) == {m \in S : \A B \in SUBSET S : n \in B /\ Closed(B) => m \in B}
           above == [n \in S |-> IF n \in T THEN {} ELSE Cl(t.parent[n])]
           up == UpIn(t, S, T)
<1>0. /\ \A n \in S : n \notin T => t.parent[n] \in S
      /\ \A A \in SUBSET (S \ T) : (\A n \in A : t.parent[n] \in A) => A = {}
      /\ None \notin S
  BY DocumentTreeAssumption DEF Forest, Grounded
<1>1. \A n \in S : n \in Cl(n) /\ Closed(Cl(n)) /\ Cl(n) \subseteq S
  BY <1>0
<1>2. \A n \in S : \A m \in Cl(n) : Cl(m) \subseteq Cl(n)
  BY <1>1
<1>3. \A n \in S : n \in T => Cl(n) = {n}
  <2> SUFFICES ASSUME NEW n \in S, n \in T PROVE Cl(n) \subseteq {n}
    BY <1>1
  <2>1. {n} \in SUBSET S /\ n \in {n} /\ Closed({n})
    OBVIOUS
  <2> QED
    BY <2>1
<1>4. \A n \in S : n \notin T => Cl(n) = {n} \cup Cl(t.parent[n])
  <2> SUFFICES ASSUME NEW n \in S, n \notin T PROVE Cl(n) = {n} \cup Cl(t.parent[n])
    OBVIOUS
  <2> DEFINE p == t.parent[n]
             B == {n} \cup Cl(p)
  <2>1. p \in S /\ p \in Cl(n)
    BY <1>0, <1>1
  <2>2. Cl(p) \subseteq Cl(n) /\ n \in Cl(n)
    BY <1>1, <1>2, <2>1
  <2>3. B \in SUBSET S /\ n \in B /\ Closed(B)
    BY <1>1, <2>1
  <2>4. Cl(n) \subseteq B
    BY <2>3
  <2> HIDE DEF Cl
  <2> QED
    BY <2>2, <2>4
<1>5. ASSUME NEW n \in S, n \notin T PROVE n \notin Cl(t.parent[n])
  <2> SUFFICES ASSUME n \in Cl(t.parent[n]) PROVE FALSE
    OBVIOUS
  <2> DEFINE A == {x \in Cl(n) : n \in Cl(x)}
  <2>0. n \in A
    BY <1>1
  <2>1. A \cap T = {}
    <3> HIDE DEF Cl
    <3> QED
      BY <1>1, <1>3, <1>5
  <2>2. ASSUME NEW x \in A PROVE t.parent[x] \in A
    <3>1. x \in S /\ x \notin T /\ x \in Cl(n) /\ n \in Cl(x)
      BY <1>1, <2>1
    <3> HIDE DEF Cl, A
    <3>2. t.parent[x] \in Cl(n) /\ t.parent[x] \in S
      BY <1>1, <3>1
    <3>3. n = x \/ n \in Cl(t.parent[x])
      BY <1>4, <3>1
    <3>4. n \in Cl(t.parent[x])
      BY <3>3
    <3> QED
      BY <3>2, <3>4 DEF A
  <2>3. A \in SUBSET (S \ T)
    BY <2>1
  <2> QED
    BY <1>0, <2>0, <2>2, <2>3
<1> HIDE DEF Cl
<1>6. above \in [S -> SUBSET S]
  BY <1>0, <1>1
<1>7. ASSUME NEW n \in S
      PROVE  /\ n \notin above[n]
             /\ up[n] = None => above[n] = {}
             /\ up[n] # None => up[n] \in S /\ above[n] = {up[n]} \cup above[up[n]]
  <2>1. CASE n \in T
    BY <2>1 DEF UpIn
  <2>2. CASE n \notin T
    <3>1. up[n] = t.parent[n] /\ t.parent[n] \in S /\ above[n] = Cl(t.parent[n])
      BY <1>0, <2>2 DEF UpIn
    <3>2. Cl(t.parent[n]) = {t.parent[n]} \cup above[t.parent[n]]
      <4>1. CASE t.parent[n] \in T
        BY <1>3, <3>1, <4>1
      <4>2. CASE t.parent[n] \notin T
        BY <1>4, <3>1, <4>2
      <4> QED
        BY <4>1, <4>2
    <3> HIDE DEF above, up
    <3> QED
      BY <1>0, <1>5, <2>2, <3>1, <3>2
  <2> QED
    BY <2>1, <2>2
<1> HIDE DEF above, up
<1>8. Climbs(up, S, above)
  BY <1>6, <1>7 DEF Climbs
<1> QED
  BY <1>8 DEF up

-----------------------------------------------------------------------------
(* Lists put together.                                                       *)

LEMMA ConcatIs ==
  ASSUME NEW S, NEW a \in Seq(S), NEW b \in Seq(S)
  PROVE  /\ a \o b \in Seq(S) /\ Len(a \o b) = Len(a) + Len(b)
         /\ ToSet(a \o b) = ToSet(a) \cup ToSet(b)
         /\ IsInjective(a \o b) <=>
              IsInjective(a) /\ IsInjective(b) /\ ToSet(a) \cap ToSet(b) = {}
<1>1. PICK q : q = a \o b
  OBVIOUS
<1>2. /\ q \in Seq(S) /\ Len(q) = Len(a) + Len(b)
      /\ \A i \in 1..(Len(a) + Len(b)) : q[i] = IF i <= Len(a) THEN a[i] ELSE b[i - Len(a)]
  BY <1>1, ConcatProperties
<1>3. /\ Len(a) \in Nat /\ Len(b) \in Nat /\ DOMAIN q = 1..Len(q)
      /\ DOMAIN a = 1..Len(a) /\ DOMAIN b = 1..Len(b)
  BY <1>2, SeqIs
<1>4. \A i \in 1..Len(a) : i \in 1..Len(q) /\ q[i] = a[i]
  BY <1>2, <1>3
<1>5. \A i \in 1..Len(b) : i + Len(a) \in 1..Len(q) /\ q[i + Len(a)] = b[i]
  <2> SUFFICES ASSUME NEW i \in 1..Len(b)
               PROVE  i + Len(a) \in 1..Len(q) /\ q[i + Len(a)] = b[i]
    OBVIOUS
  <2>1. i + Len(a) \in 1..(Len(a) + Len(b)) /\ ~(i + Len(a) <= Len(a)) /\ i + Len(a) - Len(a) = i
    BY <1>3
  <2> QED
    BY <1>2, <2>1
<1>6. \A i \in 1..Len(q) : \/ i \in 1..Len(a) /\ q[i] = a[i]
                           \/ i - Len(a) \in 1..Len(b) /\ q[i] = b[i - Len(a)]
  BY <1>2, <1>3
<1>7. ToSet(q) = ToSet(a) \cup ToSet(b)
  <2>1. \A x : x \in ToSet(q) <=> \E i \in 1..Len(q) : q[i] = x
    BY <1>2, SeqIs
  <2>2. \A x : x \in ToSet(a) <=> \E i \in 1..Len(a) : a[i] = x
    BY SeqIs
  <2>3. \A x : x \in ToSet(b) <=> \E i \in 1..Len(b) : b[i] = x
    BY SeqIs
  <2>4. ASSUME NEW x \in ToSet(q) PROVE x \in ToSet(a) \cup ToSet(b)
    BY <1>6, <2>1, <2>2, <2>3, <2>4
  <2>5. ASSUME NEW x \in ToSet(a) PROVE x \in ToSet(q)
    BY <1>4, <2>1, <2>2, <2>5
  <2>6. ASSUME NEW x \in ToSet(b) PROVE x \in ToSet(q)
    BY <1>5, <2>1, <2>3, <2>6
  <2> QED
    BY <2>4, <2>5, <2>6
<1>8. ASSUME IsInjective(q) PROVE IsInjective(a) /\ IsInjective(b) /\ ToSet(a) \cap ToSet(b) = {}
  <2>0. \A i, j \in 1..Len(q) : q[i] = q[j] => i = j
    BY <1>3, <1>8 DEF IsInjective
  <2>1. \A i, j \in 1..Len(a) : a[i] = a[j] => i = j
    BY <1>4, <2>0
  <2>2. ASSUME NEW i \in 1..Len(b), NEW j \in 1..Len(b), b[i] = b[j] PROVE i = j
    <3>1. i + Len(a) = j + Len(a)
      BY <1>5, <2>0, <2>2
    <3> QED
      BY <1>3, <3>1
  <2>3. ASSUME NEW i \in 1..Len(a), NEW j \in 1..Len(b), a[i] = b[j] PROVE FALSE
    <3>1. i = j + Len(a)
      BY <1>4, <1>5, <2>0, <2>3
    <3> QED
      BY <1>3, <3>1
  <2>4. ToSet(a) \cap ToSet(b) = {}
    BY <2>3, SeqIs
  <2> QED
    BY <1>3, <2>1, <2>2, <2>4 DEF IsInjective
<1>9. ASSUME IsInjective(a), IsInjective(b), ToSet(a) \cap ToSet(b) = {} PROVE IsInjective(q)
  <2>0. /\ \A i, j \in 1..Len(a) : a[i] = a[j] => i = j
        /\ \A i, j \in 1..Len(b) : b[i] = b[j] => i = j
    BY <1>3, <1>9 DEF IsInjective
  <2>1. \A i \in 1..Len(a), j \in 1..Len(b) : a[i] # b[j]
    <3>1. (\A i \in 1..Len(a) : a[i] \in ToSet(a)) /\ (\A j \in 1..Len(b) : b[j] \in ToSet(b))
      BY SeqIs
    <3> QED
      BY <1>9, <3>1
  <2>2. ASSUME NEW i \in 1..Len(q), NEW j \in 1..Len(q), q[i] = q[j] PROVE i = j
    <3>1. CASE i \in 1..Len(a) /\ j \in 1..Len(a)
      BY <1>4, <2>0, <2>2, <3>1
    <3>2. CASE i - Len(a) \in 1..Len(b) /\ j - Len(a) \in 1..Len(b)
      <4>1. i - Len(a) = j - Len(a)
        <5>1. ~(i \in 1..Len(a)) /\ ~(j \in 1..Len(a))
          BY <1>3, <3>2
        <5> QED
          BY <1>6, <2>0, <2>2, <3>2, <5>1
      <4> QED
        BY <1>3, <4>1
    <3> QED
      BY <1>6, <2>1, <2>2, <3>1, <3>2
  <2> QED
    BY <1>3, <2>2 DEF IsInjective
<1> QED
  BY <1>1, <1>2, <1>7, <1>8, <1>9

LEMMA ReverseInjective ==
  ASSUME NEW S, NEW s \in Seq(S), IsInjective(s)
  PROVE  IsInjective(Reverse(s))
<1>1. PICK r : r = Reverse(s)
  OBVIOUS
<1>2. /\ r \in Seq(S) /\ Len(r) = Len(s)
      /\ \A i \in 1..Len(s) : Len(s) - i + 1 \in 1..Len(s) /\ r[i] = s[Len(s) - i + 1]
  BY <1>1, ReverseIs
<1>3. Len(s) \in Nat /\ DOMAIN s = 1..Len(s) /\ DOMAIN r = 1..Len(s)
  BY <1>2, SeqIs
<1>4. ASSUME NEW i \in 1..Len(s), NEW j \in 1..Len(s), r[i] = r[j] PROVE i = j
  <2>1. Len(s) - i + 1 = Len(s) - j + 1
    BY <1>2, <1>3, <1>4 DEF IsInjective
  <2> QED
    BY <1>3, <2>1
<1> QED
  BY <1>1, <1>3, <1>4 DEF IsInjective

LEMMA InOrderInjective ==
  ASSUME NEW K, NEW later, NEW C, NEW q, InOrder(q, K, later, C), \A a \in K : a \notin later[a]
  PROVE  IsInjective(q)
<1>1. Len(q) \in Nat /\ DOMAIN q = 1..Len(q) /\ \A i \in 1..Len(q) : q[i] \in K
  BY SeqIs DEF InOrder
<1>2. \A i, j \in 1..Len(q) : i < j => q[i] # q[j]
  BY <1>1 DEF InOrder
<1>3. \A i, j \in 1..Len(q) : q[i] = q[j] => i = j
  BY <1>1, <1>2
<1> QED
  BY <1>1, <1>3 DEF IsInjective

-----------------------------------------------------------------------------
(* What is below a run, in document order.                                   *)

Fuel == (Cardinality(Nodes) + 1) * Cardinality(Nodes)

LEMMA FuelIs == Cardinality(Nodes) \in Nat /\ Fuel \in Nat /\ Fuel > Cardinality(Nodes)
<1>1. PICK c : c = Cardinality(Nodes)
  OBVIOUS
<1>2. c \in Nat /\ c # 0
  BY <1>1, DocumentTreeAssumption, FS_CardinalityType, FS_EmptySet
<1>3. (c + 1) * c = c * c + c /\ c * c \in Nat /\ c * c > 0
  BY <1>2
<1> QED
  BY <1>1, <1>2, <1>3 DEF Fuel

LEMMA BackwardsType ==
  ASSUME NEW t, Typed(t), NEW n \in Nodes
  PROVE  Backwards(t, n) \in Seq(Nodes)
<1>1. t.prev \in [Nodes -> Values] /\ t.last[n] \in Values
  BY DEF Typed
<1>2. Chain(t.prev, t.last[n]) \in Seq(Nodes)
  BY <1>1, ChainSound
<1> QED
  BY <1>2, ReverseIs DEF Backwards

LEMMA HeadTailIs ==
  ASSUME NEW S, NEW s \in Seq(S), s # <<>>
  PROVE  /\ Head(s) \in S /\ Tail(s) \in Seq(S) /\ Head(s) = s[1] /\ s = <<Head(s)>> \o Tail(s)
         /\ ToSet(s) = {Head(s)} \cup ToSet(Tail(s))
         /\ Len(s) = Len(Tail(s)) + 1 /\ \A i \in 1..Len(Tail(s)) : s[i + 1] = Tail(s)[i]
<1>1. /\ Head(s) \in S /\ Tail(s) \in Seq(S) /\ Head(s) = s[1]
      /\ Len(Tail(s)) = Len(s) - 1 /\ \A i \in 1..Len(Tail(s)) : Tail(s)[i] = s[i + 1]
  BY HeadTailProperties DEF Head
<1>2. PICK h : h = Head(s)
  OBVIOUS
<1>3. PICK r : r = Tail(s)
  OBVIOUS
<1>4. PICK q : q = <<h>> \o r
  OBVIOUS
<1>5. /\ q \in Seq(S) /\ Len(q) = Len(r) + 1 /\ q[1] = h
      /\ \A i \in 2..(Len(r) + 1) : q[i] = r[i - 1]
      /\ ToSet(q) = {h} \cup ToSet(r)
  <2>1. h \in S /\ r \in Seq(S)
    BY <1>1, <1>2, <1>3
  <2> QED
    BY <1>4, <2>1, ConsIs
<1>6. Len(s) \in Nat /\ Len(r) \in Nat
  BY <1>1, <1>3, SeqIs
<1>7. ASSUME NEW i \in 1..Len(s) PROVE q[i] = s[i]
  <2>1. CASE i = 1
    BY <1>1, <1>2, <1>5, <2>1
  <2>2. CASE i # 1
    <3>1. i \in 2..(Len(r) + 1) /\ i - 1 \in 1..Len(r) /\ (i - 1) + 1 = i
      BY <1>1, <1>3, <1>6, <2>2
    <3> QED
      BY <1>1, <1>3, <1>5, <3>1
  <2> QED
    BY <2>1, <2>2
<1>8. q = s
  <2>1. Len(q) = Len(s)
    BY <1>1, <1>3, <1>5, <1>6
  <2> QED
    BY <1>5, <1>7, <2>1, SeqEqual
<1>9. Len(s) = Len(r) + 1
  BY <1>1, <1>3, <1>6
<1> QED
  BY <1>1, <1>2, <1>3, <1>4, <1>5, <1>8, <1>9

LEMMA PreOrderRule ==
  ASSUME NEW t, Typed(t)
  PROVE  \E From \in [Nat \X Seq(Nodes) -> Seq(Nodes)] :
            /\ \A run \in Seq(Nodes) : PreOrder(t, run) = From[<<Fuel, run>>]
            /\ \A i \in Nat, queue \in Seq(Nodes) : From[<<i, queue>>] \in Seq(Nodes)
            /\ \A queue \in Seq(Nodes) : From[<<0, queue>>] = <<>>
            /\ \A i \in Nat : From[<<i, <<>> >>] = <<>>
            /\ \A i \in Nat, queue \in Seq(Nodes) \ {<<>>} :
                 From[<<i + 1, queue>>] =
                   <<Head(queue)>> \o From[<<i, Backwards(t, Head(queue)) \o Tail(queue)>>]
<1> DEFINE L == Seq(Nodes)
           S == [L -> L]
           next(queue) == Backwards(t, Head(queue)) \o Tail(queue)
           first == [queue \in L |-> <<>>]
           step == [f \in S |-> [queue \in L |->
                     IF queue = <<>> THEN <<>> ELSE <<Head(queue)>> \o f[next(queue)]]]
<1>0. \A queue \in L : queue # <<>> => Head(queue) \in Nodes /\ next(queue) \in L
  <2> SUFFICES ASSUME NEW queue \in L, queue # <<>> PROVE Head(queue) \in Nodes /\ next(queue) \in L
    OBVIOUS
  <2>1. Head(queue) \in Nodes /\ Tail(queue) \in Seq(Nodes)
    BY HeadTailIs
  <2>2. Backwards(t, Head(queue)) \in Seq(Nodes)
    BY <2>1, BackwardsType
  <2> QED
    BY <2>1, <2>2, ConcatProperties
<1> HIDE DEF next
<1>1. first \in S
  OBVIOUS
<1>2. step \in [S -> S]
  <2> SUFFICES ASSUME NEW f \in S, NEW queue \in L, queue # <<>>
               PROVE  <<Head(queue)>> \o f[next(queue)] \in L
    OBVIOUS
  <2>1. Head(queue) \in Nodes /\ f[next(queue)] \in Seq(Nodes)
    BY <1>0
  <2> QED
    BY <2>1, ConsIs
<1>3. PICK F \in [Nat -> S] : F[0] = first /\ \A i \in Nat : F[i + 1] = step[F[i]]
  <2>1. PICK A, z, on : A = S /\ z = first /\ on = step
    OBVIOUS
  <2>2. z \in A /\ on \in [A -> A]
    BY <1>1, <1>2, <2>1
  <2> HIDE DEF S, first, step
  <2>3. \E f : f \in Iterated(A, z, on)
    BY <2>2, RecursionExists
  <2> QED
    BY <2>1, <2>3 DEF Iterated
<1> DEFINE G == [w \in Nat \X L |-> F[w[1]][w[2]]]
<1>4. ASSUME NEW i \in Nat, NEW queue \in L
      PROVE  G[<<i, queue>>] = IF i = 0 \/ queue = <<>> THEN <<>>
                              ELSE <<Head(queue)>> \o G[<<i - 1, next(queue)>>]
  <2>1. G[<<i, queue>>] = F[i][queue]
    OBVIOUS
  <2>2. CASE i = 0
    BY <1>3, <2>1, <2>2
  <2>3. CASE i # 0
    <3>1. i - 1 \in Nat /\ (i - 1) + 1 = i
      BY <2>3
    <3>2. F[i] = step[F[i - 1]] /\ F[i - 1] \in S
      BY <1>3, <3>1
    <3>3. F[i][queue] = IF queue = <<>> THEN <<>> ELSE <<Head(queue)>> \o F[i - 1][next(queue)]
      BY <3>2
    <3>4. queue # <<>> => next(queue) \in L /\ G[<<i - 1, next(queue)>>] = F[i - 1][next(queue)]
      BY <1>0, <3>1
    <3> QED
      BY <2>1, <2>3, <3>3, <3>4
  <2> QED
    BY <2>2, <2>3
<1>5. G = [w \in Nat \X Seq(Nodes) |->
             IF w[1] = 0 \/ w[2] = <<>> THEN <<>>
             ELSE <<Head(w[2])>> \o G[<<w[1] - 1, Backwards(t, Head(w[2])) \o Tail(w[2])>>]]
  <2> DEFINE H == [w \in Nat \X Seq(Nodes) |->
             IF w[1] = 0 \/ w[2] = <<>> THEN <<>>
             ELSE <<Head(w[2])>> \o G[<<w[1] - 1, Backwards(t, Head(w[2])) \o Tail(w[2])>>]]
  <2>1. ASSUME NEW w \in Nat \X L PROVE G[w] = H[w]
    <3>1. PICK i \in Nat, queue \in L : w = <<i, queue>>
      OBVIOUS
    <3>2. H[w] = IF i = 0 \/ queue = <<>> THEN <<>> ELSE <<Head(queue)>> \o G[<<i - 1, next(queue)>>]
      <4>1. w[1] = i /\ w[2] = queue
        BY <3>1
      <4>2. H[w] = IF w[1] = 0 \/ w[2] = <<>> THEN <<>>
                   ELSE <<Head(w[2])>> \o G[<<w[1] - 1, Backwards(t, Head(w[2])) \o Tail(w[2])>>]
        OBVIOUS
      <4> HIDE DEF G, H
      <4> QED
        BY <4>1, <4>2 DEF next
    <3> HIDE DEF G, H
    <3> QED
      BY <1>4, <3>1, <3>2
  <2>3. G = [w \in Nat \X L |-> G[w]] /\ H = [w \in Nat \X L |-> H[w]]
    OBVIOUS
  <2> HIDE DEF G, H
  <2>4. G = H
    BY <2>1, <2>3
  <2> QED
    BY <2>4 DEF H
<1> DEFINE From == CHOOSE g : g = [w \in Nat \X Seq(Nodes) |->
             IF w[1] = 0 \/ w[2] = <<>> THEN <<>>
             ELSE <<Head(w[2])>> \o g[<<w[1] - 1, Backwards(t, Head(w[2])) \o Tail(w[2])>>]]
<1>6. From = [w \in Nat \X Seq(Nodes) |->
             IF w[1] = 0 \/ w[2] = <<>> THEN <<>>
             ELSE <<Head(w[2])>> \o From[<<w[1] - 1, Backwards(t, Head(w[2])) \o Tail(w[2])>>]]
  <2>1. \E g : g = [w \in Nat \X Seq(Nodes) |->
             IF w[1] = 0 \/ w[2] = <<>> THEN <<>>
             ELSE <<Head(w[2])>> \o g[<<w[1] - 1, Backwards(t, Head(w[2])) \o Tail(w[2])>>]]
    <3> HIDE DEF G
    <3> QED
      BY <1>5
  <2> QED
    BY <2>1, Zenon
<1>7. \A run : PreOrder(t, run) = From[<<Fuel, run>>]
  <2> SUFFICES ASSUME NEW run
               PROVE  PreOrder(t, run) = From[<<(Cardinality(Nodes) + 1) * Cardinality(Nodes), run>>]
    BY DEF Fuel
  <2>1. PreOrder(t, run) =
          LET g == CHOOSE h : h = [w \in Nat \X Seq(Nodes) |->
             IF w[1] = 0 \/ w[2] = <<>> THEN <<>>
             ELSE LET n == Head(w[2]) IN
                  <<n>> \o h[<<w[1] - 1, Backwards(t, n) \o Tail(w[2])>>]]
          IN  g[<<(Cardinality(Nodes) + 1) * Cardinality(Nodes), run>>]
    BY Zenon DEF PreOrder
  <2> QED
    BY <2>1, Zenon
<1> HIDE DEF From, G, S
<1>8. ASSUME NEW i \in Nat, NEW queue \in L
      PROVE  From[<<i, queue>>] = IF i = 0 \/ queue = <<>> THEN <<>>
               ELSE <<Head(queue)>> \o From[<<i - 1, Backwards(t, Head(queue)) \o Tail(queue)>>]
  BY <1>6
<1>9. \A queue \in L : From[<<0, queue>>] = <<>>
  BY <1>8
<1>10. \A i \in Nat : From[<<i, <<>> >>] = <<>>
  <2>0. <<>> \in L
    OBVIOUS
  <2>1. PICK e \in L : e = <<>>
    BY <2>0, Zenon
  <2>2. \A i \in Nat : From[<<i, e>>] = <<>>
    BY <1>8, <2>1
  <2> QED
    BY <2>1, <2>2
<1>11. \A i \in Nat, queue \in L \ {<<>>} :
         From[<<i + 1, queue>>] = <<Head(queue)>> \o From[<<i, Backwards(t, Head(queue)) \o Tail(queue)>>]
  <2> SUFFICES ASSUME NEW i \in Nat, NEW queue \in L, queue # <<>>
               PROVE  From[<<i + 1, queue>>] =
                        <<Head(queue)>> \o From[<<i, Backwards(t, Head(queue)) \o Tail(queue)>>]
    OBVIOUS
  <2>1. i + 1 \in Nat /\ i + 1 # 0 /\ (i + 1) - 1 = i
    OBVIOUS
  <2> QED
    BY <1>8, <2>1
<1>12. \A i \in Nat, queue \in L : From[<<i, queue>>] \in L
  <2> DEFINE T == {i \in Nat : \A queue \in L : From[<<i, queue>>] \in L}
  <2>1. 0 \in T
    <3> SUFFICES ASSUME NEW queue \in L PROVE From[<<0, queue>>] \in L
      OBVIOUS
    <3>1. From[<<0, queue>>] = <<>>
      BY <1>9
    <3> QED
      BY <3>1
  <2>2. ASSUME NEW i \in Nat, i \in T PROVE i + 1 \in T
    <3> SUFFICES ASSUME NEW queue \in L PROVE From[<<i + 1, queue>>] \in L
      OBVIOUS
    <3>1. CASE queue = <<>>
      <4>1. From[<<i + 1, queue>>] = <<>>
        BY <1>10, <3>1
      <4> QED
        BY <4>1
    <3>2. CASE queue # <<>>
      <4>1. PICK h, r : h = Head(queue) /\ r = From[<<i, next(queue)>>]
        OBVIOUS
      <4>2. From[<<i + 1, queue>>] = <<h>> \o r
        BY <1>11, <3>2, <4>1 DEF next
      <4>3. h \in Nodes /\ r \in Seq(Nodes)
        BY <1>0, <2>2, <3>2, <4>1
      <4> QED
        BY <4>2, <4>3, ConsIs
    <3> QED
      BY <3>1, <3>2
  <2> HIDE DEF T
  <2>3. Nat \subseteq T
    BY <2>1, <2>2, Induction
  <2> QED
    BY <2>3 DEF T
<1>13. From \in [Nat \X L -> L]
  <2>1. ASSUME NEW w \in Nat \X L PROVE From[w] \in L
    <3>1. PICK i \in Nat, queue \in L : w = <<i, queue>>
      OBVIOUS
    <3> QED
      BY <1>12, <3>1
  <2>2. \E f : From = [w \in Nat \X L |-> f[w]]
    BY <1>6
  <2> QED
    BY <2>1, <2>2
<1> QED
  BY <1>7, <1>9, <1>10, <1>11, <1>12, <1>13

(* What is still to come of a forest: D, of which queue are the next and all  *)
(* others below another.                                                     *)
Frontier(t, S, T, D, queue) ==
  /\ D \subseteq S /\ queue \in Seq(D) /\ IsInjective(queue)
  /\ \A n \in D : n \in ToSet(queue) <=> (n \in T \/ t.parent[n] \notin D)
  /\ \A k \in S \ T : t.parent[k] \in D => k \in D

(* All of it, each once, and parents first.                                  *)
ParentsFirst(t, rest, r) ==
  \A n \in rest : \E i, j \in 1..Len(r) : i < j /\ r[j] = n /\ r[i] = t.parent[n]
Listing(t, D, queue, r) ==
  /\ r \in Seq(D) /\ IsInjective(r) /\ ToSet(r) = D
  /\ ParentsFirst(t, D \ ToSet(queue), r)

LEMMA FrontierEmpty ==
  ASSUME NEW t, NEW S, NEW T, NEW later, Forest(t, S, T, later), NEW D, Frontier(t, S, T, D, <<>>)
  PROVE  D = {}
<1>1. ToSet(<<>>) = {}
  BY DEF ToSet
<1>2. \A n \in D : n \notin T /\ t.parent[n] \in D
  BY <1>1 DEF Frontier
<1>3. D \in SUBSET (S \ T)
  BY <1>2 DEF Frontier
<1> QED
  BY <1>2, <1>3 DEF Forest, Grounded

LEMMA FrontierNext ==
  ASSUME NEW t, NEW S, NEW T, NEW later, Forest(t, S, T, later), NEW D, NEW queue,
         Frontier(t, S, T, D, queue), queue # <<>>
  PROVE  /\ Head(queue) \in D
         /\ Frontier(t, S, T, D \ {Head(queue)}, Backwards(t, Head(queue)) \o Tail(queue))
         /\ \A n : n \in ToSet(Backwards(t, Head(queue)) \o Tail(queue)) <=>
                    \/ n \in ChildrenIn(t, S \ T, Head(queue))
                    \/ n \in ToSet(queue) /\ n # Head(queue)
<1>1. PICK h, rest : h = Head(queue) /\ rest = Tail(queue)
  OBVIOUS
<1>2. D \subseteq S /\ queue \in Seq(D) /\ IsInjective(queue)
  BY DEF Frontier
<1>3. /\ h \in D /\ rest \in Seq(D) /\ queue = <<h>> \o rest
      /\ ToSet(queue) = {h} \cup ToSet(rest)
  BY <1>1, <1>2, HeadTailIs
<1>4. IsInjective(rest) /\ h \notin ToSet(rest)
  <2>1. <<h>> \in Seq(D) /\ ToSet(<<h>>) = {h}
    BY <1>3 DEF ToSet
  <2> QED
    BY <1>2, <1>3, <2>1, ConcatIs
<1>5. PICK K, C, b : K = S \ T /\ C = ChildrenIn(t, K, h) /\ b = Backwards(t, h)
  OBVIOUS
<1>6. InOrder(b, K, later, C) /\ \A a \in K : a \notin later[a]
  <2>1. h \in S
    BY <1>2, <1>3
  <2> QED
    BY <1>5, <2>1, BackwardsInOrder DEF Forest, Siblings
<1>7. IsInjective(b) /\ ToSet(b) = C /\ b \in Seq(K)
  BY <1>6, InOrderInjective DEF InOrder
<1>8. h \notin C
  <2> SUFFICES ASSUME h \in C PROVE FALSE
    OBVIOUS
  <2>1. {h} \in SUBSET (S \ T) /\ \A n \in {h} : t.parent[n] \in {h}
    BY <1>5 DEF ChildrenIn
  <2> QED
    BY <2>1 DEF Forest, Grounded
<1>9. C \subseteq D \ {h}
  BY <1>3, <1>5, <1>8 DEF ChildrenIn, Frontier
<1>10. PICK E : E = D \ {h}
  OBVIOUS
<1>11. b \in Seq(E) /\ rest \in Seq(E)
  <2>1. \A i \in 1..Len(b) : b[i] \in E
    BY <1>7, <1>9, <1>10, SeqIs
  <2>2. \A i \in 1..Len(rest) : rest[i] \in E
    BY <1>3, <1>4, <1>10, SeqIs
  <2>3. b \in [1..Len(b) -> E] /\ rest \in [1..Len(rest) -> E] /\ Len(b) \in Nat /\ Len(rest) \in Nat
    BY <1>3, <1>7, <2>1, <2>2, SeqIs
  <2> QED
    BY <2>3, SeqDef
<1>12. ToSet(b) \cap ToSet(rest) = {}
  <2> SUFFICES ASSUME NEW n \in C, n \in ToSet(rest) PROVE FALSE
    BY <1>7
  <2>1. n \in D /\ n \in ToSet(queue) /\ n \notin T /\ t.parent[n] = h
    BY <1>3, <1>5, <1>9 DEF ChildrenIn
  <2> QED
    BY <1>3, <2>1 DEF Frontier
<1>13. PICK next : next = b \o rest
  OBVIOUS
<1>14. next \in Seq(E) /\ IsInjective(next) /\ ToSet(next) = C \cup ToSet(rest)
  BY <1>4, <1>7, <1>11, <1>12, <1>13, ConcatIs
<1>15. \A k \in S \ T : t.parent[k] \in E => k \in E
  <2> SUFFICES ASSUME NEW k \in S \ T, t.parent[k] \in E PROVE k \in E
    OBVIOUS
  <2>1. k \in D /\ t.parent[k] \in D
    BY <1>10 DEF Frontier
  <2>2. k \notin ToSet(queue)
    BY <2>1 DEF Frontier
  <2> QED
    BY <1>3, <1>10, <2>1, <2>2
<1>16. ASSUME NEW n \in E
       PROVE  n \in ToSet(next) <=> (n \in T \/ t.parent[n] \notin E)
  <2>1. n \in D /\ n # h /\ n \in S
    BY <1>2, <1>10
  <2>2. n \in ToSet(queue) <=> n \in ToSet(rest)
    BY <1>3, <2>1
  <2>3. n \in ToSet(queue) <=> (n \in T \/ t.parent[n] \notin D)
    BY <2>1 DEF Frontier
  <2>4. n \in C <=> n \notin T /\ t.parent[n] = h
    BY <1>5, <2>1 DEF ChildrenIn
  <2> QED
    BY <1>3, <1>10, <1>14, <2>2, <2>3, <2>4
<1>17. Frontier(t, S, T, E, next)
  BY <1>2, <1>10, <1>14, <1>15, <1>16 DEF Frontier
<1>18. \A n : n \in ToSet(next) <=> (n \in C \/ (n \in ToSet(queue) /\ n # h))
  BY <1>3, <1>4, <1>14
<1> QED
  BY <1>1, <1>3, <1>5, <1>10, <1>13, <1>17, <1>18

(* From D with queue to come on to E with next: h has been listed, its         *)
(* children C take its place.                                                *)
Onward(t, D, queue, h, E, next, C) ==
  /\ h \in D /\ h \in ToSet(queue) /\ E = D \ {h} /\ C \subseteq E
  /\ \A k \in C : t.parent[k] = h
  /\ \A n : n \in ToSet(next) <=> (n \in C \/ (n \in ToSet(queue) /\ n # h))

LEMMA ListingNext ==
  ASSUME NEW t, NEW D, NEW queue, NEW h, NEW E, NEW next, NEW C,
         Onward(t, D, queue, h, E, next, C), NEW r, Listing(t, E, next, r)
  PROVE  Listing(t, D, queue, <<h>> \o r)
<1>0. /\ h \in D /\ h \in ToSet(queue) /\ E = D \ {h} /\ C \subseteq E
      /\ \A k \in C : t.parent[k] = h
      /\ \A n : n \in ToSet(next) <=> (n \in C \/ (n \in ToSet(queue) /\ n # h))
  BY DEF Onward
<1>1. PICK q : q = <<h>> \o r
  OBVIOUS
<1>2. r \in Seq(E) /\ IsInjective(r) /\ ToSet(r) = E
  BY DEF Listing
<1>3. r \in Seq(D)
  BY <1>0, <1>2, SeqMonotonic
<1>4. /\ q \in Seq(D) /\ Len(q) = Len(r) + 1 /\ q[1] = h
      /\ \A i \in 1..Len(r) : q[i + 1] = r[i]
      /\ ToSet(q) = {h} \cup ToSet(r)
  BY <1>0, <1>1, <1>3, ConsIs
<1>5. IsInjective(q)
  <2>1. PICK one : one = <<h>>
    OBVIOUS
  <2>2. one \in Seq(D) /\ ToSet(one) = {h} /\ IsInjective(one)
    BY <1>0, <2>1 DEF ToSet, IsInjective
  <2>3. ToSet(one) \cap ToSet(r) = {}
    BY <1>0, <1>2, <2>2
  <2>4. IsInjective(one \o r)
    BY <1>2, <1>3, <2>2, <2>3, ConcatIs
  <2> QED
    BY <1>1, <2>1, <2>4
<1>6. Len(r) \in Nat
  BY <1>2, SeqIs
<1>7. ASSUME NEW n \in D \ ToSet(queue)
      PROVE  \E i, j \in 1..Len(q) : i < j /\ q[j] = n /\ q[i] = t.parent[n]
  <2>1. n \in E
    BY <1>0, <1>7
  <2>2. CASE n \in ToSet(next)
    <3>1. t.parent[n] = h
      BY <1>0, <1>7, <2>1, <2>2
    <3>2. PICK j \in 1..Len(r) : r[j] = n
      BY <1>2, <2>1, SeqIs
    <3>3. j + 1 \in 1..Len(q) /\ 1 \in 1..Len(q) /\ 1 < j + 1
      BY <1>4, <1>6
    <3> QED
      BY <1>4, <3>1, <3>2, <3>3
  <2>3. CASE n \notin ToSet(next)
    <3>1. PICK i, j \in 1..Len(r) : i < j /\ r[j] = n /\ r[i] = t.parent[n]
      BY <2>1, <2>3 DEF Listing, ParentsFirst
    <3>2. i + 1 \in 1..Len(q) /\ j + 1 \in 1..Len(q) /\ i + 1 < j + 1
      BY <1>4, <1>6, <3>1
    <3> QED
      BY <1>4, <3>1, <3>2
  <2> QED
    BY <2>2, <2>3
<1>8. ToSet(q) = D
  BY <1>0, <1>2, <1>4
<1> QED
  BY <1>1, <1>4, <1>5, <1>7, <1>8 DEF Listing, ParentsFirst

LEMMA PreOrderCovers ==
  ASSUME NEW t, NEW S, NEW T, NEW later, Forest(t, S, T, later), NEW D, NEW run,
         Frontier(t, S, T, D, run)
  PROVE  Listing(t, D, run, PreOrder(t, run))
<1>0. Typed(t) /\ S \subseteq Nodes
  BY DEF Forest
<1>1. PICK From \in [Nat \X Seq(Nodes) -> Seq(Nodes)] :
            /\ \A queue \in Seq(Nodes) : PreOrder(t, queue) = From[<<Fuel, queue>>]
            /\ \A i \in Nat, queue \in Seq(Nodes) : From[<<i, queue>>] \in Seq(Nodes)
            /\ \A queue \in Seq(Nodes) : From[<<0, queue>>] = <<>>
            /\ \A i \in Nat : From[<<i, <<>> >>] = <<>>
            /\ \A i \in Nat, queue \in Seq(Nodes) \ {<<>>} :
                 From[<<i + 1, queue>>] =
                   <<Head(queue)>> \o From[<<i, Backwards(t, Head(queue)) \o Tail(queue)>>]
  BY <1>0, PreOrderRule
<1>9. ASSUME NEW E, NEW queue, Frontier(t, S, T, E, queue), queue # <<>>
      PROVE  /\ Head(queue) \in E
             /\ Frontier(t, S, T, E \ {Head(queue)}, Backwards(t, Head(queue)) \o Tail(queue))
             /\ \A n : n \in ToSet(Backwards(t, Head(queue)) \o Tail(queue)) <=>
                    \/ n \in ChildrenIn(t, S \ T, Head(queue))
                    \/ n \in ToSet(queue) /\ n # Head(queue)
  BY <1>9, FrontierNext
<1> DEFINE P(i) == \A E, queue : Frontier(t, S, T, E, queue) /\ Cardinality(E) <= i
                                  => Listing(t, E, queue, From[<<i, queue>>])
           I == {i \in Nat : P(i)}
<1>2. \A E, queue : Frontier(t, S, T, E, queue) =>
         IsFiniteSet(E) /\ Cardinality(E) \in Nat /\ queue \in Seq(Nodes) /\ queue \in Seq(E)
         /\ Cardinality(E) <= Cardinality(Nodes)
  <2> SUFFICES ASSUME NEW E, NEW queue, Frontier(t, S, T, E, queue)
               PROVE  /\ IsFiniteSet(E) /\ Cardinality(E) \in Nat /\ queue \in Seq(Nodes)
                      /\ queue \in Seq(E) /\ Cardinality(E) <= Cardinality(Nodes)
    OBVIOUS
  <2>1. E \subseteq Nodes /\ queue \in Seq(E)
    BY <1>0 DEF Frontier
  <2>2. IsFiniteSet(E) /\ Cardinality(E) <= Cardinality(Nodes)
    BY <2>1, DocumentTreeAssumption, FS_Subset
  <2>3. queue \in Seq(Nodes)
    BY <2>1, SeqMonotonic
  <2> QED
    BY <2>1, <2>2, <2>3, FS_CardinalityType
<1>3. ASSUME NEW i \in Nat, NEW E, Frontier(t, S, T, E, <<>>)
      PROVE  Listing(t, E, <<>>, From[<<i, <<>> >>])
  <2>1. From[<<i, <<>> >>] = <<>> /\ E = {}
    BY <1>1, <1>3, FrontierEmpty
  <2>2. <<>> \in Seq(E) /\ IsInjective(<<>>) /\ ToSet(<<>>) = {}
    BY DEF IsInjective, ToSet
  <2> QED
    BY <2>1, <2>2 DEF Listing, ParentsFirst
<1>4. 0 \in I
  <2> SUFFICES ASSUME NEW E, NEW queue, Frontier(t, S, T, E, queue), Cardinality(E) <= 0
               PROVE  Listing(t, E, queue, From[<<0, queue>>])
    OBVIOUS
  <2>1. E = {}
    BY <1>2, FS_EmptySet
  <2>2. queue \in Seq(E)
    BY <1>2
  <2>3. queue = <<>>
    BY <2>1, <2>2, SeqIs
  <2> QED
    BY <1>3, <2>3
<1>5. ASSUME NEW i \in Nat, i \in I PROVE i + 1 \in I
  <2> SUFFICES ASSUME NEW E, NEW queue, Frontier(t, S, T, E, queue), Cardinality(E) <= i + 1
               PROVE  Listing(t, E, queue, From[<<i + 1, queue>>])
    OBVIOUS
  <2>1. CASE queue = <<>>
    BY <1>3, <2>1
  <2>2. CASE queue # <<>>
    <3>1. PICK h : h = Head(queue)
      OBVIOUS
    <3>11. PICK next : next = Backwards(t, h) \o Tail(queue)
      OBVIOUS
    <3>12. PICK F : F = E \ {h}
      OBVIOUS
    <3>2. PICK C : C = ChildrenIn(t, S \ T, h)
      OBVIOUS
    <3>13. /\ Head(queue) \in E
           /\ Frontier(t, S, T, E \ {Head(queue)}, Backwards(t, Head(queue)) \o Tail(queue))
           /\ \A n : n \in ToSet(Backwards(t, Head(queue)) \o Tail(queue)) <=>
                    \/ n \in ChildrenIn(t, S \ T, Head(queue))
                    \/ n \in ToSet(queue) /\ n # Head(queue)
      BY <1>9, <2>2
    <3>3. h \in E /\ Frontier(t, S, T, F, next) /\ \A n : n \in ToSet(next) <=> (n \in C \/ (n \in ToSet(queue) /\ n # h))
      BY <3>1, <3>11, <3>12, <3>2, <3>13
    <3>4. Cardinality(F) <= i
      <4>1. Cardinality(F) = Cardinality(E) - 1
        BY <1>2, <3>12, <3>3, FS_RemoveElement
      <4> QED
        BY <1>2, <3>3, <4>1
    <3>5. PICK r : r = From[<<i, next>>]
      OBVIOUS
    <3>6. Listing(t, F, next, r)
      BY <1>5, <3>3, <3>4, <3>5
    <3>7. From[<<i + 1, queue>>] = <<h>> \o r
      BY <1>1, <1>2, <2>2, <3>1, <3>11, <3>5
    <3>8. h \in ToSet(queue)
      BY <1>2, <2>2, <3>1, HeadTailIs
    <3>9. C \subseteq F
      <4>1. next \in Seq(F)
        BY <1>2, <3>3
      <4>2. ToSet(next) \subseteq F
        BY <4>1, SeqIs
      <4> QED
        BY <3>3, <4>2
    <3>10. Listing(t, E, queue, <<h>> \o r)
      <4>1. \A k \in C : t.parent[k] = h
        BY <3>2 DEF ChildrenIn
      <4>2. Onward(t, E, queue, h, F, next, C)
        BY <3>12, <3>3, <3>8, <3>9, <4>1 DEF Onward
      <4> HIDE DEF P, I
      <4> QED
        BY <3>6, <4>2, ListingNext
    <3> QED
      BY <3>7, <3>10
  <2> QED
    BY <2>1, <2>2
<1> HIDE DEF I
<1>6. Nat \subseteq I
  BY <1>4, <1>5, Induction
<1>7. Cardinality(D) <= Fuel /\ Fuel \in Nat /\ run \in Seq(Nodes)
  BY <1>2, FuelIs
<1>8. Listing(t, D, run, From[<<Fuel, run>>])
  BY <1>6, <1>7 DEF I
<1> QED
  BY <1>1, <1>7, <1>8

-----------------------------------------------------------------------------
(* The other way round: what a list that has nothing twice says.             *)

LEMMA SeqCount ==
  ASSUME NEW S, NEW s \in Seq(S)
  PROVE  /\ IsFiniteSet(ToSet(s)) /\ Cardinality(ToSet(s)) <= Len(s)
         /\ Cardinality(ToSet(s)) \in Nat
         /\ Cardinality(ToSet(s)) = Len(s) <=> IsInjective(s)
<1>1. PICK n : n = Len(s)
  OBVIOUS
<1>2. PICK D, C : D = 1..n /\ C = ToSet(s)
  OBVIOUS
<1>3. /\ n \in Nat /\ DOMAIN s = D /\ s \in [D -> S]
      /\ \A i \in D : s[i] \in C
      /\ \A x : x \in C <=> \E i \in D : s[i] = x
  BY <1>1, <1>2, SeqIs
<1>4. IsFiniteSet(D) /\ Cardinality(D) = n
  BY <1>2, <1>3, FS_Interval
<1>5. s \in [D -> C]
  BY <1>3
<1>6. s \in Surjection(D, C)
  <2>1. ASSUME NEW x \in C PROVE \E i \in D : s[i] = x
    BY <1>3
  <2> QED
    BY <1>5, <2>1 DEF Surjection
<1>7. IsFiniteSet(C) /\ Cardinality(C) <= n /\ (Cardinality(C) = n <=> s \in Injection(D, C))
  BY <1>4, <1>6, FS_Surjection
<1>8. s \in Injection(D, C) <=> IsInjective(s)
  BY <1>5 DEF Injection
<1> QED
  BY <1>1, <1>2, <1>7, <1>8, FS_CardinalityType

(* All of r is listed from queue, and the children of each node after it.     *)
Laid(t, queue, r) ==
  /\ Listing(t, ToSet(r), queue, r)
  /\ IsInjective(queue) /\ ToSet(queue) \subseteq ToSet(r)
  /\ \A n \in ToSet(r) : /\ IsInjective(Backwards(t, n))
                         /\ ToSet(Backwards(t, n)) \subseteq ToSet(r) \ ToSet(queue)
  /\ \A n \in ToSet(r) \ ToSet(queue) : n \in ToSet(Backwards(t, t.parent[n]))

LEMMA LaidNext ==
  ASSUME NEW t, Typed(t), NEW h \in Nodes, NEW rest \in Seq(Nodes), NEW s \in Seq(Nodes),
         Laid(t, Backwards(t, h) \o rest, s), IsInjective(<<h>> \o s),
         \A k \in ToSet(Backwards(t, h)) : t.parent[k] = h
  PROVE  Laid(t, <<h>> \o rest, <<h>> \o s)
<1>1. PICK b : b = Backwards(t, h)
  OBVIOUS
<1>2. b \in Seq(Nodes)
  BY <1>1, BackwardsType
<1>3. PICK next : next = b \o rest
  OBVIOUS
<1>4. Laid(t, next, s)
  BY <1>1, <1>3
<1>5. PICK q, queue : q = <<h>> \o s /\ queue = <<h>> \o rest
  OBVIOUS
<1>6. PICK one : one = <<h>>
  OBVIOUS
<1>7. one \in Seq(Nodes) /\ ToSet(one) = {h} /\ IsInjective(one)
  BY <1>6 DEF ToSet, IsInjective
<1>8. IsInjective(one \o s)
  BY <1>6
<1>9. IsInjective(s) /\ h \notin ToSet(s) /\ ToSet(one \o s) = {h} \cup ToSet(s) /\ one \o s \in Seq(Nodes)
  <2>1. IsInjective(s) /\ ToSet(one) \cap ToSet(s) = {} /\ ToSet(one \o s) = ToSet(one) \cup ToSet(s)
        /\ one \o s \in Seq(Nodes)
    BY <1>7, <1>8, ConcatIs
  <2> QED
    BY <1>7, <2>1
<1>10. IsInjective(next) /\ ToSet(next) \subseteq ToSet(s)
  BY <1>4 DEF Laid
<1>11. /\ IsInjective(b) /\ IsInjective(rest) /\ ToSet(b) \cap ToSet(rest) = {}
       /\ ToSet(next) = ToSet(b) \cup ToSet(rest)
  BY <1>2, <1>3, <1>10, ConcatIs
<1>12. h \notin ToSet(rest)
  BY <1>9, <1>10, <1>11
<1>13. IsInjective(one \o rest) /\ ToSet(one \o rest) = {h} \cup ToSet(rest)
  <2>1. ToSet(one) \cap ToSet(rest) = {}
    BY <1>7, <1>12
  <2>2. IsInjective(one \o rest) /\ ToSet(one \o rest) = ToSet(one) \cup ToSet(rest)
    BY <1>7, <1>11, <2>1, ConcatIs
  <2> QED
    BY <1>7, <2>2
<1>14. /\ q \in Seq(Nodes) /\ ToSet(q) = {h} \cup ToSet(s) /\ IsInjective(q)
       /\ IsInjective(queue) /\ ToSet(queue) = {h} \cup ToSet(rest)
  BY <1>5, <1>6, <1>8, <1>9, <1>13
<1>15. ToSet(queue) \subseteq ToSet(q)
  BY <1>10, <1>11, <1>14
<1>16. ASSUME NEW n \in ToSet(q)
       PROVE  /\ IsInjective(Backwards(t, n))
              /\ ToSet(Backwards(t, n)) \subseteq ToSet(q) \ ToSet(queue)
  <2>1. CASE n = h
    <3>1. ToSet(b) \subseteq ToSet(q) \ ToSet(queue)
      BY <1>9, <1>10, <1>11, <1>14
    <3> QED
      BY <1>1, <1>11, <2>1, <3>1
  <2>2. CASE n # h
    <3>1. n \in ToSet(s)
      BY <1>14, <1>16, <2>2
    <3>2. IsInjective(Backwards(t, n)) /\ ToSet(Backwards(t, n)) \subseteq ToSet(s) \ ToSet(next)
      BY <1>4, <3>1 DEF Laid
    <3> QED
      BY <1>9, <1>11, <1>14, <3>2
  <2> QED
    BY <2>1, <2>2
<1>17. PICK D, E : D = ToSet(q) /\ E = ToSet(s)
  OBVIOUS
<1>18. Listing(t, E, next, s)
  BY <1>4, <1>17 DEF Laid
<1>19. E = D \ {h} /\ h \in D /\ h \in ToSet(queue)
  BY <1>9, <1>14, <1>17
<1>20. PICK C : C = ToSet(b)
  OBVIOUS
<1>21. (\A k \in C : t.parent[k] = h) /\ C \subseteq E
  BY <1>1, <1>10, <1>11, <1>17, <1>20
<1>22. \A n : n \in ToSet(next) <=> (n \in C \/ (n \in ToSet(queue) /\ n # h))
  BY <1>11, <1>12, <1>14, <1>20
<1>23. Listing(t, D, queue, <<h>> \o s)
  <2>1. Onward(t, D, queue, h, E, next, C)
    BY <1>19, <1>21, <1>22 DEF Onward
  <2> QED
    BY <1>18, <2>1, ListingNext
<1>25. ASSUME NEW n \in ToSet(q) \ ToSet(queue)
       PROVE  n \in ToSet(Backwards(t, t.parent[n]))
  <2>1. n \in ToSet(s) /\ n \notin ToSet(rest)
    BY <1>14
  <2>2. CASE n \in ToSet(b)
    BY <1>1, <2>2
  <2>3. CASE n \notin ToSet(b)
    <3>1. n \in ToSet(s) \ ToSet(next)
      BY <1>11, <2>1, <2>3
    <3> QED
      BY <1>4, <3>1 DEF Laid
  <2> QED
    BY <2>2, <2>3
<1>24. Laid(t, queue, q)
  BY <1>5, <1>14, <1>15, <1>16, <1>17, <1>23, <1>25 DEF Laid
<1> QED
  BY <1>5, <1>24

LEMMA ConsParts ==
  ASSUME NEW S, NEW h \in S, NEW s \in Seq(S)
  PROVE  /\ IsInjective(<<h>> \o s) <=> IsInjective(s) /\ h \notin ToSet(s)
         /\ <<h>> \o s # <<>>
<1>1. PICK one : one = <<h>>
  OBVIOUS
<1>2. one \in Seq(S) /\ ToSet(one) = {h} /\ IsInjective(one)
  BY <1>1 DEF ToSet, IsInjective
<1>3. IsInjective(one \o s) <=> IsInjective(s) /\ ToSet(one) \cap ToSet(s) = {}
  BY <1>2, ConcatIs
<1>4. ToSet(one \o s) = ToSet(one) \cup ToSet(s) /\ one \o s \in Seq(S)
  BY <1>2, ConcatIs
<1>5. one \o s # <<>>
  BY <1>2, <1>4, SeqIs
<1> QED
  BY <1>1, <1>2, <1>3, <1>5

(* A walk that did not run out, and listed nothing twice.                    *)
LEMMA PreOrderLaid ==
  ASSUME NEW t, Typed(t), NEW run \in Seq(Nodes), IsInjective(PreOrder(t, run)),
         \A n \in ToSet(PreOrder(t, run)) : Agree(t, n)
  PROVE  Laid(t, run, PreOrder(t, run))
<1>1. PICK From \in [Nat \X Seq(Nodes) -> Seq(Nodes)] :
            /\ \A queue \in Seq(Nodes) : PreOrder(t, queue) = From[<<Fuel, queue>>]
            /\ \A i \in Nat, queue \in Seq(Nodes) : From[<<i, queue>>] \in Seq(Nodes)
            /\ \A queue \in Seq(Nodes) : From[<<0, queue>>] = <<>>
            /\ \A i \in Nat : From[<<i, <<>> >>] = <<>>
            /\ \A i \in Nat, queue \in Seq(Nodes) \ {<<>>} :
                 From[<<i + 1, queue>>] =
                   <<Head(queue)>> \o From[<<i, Backwards(t, Head(queue)) \o Tail(queue)>>]
  BY PreOrderRule
<1>2. PICK G : G = {n \in Nodes : Agree(t, n)}
  OBVIOUS
<1> DEFINE P(i) == \A queue \in Seq(Nodes) :
                     /\ IsInjective(From[<<i, queue>>]) /\ Len(From[<<i, queue>>]) < i
                     /\ ToSet(From[<<i, queue>>]) \subseteq G
                     => Laid(t, queue, From[<<i, queue>>])
           I == {i \in Nat : P(i)}
<1>3. Laid(t, <<>>, <<>>)
  <2>1. <<>> \in Seq({}) /\ IsInjective(<<>>) /\ ToSet(<<>>) = {}
    BY DEF IsInjective, ToSet
  <2> QED
    BY <2>1 DEF Laid, Listing, ParentsFirst
<1>4. 0 \in I
  <2> SUFFICES ASSUME NEW queue \in Seq(Nodes), Len(From[<<0, queue>>]) < 0
               PROVE  FALSE
    OBVIOUS
  <2>1. Len(<<>>) = 0 /\ From[<<0, queue>>] = <<>>
    BY <1>1
  <2> QED
    BY <2>1
<1>5. ASSUME NEW i \in Nat, i \in I PROVE i + 1 \in I
  <2>0. i + 1 \in Nat
    OBVIOUS
  <2> SUFFICES ASSUME NEW queue \in Seq(Nodes), IsInjective(From[<<i + 1, queue>>]),
                      Len(From[<<i + 1, queue>>]) < i + 1, ToSet(From[<<i + 1, queue>>]) \subseteq G
               PROVE  Laid(t, queue, From[<<i + 1, queue>>])
    BY <2>0, Zenon
  <2>1. CASE queue = <<>>
    BY <1>1, <1>3, <2>1
  <2>2. CASE queue # <<>>
    <3>1. PICK h, rest : h = Head(queue) /\ rest = Tail(queue)
      OBVIOUS
    <3>2. h \in Nodes /\ rest \in Seq(Nodes) /\ queue = <<h>> \o rest
      BY <2>2, <3>1, HeadTailIs
    <3>3. PICK next : next = Backwards(t, h) \o rest
      OBVIOUS
    <3>4. next \in Seq(Nodes)
      <4>1. PICK b : b = Backwards(t, h)
        OBVIOUS
      <4>2. b \in Seq(Nodes)
        BY <3>2, <4>1, BackwardsType
      <4> QED
        BY <3>2, <3>3, <4>1, <4>2, ConcatIs
    <3>5. PICK s : s = From[<<i, next>>]
      OBVIOUS
    <3>6. s \in Seq(Nodes) /\ From[<<i + 1, queue>>] = <<h>> \o s
      BY <1>1, <2>2, <3>1, <3>3, <3>4, <3>5
    <3>7. PICK q : q = <<h>> \o s
      OBVIOUS
    <3>8. /\ q \in Seq(Nodes) /\ Len(q) = Len(s) + 1 /\ Len(s) \in Nat
          /\ ToSet(q) = {h} \cup ToSet(s)
          /\ IsInjective(s)
      <4>1. IsInjective(<<h>> \o s)
        BY <3>6
      <4>2. /\ <<h>> \o s \in Seq(Nodes) /\ Len(<<h>> \o s) = Len(s) + 1
            /\ ToSet(<<h>> \o s) = {h} \cup ToSet(s)
        BY <3>2, <3>6, ConsIs
      <4>3. IsInjective(s)
        BY <3>2, <3>6, <4>1, ConsParts
      <4>4. Len(s) \in Nat
        BY <3>6, SeqIs
      <4> QED
        BY <3>7, <4>2, <4>3, <4>4
    <3>9. Len(s) < i /\ ToSet(s) \subseteq G /\ h \in G
      <4>1. Len(q) < i + 1 /\ ToSet(q) \subseteq G
        BY <3>6, <3>7
      <4> HIDE DEF P, I
      <4> QED
        BY <3>8, <4>1
    <3>10. Laid(t, next, s)
      BY <1>5, <3>4, <3>5, <3>8, <3>9
    <3>11. \A k \in ToSet(Backwards(t, h)) : t.parent[k] = h
      BY <1>2, <3>9 DEF Agree
    <3>12. Laid(t, <<h>> \o rest, <<h>> \o s)
      <4>1. Laid(t, Backwards(t, h) \o rest, s) /\ IsInjective(<<h>> \o s)
        BY <3>3, <3>6, <3>10
      <4> HIDE DEF P, I
      <4> QED
        BY <3>2, <3>6, <3>11, <4>1, LaidNext
    <3> QED
      BY <3>2, <3>6, <3>12
  <2> QED
    BY <2>1, <2>2
<1> HIDE DEF I
<1>6. Nat \subseteq I
  BY <1>4, <1>5, Induction
<1>7. PICK r : r = PreOrder(t, run)
  OBVIOUS
<1>8. r = From[<<Fuel, run>>] /\ r \in Seq(Nodes) /\ Fuel \in Nat
  BY <1>1, <1>7, FuelIs
<1>9. ToSet(r) \subseteq Nodes /\ ToSet(r) \subseteq G
  BY <1>2, <1>7, <1>8, SeqIs
<1>10. Len(r) < Fuel
  <2>1. Cardinality(ToSet(r)) = Len(r)
    BY <1>7, <1>8, SeqCount
  <2>2. Cardinality(ToSet(r)) <= Cardinality(Nodes)
    BY <1>9, DocumentTreeAssumption, FS_Subset
  <2>3. Len(r) \in Nat
    BY <1>8, SeqIs
  <2> QED
    BY <2>1, <2>2, <2>3, FuelIs
<1>11. Laid(t, run, From[<<Fuel, run>>])
  <2>1. IsInjective(From[<<Fuel, run>>])
    BY <1>7, <1>8
  <2> QED
    BY <1>6, <1>8, <1>9, <1>10, <2>1 DEF I
<1> QED
  BY <1>7, <1>8, <1>11

(* The order that lists of children say.                                     *)
After(q, a) == {b \in ToSet(q) : \E i, j \in 1..Len(q) : i < j /\ q[i] = a /\ q[j] = b}
SiblingsAfter(t, K) == [a \in K |-> After(Backwards(t, t.parent[a]), a)]

(* The list of each node of D is that of its children in K, which it is not  *)
(* one of, and in K there are no others.                                     *)
Listed(t, D, K) ==
  /\ D \subseteq Nodes /\ K \subseteq D
  /\ \A n \in D : /\ IsInjective(Backwards(t, n))
                  /\ ToSet(Backwards(t, n)) = ChildrenIn(t, K, n)
                  /\ n \notin ToSet(Backwards(t, n))
                  /\ Agree(t, n)
  /\ \A k \in K : t.parent[k] \in D

LEMMA AfterIs ==
  ASSUME NEW q \in Seq(Nodes), IsInjective(q), NEW i \in 1..Len(q)
  PROVE  \A b : b \in After(q, q[i]) <=> \E j \in 1..Len(q) : i < j /\ q[j] = b
<1>1. /\ DOMAIN q = 1..Len(q)
      /\ \A x : x \in ToSet(q) <=> \E k \in 1..Len(q) : q[k] = x
  BY SeqIs
<1> SUFFICES ASSUME NEW b
             PROVE  b \in After(q, q[i]) <=> \E j \in 1..Len(q) : i < j /\ q[j] = b
  OBVIOUS
<1>2. ASSUME b \in After(q, q[i]) PROVE \E j \in 1..Len(q) : i < j /\ q[j] = b
  <2>1. PICK k, j \in 1..Len(q) : k < j /\ q[k] = q[i] /\ q[j] = b
    BY <1>2 DEF After
  <2>2. k = i
    BY <1>1, <2>1 DEF IsInjective
  <2> QED
    BY <2>1, <2>2
<1>3. ASSUME NEW j \in 1..Len(q), i < j, q[j] = b PROVE b \in After(q, q[i])
  BY <1>1, <1>3 DEF After
<1> QED
  BY <1>2, <1>3

(* Where a is among its siblings.                                            *)
Placed(t, K, later, a, q, i) ==
  /\ q \in Seq(Nodes) /\ i \in 1..Len(q)
  /\ q = Backwards(t, t.parent[a]) /\ q[i] = a /\ IsInjective(q)
  /\ \A x : x \in K /\ t.parent[x] = t.parent[a] <=> \E k \in 1..Len(q) : q[k] = x
  /\ \A b : b \in later[a] <=> \E j \in 1..Len(q) : i < j /\ q[j] = b

LEMMA ListedPlace ==
  ASSUME NEW t, Typed(t), NEW D, NEW K, Listed(t, D, K), NEW a \in K
  PROVE  \E q, i : Placed(t, K, SiblingsAfter(t, K), a, q, i)
<1>1. PICK later : later = SiblingsAfter(t, K)
  OBVIOUS
<1>2. PICK p : p = t.parent[a]
  OBVIOUS
<1>3. p \in D /\ p \in Nodes
  BY <1>2 DEF Listed
<1>4. PICK q : q = Backwards(t, p)
  OBVIOUS
<1>5. q \in Seq(Nodes)
  BY <1>3, <1>4, BackwardsType
<1>6. \A x : x \in ToSet(q) <=> \E k \in 1..Len(q) : q[k] = x
  BY <1>5, SeqIs
<1>7. IsInjective(q) /\ ToSet(q) = ChildrenIn(t, K, p)
  BY <1>3, <1>4 DEF Listed
<1>8. \A x : x \in ToSet(q) <=> x \in K /\ t.parent[x] = p
  BY <1>7 DEF ChildrenIn
<1>9. later[a] = After(q, a)
  BY <1>1, <1>2, <1>4 DEF SiblingsAfter
<1>10. PICK i \in 1..Len(q) : q[i] = a
  BY <1>2, <1>6, <1>8
<1>11. \A b : b \in later[a] <=> \E j \in 1..Len(q) : i < j /\ q[j] = b
  <2>1. \A b : b \in After(q, q[i]) <=> \E j \in 1..Len(q) : i < j /\ q[j] = b
    BY <1>5, <1>7, AfterIs
  <2> QED
    BY <1>9, <1>10, <2>1
<1>12. \A x : x \in K /\ t.parent[x] = p <=> \E k \in 1..Len(q) : q[k] = x
  BY <1>6, <1>8
<1>13. Placed(t, K, later, a, q, i)
  BY <1>2, <1>4, <1>5, <1>7, <1>10, <1>11, <1>12 DEF Placed
<1> QED
  BY <1>1, <1>13

LEMMA PlacedToo ==
  ASSUME NEW t, Typed(t), NEW D, NEW K, Listed(t, D, K), NEW a \in K, NEW b \in K, t.parent[b] = t.parent[a],
         NEW q, NEW i, Placed(t, K, SiblingsAfter(t, K), a, q, i)
  PROVE  \E k : Placed(t, K, SiblingsAfter(t, K), b, q, k)
<1>1. PICK r, k : Placed(t, K, SiblingsAfter(t, K), b, r, k)
  BY ListedPlace
<1>2. r = q
  BY <1>1 DEF Placed
<1> QED
  BY <1>1, <1>2

LEMMA ListedSiblings ==
  ASSUME NEW t, Typed(t), NEW D, NEW K, Listed(t, D, K)
  PROVE  Siblings(t, K, SiblingsAfter(t, K))
<1>1. PICK later : later = SiblingsAfter(t, K)
  OBVIOUS
<1>3. ASSUME NEW a \in K PROVE \E q, i : Placed(t, K, later, a, q, i)
  BY <1>1, ListedPlace
<1>4. ASSUME NEW a \in K
      PROVE  /\ later[a] \subseteq K /\ a \notin later[a]
             /\ \A b \in later[a] : t.parent[b] = t.parent[a] /\ a \notin later[b] /\ later[b] \subseteq later[a]
             /\ \A b \in K : t.parent[a] = t.parent[b] /\ a # b => b \in later[a] \/ a \in later[b]
  <2>0. PICK q, i : Placed(t, K, later, a, q, i)
    BY <1>3
  <2>1. /\ q \in Seq(Nodes) /\ i \in 1..Len(q)
        /\ q = Backwards(t, t.parent[a]) /\ q[i] = a /\ IsInjective(q)
        /\ \A x : x \in K /\ t.parent[x] = t.parent[a] <=> \E k \in 1..Len(q) : q[k] = x
        /\ \A b : b \in later[a] <=> \E j \in 1..Len(q) : i < j /\ q[j] = b
    BY <2>0 DEF Placed
  <2>2. DOMAIN q = 1..Len(q) /\ Len(q) \in Nat
    BY <2>1, SeqIs
  <2>3. \A k, m \in 1..Len(q) : q[k] = q[m] => k = m
    BY <2>1, <2>2 DEF IsInjective
  <2>4. \A b \in K : t.parent[b] = t.parent[a] =>
          \E k \in 1..Len(q) : q[k] = b /\ \A x : x \in later[b] <=> \E j \in 1..Len(q) : k < j /\ q[j] = x
    <3> SUFFICES ASSUME NEW b \in K, t.parent[b] = t.parent[a]
                 PROVE  \E k \in 1..Len(q) : q[k] = b /\ \A x : x \in later[b] <=> \E j \in 1..Len(q) : k < j /\ q[j] = x
      OBVIOUS
    <3>1. PICK k : Placed(t, K, later, b, q, k)
      BY <1>1, <2>0, PlacedToo
    <3> QED
      BY <3>1 DEF Placed
  <2>5. later[a] \subseteq K /\ a \notin later[a]
    BY <2>1, <2>3
  <2>6. ASSUME NEW b \in later[a]
        PROVE  t.parent[b] = t.parent[a] /\ a \notin later[b] /\ later[b] \subseteq later[a]
    <3>1. b \in K /\ t.parent[b] = t.parent[a]
      BY <2>1
    <3>2. PICK j \in 1..Len(q) : i < j /\ q[j] = b
      BY <2>1
    <3>3. PICK k \in 1..Len(q) : q[k] = b /\ \A x : x \in later[b] <=> \E m \in 1..Len(q) : k < m /\ q[m] = x
      BY <2>4, <3>1
    <3>4. k = j
      BY <2>3, <3>2, <3>3
    <3>5. a \notin later[b]
      BY <2>1, <2>2, <2>3, <3>2, <3>3, <3>4
    <3>6. ASSUME NEW x \in later[b] PROVE x \in later[a]
      <4>1. PICK m \in 1..Len(q) : j < m /\ q[m] = x
        BY <3>3, <3>4
      <4>2. i < m
        BY <2>1, <2>2, <3>2, <4>1
      <4> QED
        BY <2>1, <4>1, <4>2
    <3> QED
      BY <3>1, <3>5, <3>6
  <2>7. ASSUME NEW b \in K, t.parent[a] = t.parent[b], a # b PROVE b \in later[a] \/ a \in later[b]
    <3>1. PICK k \in 1..Len(q) : q[k] = b /\ \A x : x \in later[b] <=> \E m \in 1..Len(q) : k < m /\ q[m] = x
      BY <2>4, <2>7
    <3>2. i < k \/ k < i
      BY <2>1, <2>2, <2>7, <3>1
    <3> QED
      BY <2>1, <3>1, <3>2
  <2> QED
    BY <2>5, <2>6, <2>7
<1>5. later \in [K -> SUBSET K]
  <2>1. later = [a \in K |-> After(Backwards(t, t.parent[a]), a)]
    BY <1>1 DEF SiblingsAfter
  <2>2. DOMAIN later = K
    BY <2>1
  <2> QED
    BY <1>4, <2>1, <2>2
<1> QED
  BY <1>1, <1>4, <1>5 DEF Siblings

(* How the pointers lead through the list of p.                              *)
LEMMA ListedPointers ==
  ASSUME NEW t, Typed(t), NEW D, NEW K, Listed(t, D, K), NEW p \in D, NEW q, q = Backwards(t, p)
  PROVE  /\ q \in Seq(Nodes)
         /\ \A j \in 1..(Len(q) - 1) : t.next[q[j]] = q[j + 1] /\ t.prev[q[j + 1]] = q[j]
         /\ q # <<>> => /\ t.next[q[Len(q)]] = None /\ t.prev[q[1]] = None
                        /\ t.first[p] = q[1] /\ t.last[p] = q[Len(q)]
         /\ q = <<>> => t.first[p] = None /\ t.last[p] = None
<1>1. p \in Nodes /\ t.first[p] \in Values /\ t.last[p] \in Values
      /\ t.next \in [Nodes -> Values] /\ t.prev \in [Nodes -> Values]
  BY DEF Listed, Typed
<1>2. PICK f, e, c : f = t.first[p] /\ e = t.last[p] /\ c = Chain(t.prev, e)
  OBVIOUS
<1>3. q = Chain(t.next, f) /\ q = Reverse(c)
  BY <1>2 DEF Listed, Agree, Kids, Backwards
<1>4. PICK N : N = Cardinality(Nodes)
  OBVIOUS
<1>5. /\ q \in Seq(Nodes) /\ Len(q) <= N
      /\ f = None => q = <<>>
      /\ f # None => q # <<>> /\ q[1] = f
      /\ \A j \in 1..(Len(q) - 1) : q[j + 1] = t.next[q[j]]
      /\ q # <<>> /\ Len(q) < N => t.next[q[Len(q)]] = None
  <2>1. PICK d : d = Chain(t.next, f)
    OBVIOUS
  <2>2. /\ d \in Seq(Nodes) /\ Len(d) <= N
        /\ f = None => d = <<>>
        /\ f # None => d # <<>> /\ d[1] = f
        /\ \A j \in 1..(Len(d) - 1) : d[j + 1] = t.next[d[j]]
        /\ d # <<>> /\ Len(d) < N => t.next[d[Len(d)]] = None
    BY <1>1, <1>2, <1>4, <2>1, ChainSound
  <2>3. d = q
    BY <1>3, <2>1
  <2> QED
    BY <2>2, <2>3
<1>6. /\ c \in Seq(Nodes) /\ Len(c) <= N
      /\ e = None => c = <<>>
      /\ e # None => c # <<>> /\ c[1] = e
      /\ \A j \in 1..(Len(c) - 1) : c[j + 1] = t.prev[c[j]]
      /\ c # <<>> /\ Len(c) < N => t.prev[c[Len(c)]] = None
  BY <1>1, <1>2, <1>4, ChainSound
<1>7. /\ Len(q) = Len(c)
      /\ \A i \in 1..Len(c) : Len(c) - i + 1 \in 1..Len(c) /\ q[i] = c[Len(c) - i + 1]
  BY <1>3, <1>6, ReverseIs
<1>8. Len(q) \in Nat /\ Len(c) \in Nat /\ (q = <<>> <=> Len(q) = 0) /\ (c = <<>> <=> Len(c) = 0)
  BY <1>5, <1>6, SeqIs
<1>9. Len(q) < N
  <2>1. IsInjective(q) /\ p \notin ToSet(q) /\ ToSet(q) \subseteq Nodes
    <3>1. ToSet(q) \subseteq Nodes
      BY <1>5, SeqIs
    <3> QED
      BY <3>1 DEF Listed
  <2>2. PICK C : C = ToSet(q)
    OBVIOUS
  <2>3. Cardinality(C) = Len(q) /\ IsFiniteSet(C)
    BY <1>5, <2>1, <2>2, SeqCount
  <2>4. PICK E : E = C \cup {p}
    OBVIOUS
  <2>5. Cardinality(E) = Len(q) + 1
    <3>1. p \notin C
      BY <2>1, <2>2
    <3>2. Cardinality(C \cup {p}) = Cardinality(C) + 1
      BY <2>3, <3>1, FS_AddElement
    <3> QED
      BY <2>3, <2>4, <3>2
  <2>6. Cardinality(E) <= N
    <3>1. E \subseteq Nodes
      BY <1>1, <2>1, <2>2, <2>4
    <3>2. Cardinality(E) <= Cardinality(Nodes)
      BY <3>1, DocumentTreeAssumption, FS_Subset
    <3> QED
      BY <1>4, <3>2
  <2>7. N \in Nat
    BY <1>4, FuelIs
  <2> QED
    BY <1>8, <2>5, <2>6, <2>7
<1>10. ASSUME NEW j \in 1..(Len(q) - 1) PROVE t.next[q[j]] = q[j + 1] /\ t.prev[q[j + 1]] = q[j]
  <2>1. q[j + 1] = t.next[q[j]]
    BY <1>5
  <2>2. PICK k : k = Len(c) - j
    OBVIOUS
  <2>3. k \in 1..(Len(c) - 1) /\ j \in 1..Len(c) /\ j + 1 \in 1..Len(c)
        /\ Len(c) - j + 1 = k + 1 /\ Len(c) - (j + 1) + 1 = k
    BY <1>7, <1>8, <2>2
  <2>4. c[k + 1] = t.prev[c[k]]
    BY <1>6, <2>3
  <2>5. q[j] = c[k + 1] /\ q[j + 1] = c[k]
    BY <1>7, <2>3
  <2> QED
    BY <2>1, <2>4, <2>5
<1>11. ASSUME q # <<>>
       PROVE  /\ t.next[q[Len(q)]] = None /\ t.prev[q[1]] = None /\ f = q[1] /\ e = q[Len(q)]
  <2>1. 1 \in 1..Len(c) /\ Len(c) \in 1..Len(c) /\ Len(c) - 1 + 1 = Len(c) /\ Len(c) - Len(c) + 1 = 1
    BY <1>7, <1>8, <1>11
  <2>2. q[1] = c[Len(c)] /\ q[Len(q)] = c[1]
    BY <1>7, <2>1
  <2> QED
    BY <1>5, <1>6, <1>7, <1>8, <1>9, <1>11, <2>2
<1>12. ASSUME q = <<>> PROVE f = None /\ e = None
  BY <1>5, <1>6, <1>7, <1>8, <1>12
<1> QED
  BY <1>2, <1>5, <1>10, <1>11, <1>12

(* The siblings of a, in order, and how the pointers lead through them.      *)
Row(t, K, later, a, q, i) ==
  /\ Len(q) \in Nat /\ i \in 1..Len(q) /\ q[i] = a
  /\ \A x \in K : t.parent[x] = t.parent[a] <=> \E k \in 1..Len(q) : q[k] = x
  /\ \A k \in 1..Len(q) : q[k] \in K
  /\ \A k, m \in 1..Len(q) : q[k] = q[m] => k = m
  /\ \A b : b \in later[a] <=> \E j \in 1..Len(q) : i < j /\ q[j] = b
  /\ \A x \in K : t.parent[x] = t.parent[a] =>
        \E k \in 1..Len(q) : q[k] = x /\ (a \in later[x] <=> k < i)
  /\ \A x \in K : a \in later[x] => t.parent[x] = t.parent[a]
  /\ \A k, m \in 1..Len(q) : k < m => q[m] \in later[q[k]]
  /\ \A j \in 1..(Len(q) - 1) : t.next[q[j]] = q[j + 1] /\ t.prev[q[j + 1]] = q[j]
  /\ t.next[q[Len(q)]] = None /\ t.prev[q[1]] = None

LEMMA ListedRow ==
  ASSUME NEW t, Typed(t), NEW D, NEW K, Listed(t, D, K), NEW a \in K
  PROVE  \E q, i : Row(t, K, SiblingsAfter(t, K), a, q, i)
<1>L. PICK later : later = SiblingsAfter(t, K)
  OBVIOUS
<1>S. Siblings(t, K, later)
  BY <1>L, ListedSiblings
<1>P. \A k \in K : t.parent[k] \in D
  BY DEF Listed
<1>1. PICK q, i : Placed(t, K, later, a, q, i)
  BY <1>L, ListedPlace
<1>2. /\ q \in Seq(Nodes) /\ i \in 1..Len(q)
      /\ q = Backwards(t, t.parent[a]) /\ q[i] = a /\ IsInjective(q)
      /\ \A x : x \in K /\ t.parent[x] = t.parent[a] <=> \E k \in 1..Len(q) : q[k] = x
      /\ \A b : b \in later[a] <=> \E j \in 1..Len(q) : i < j /\ q[j] = b
  BY <1>1 DEF Placed
<1>3. DOMAIN q = 1..Len(q) /\ Len(q) \in Nat /\ q # <<>>
  BY <1>2, SeqIs
<1>4. \A k, m \in 1..Len(q) : q[k] = q[m] => k = m
  BY <1>2, <1>3 DEF IsInjective
<1>5. \A k \in 1..Len(q) : q[k] \in K /\ t.parent[q[k]] = t.parent[a]
  BY <1>2
<1>6. \A x \in K : t.parent[x] = t.parent[a] =>
         \E k \in 1..Len(q) : q[k] = x /\ \A y : y \in later[x] <=> \E j \in 1..Len(q) : k < j /\ q[j] = y
  <2> SUFFICES ASSUME NEW x \in K, t.parent[x] = t.parent[a]
               PROVE  \E k \in 1..Len(q) : q[k] = x /\ \A y : y \in later[x] <=> \E j \in 1..Len(q) : k < j /\ q[j] = y
    OBVIOUS
  <2>1. PICK k : Placed(t, K, later, x, q, k)
    BY <1>L, <1>1, PlacedToo
  <2> QED
    BY <2>1 DEF Placed
<1>7. \A k, m \in 1..Len(q) : k < m => q[m] \in later[q[k]]
  <2> SUFFICES ASSUME NEW k \in 1..Len(q), NEW m \in 1..Len(q), k < m PROVE q[m] \in later[q[k]]
    OBVIOUS
  <2>1. PICK j \in 1..Len(q) : q[j] = q[k] /\ \A y : y \in later[q[k]] <=> \E n \in 1..Len(q) : j < n /\ q[n] = y
    BY <1>5, <1>6
  <2>2. j = k
    BY <1>4, <2>1
  <2> QED
    BY <2>1, <2>2
<1>8. \A x \in K : t.parent[x] = t.parent[a] => \E k \in 1..Len(q) : q[k] = x /\ (a \in later[x] <=> k < i)
  <2> SUFFICES ASSUME NEW x \in K, t.parent[x] = t.parent[a]
               PROVE  \E k \in 1..Len(q) : q[k] = x /\ (a \in later[x] <=> k < i)
    OBVIOUS
  <2>1. PICK k \in 1..Len(q) : q[k] = x /\ \A y : y \in later[x] <=> \E j \in 1..Len(q) : k < j /\ q[j] = y
    BY <1>6
  <2>2. a \in later[x] <=> k < i
    BY <1>2, <1>4, <2>1
  <2> QED
    BY <2>1, <2>2
<1>9. \A x \in K : a \in later[x] => t.parent[x] = t.parent[a]
  BY <1>S DEF Siblings
<1>10. PICK p : p = t.parent[a]
  OBVIOUS
<1>11. p \in D /\ q = Backwards(t, p)
  BY <1>P, <1>2, <1>10
<1>12. /\ \A j \in 1..(Len(q) - 1) : t.next[q[j]] = q[j + 1] /\ t.prev[q[j + 1]] = q[j]
       /\ t.next[q[Len(q)]] = None /\ t.prev[q[1]] = None
  <2>1. /\ \A j \in 1..(Len(q) - 1) : t.next[q[j]] = q[j + 1] /\ t.prev[q[j + 1]] = q[j]
        /\ q # <<>> => /\ t.next[q[Len(q)]] = None /\ t.prev[q[1]] = None
                       /\ t.first[p] = q[1] /\ t.last[p] = q[Len(q)]
    BY <1>11, ListedPointers
  <2> QED
    BY <1>3, <2>1
<1>13. \A x \in K : t.parent[x] = t.parent[a] <=> \E k \in 1..Len(q) : q[k] = x
  BY <1>2
<1>14. Row(t, K, later, a, q, i)
  BY <1>2, <1>3, <1>4, <1>5, <1>7, <1>8, <1>9, <1>12, <1>13 DEF Row
<1> QED
  BY <1>L, <1>14

LEMMA ListedForest ==
  ASSUME NEW t, Typed(t), NEW D, NEW K, Listed(t, D, K), Grounded(t, K)
  PROVE  Forest(t, D, D \ K, SiblingsAfter(t, K))
<1>1. PICK later : later = SiblingsAfter(t, K)
  OBVIOUS
<1>2. PICK T : T = D \ K
  OBVIOUS
<1>3. D \ T = K /\ T \subseteq D /\ D \subseteq Nodes /\ K \subseteq D
  BY <1>2 DEF Listed
<1>4. Siblings(t, K, later)
  BY <1>1, ListedSiblings
<1>5. \A k \in K : t.parent[k] \in D
  BY DEF Listed
<1>6. ASSUME NEW a \in K PROVE \E q, i : Row(t, K, later, a, q, i)
  BY <1>1, ListedRow
<1>7. None \notin K
  BY <1>3, DocumentTreeAssumption
<1>8. LinkedOn(t, K, later)
  <2> SUFFICES ASSUME NEW a \in K
               PROVE  /\ t.next[a] = None => later[a] = {}
                      /\ t.next[a] # None =>
                           /\ t.next[a] \in later[a]
                           /\ \A b \in later[a] : b = t.next[a] \/ b \in later[t.next[a]]
    BY DEF LinkedOn
  <2>1. PICK q, i : Row(t, K, later, a, q, i)
    BY <1>6
  <2>2. CASE i = Len(q)
    <3>1. t.next[a] = None
      BY <2>1, <2>2 DEF Row
    <3>2. later[a] = {}
      <4>1. \A b : b \notin later[a]
        BY <2>1, <2>2 DEF Row
      <4> QED
        BY <4>1
    <3> QED
      BY <3>1, <3>2
  <2>3. CASE i # Len(q)
    <3>1. i \in 1..(Len(q) - 1) /\ i + 1 \in 1..Len(q) /\ i < i + 1
      BY <2>1, <2>3 DEF Row
    <3>2. PICK m : m = q[i + 1]
      OBVIOUS
    <3>3. t.next[a] = m /\ m \in later[a] /\ m \in K
      BY <2>1, <3>1, <3>2 DEF Row
    <3>4. ASSUME NEW b \in later[a], b # m PROVE b \in later[m]
      <4>1. PICK j \in 1..Len(q) : i < j /\ q[j] = b
        BY <2>1, <3>4 DEF Row
      <4>2. i + 1 < j
        BY <2>1, <3>1, <3>2, <3>4, <4>1 DEF Row
      <4> QED
        BY <2>1, <3>1, <3>2, <4>1, <4>2 DEF Row
    <3> QED
      BY <1>7, <3>3, <3>4
  <2> QED
    BY <2>2, <2>3
<1>9. LinkedBack(t, K, later)
  <2> SUFFICES ASSUME NEW a \in K
               PROVE  /\ t.prev[a] = None => \A b \in K : a \notin later[b]
                      /\ t.prev[a] # None =>
                           /\ t.prev[a] \in K /\ a \in later[t.prev[a]]
                           /\ \A b \in K : a \in later[b] => b = t.prev[a] \/ t.prev[a] \in later[b]
    BY DEF LinkedBack
  <2>1. PICK q, i : Row(t, K, later, a, q, i)
    BY <1>6
  <2>5. \A b \in K : a \in later[b] => \E k \in 1..Len(q) : q[k] = b /\ k < i
    <3> SUFFICES ASSUME NEW b \in K, a \in later[b] PROVE \E k \in 1..Len(q) : q[k] = b /\ k < i
      OBVIOUS
    <3>1. t.parent[b] = t.parent[a]
      BY <2>1 DEF Row
    <3> QED
      BY <2>1, <3>1 DEF Row
  <2>2. CASE i = 1
    <3>1. t.prev[a] = None
      BY <2>1, <2>2 DEF Row
    <3>2. \A b \in K : a \notin later[b]
      BY <2>2, <2>5
    <3> QED
      BY <3>1, <3>2
  <2>3. CASE i # 1
    <3>1. PICK j : j = i - 1
      OBVIOUS
    <3>2. j \in 1..(Len(q) - 1) /\ j + 1 = i /\ j \in 1..Len(q) /\ j < i /\ i \in 1..Len(q)
      BY <2>1, <2>3, <3>1 DEF Row
    <3>3. PICK m : m = q[j]
      OBVIOUS
    <3>4. t.prev[a] = m /\ m \in K /\ a \in later[m]
      BY <2>1, <3>2, <3>3 DEF Row
    <3>5. ASSUME NEW b \in K, a \in later[b], b # m PROVE m \in later[b]
      <4>1. PICK k \in 1..Len(q) : q[k] = b /\ k < i
        BY <2>5, <3>5
      <4>2. k < j
        BY <2>1, <3>2, <3>3, <3>5, <4>1 DEF Row
      <4> QED
        BY <2>1, <3>2, <3>3, <4>1, <4>2 DEF Row
    <3> QED
      BY <1>7, <3>4, <3>5
  <2> QED
    BY <2>2, <2>3
<1>10. Ends(t, D, K, later)
  <2> SUFFICES ASSUME NEW n \in D
               PROVE  /\ t.first[n] = None => \A k \in K : t.parent[k] # n
                      /\ t.first[n] # None =>
                           /\ t.first[n] \in K /\ t.parent[t.first[n]] = n
                           /\ \A k \in K : t.parent[k] = n => k = t.first[n] \/ k \in later[t.first[n]]
                      /\ t.last[n] = None => \A k \in K : t.parent[k] # n
                      /\ t.last[n] # None =>
                           /\ t.last[n] \in K /\ t.parent[t.last[n]] = n
                           /\ \A k \in K : t.parent[k] = n => k = t.last[n] \/ t.last[n] \in later[k]
    BY DEF Ends
  <2>1. PICK q : q = Backwards(t, n)
    OBVIOUS
  <2>2. /\ q \in Seq(Nodes)
        /\ q # <<>> => t.first[n] = q[1] /\ t.last[n] = q[Len(q)]
        /\ q = <<>> => t.first[n] = None /\ t.last[n] = None
    BY <2>1, ListedPointers
  <2>3. ToSet(q) = {k \in K : t.parent[k] = n} /\ IsInjective(q)
    BY <2>1 DEF Listed, ChildrenIn
  <2>4. /\ DOMAIN q = 1..Len(q) /\ Len(q) \in Nat
        /\ (q = <<>> <=> Len(q) = 0)
        /\ \A x : x \in ToSet(q) <=> \E i \in 1..Len(q) : q[i] = x
    BY <2>2, SeqIs
  <2>5. CASE q = <<>>
    BY <2>2, <2>3, <2>4, <2>5
  <2>6. CASE q # <<>>
    <3>1. PICK f, e : f = q[1] /\ e = q[Len(q)]
      OBVIOUS
    <3>2. 1 \in 1..Len(q) /\ Len(q) \in 1..Len(q)
      BY <2>4, <2>6
    <3>3. f \in K /\ e \in K /\ t.parent[f] = n /\ t.parent[e] = n
      BY <2>3, <2>4, <3>1, <3>2
    <3>4. ASSUME NEW k \in K, t.parent[k] = n
          PROVE  (k = f \/ k \in later[f]) /\ (k = e \/ e \in later[k])
      <4>1. PICK r, i : Row(t, K, later, k, r, i)
        BY <1>6
      <4>2. PICK m \in 1..Len(q) : q[m] = k
        BY <2>3, <2>4, <3>4
      <4>3. PICK s, j : Placed(t, K, later, f, s, j)
        BY <1>1, <3>3, ListedPlace
      <4>4. s = q /\ s[j] = f /\ j \in 1..Len(q)
            /\ \A b : b \in later[f] <=> \E x \in 1..Len(q) : j < x /\ q[x] = b
        BY <2>1, <3>3, <4>3 DEF Placed
      <4>5. j = 1
        BY <2>3, <2>4, <3>1, <3>2, <4>4 DEF IsInjective
      <4>6. k = f \/ k \in later[f]
        BY <2>4, <3>1, <4>2, <4>4, <4>5
      <4>7. PICK u, l : Placed(t, K, later, k, u, l)
        BY <1>1, ListedPlace
      <4>8. u = q /\ u[l] = k /\ l \in 1..Len(q)
            /\ \A b : b \in later[k] <=> \E x \in 1..Len(q) : l < x /\ q[x] = b
        BY <2>1, <3>4, <4>7 DEF Placed
      <4>9. k = e \/ e \in later[k]
        BY <2>4, <3>1, <3>2, <4>8
      <4> QED
        BY <4>6, <4>9
    <3> QED
      BY <1>7, <2>2, <2>6, <3>1, <3>3, <3>4
  <2> QED
    BY <2>5, <2>6
<1> QED
  BY <1>1, <1>2, <1>3, <1>4, <1>5, <1>8, <1>9, <1>10 DEF Forest

LEMMA ParentsFirstGrounded ==
  ASSUME NEW t, NEW D, NEW r \in Seq(D), IsInjective(r), ToSet(r) = D,
         NEW K, K \subseteq D, ParentsFirst(t, K, r)
  PROVE  Grounded(t, K)
<1> SUFFICES ASSUME NEW A, A \subseteq K, \A n \in A : t.parent[n] \in A, A # {} PROVE FALSE
  BY DEF Grounded
<1>1. PICK I : I = {i \in 1..Len(r) : r[i] \in A}
  OBVIOUS
<1>2. /\ Len(r) \in Nat /\ DOMAIN r = 1..Len(r)
      /\ \A x : x \in D <=> \E i \in 1..Len(r) : r[i] = x
  BY SeqIs
<1>3. I \subseteq Nat /\ I # {}
  <2>1. PICK n : n \in A
    OBVIOUS
  <2>2. PICK i \in 1..Len(r) : r[i] = n
    BY <1>2, <2>1
  <2> QED
    BY <1>1, <1>2, <2>1, <2>2
<1>4. PICK x \in I : \A y \in I : x <= y
  BY <1>3, Least
<1>5. PICK i, j \in 1..Len(r) : i < j /\ r[j] = r[x] /\ r[i] = t.parent[r[x]]
  BY <1>1 DEF ParentsFirst
<1>6. j = x
  BY <1>1, <1>2, <1>5 DEF IsInjective
<1>7. i \in I
  BY <1>1, <1>5
<1> QED
  BY <1>2, <1>3, <1>4, <1>5, <1>6, <1>7

LEMMA LaidForest ==
  ASSUME NEW t, Typed(t), NEW run \in Seq(Nodes), NEW r \in Seq(Nodes), Laid(t, run, r),
         \A n \in ToSet(r) : Agree(t, n)
  PROVE  \E later : Forest(t, ToSet(r), ToSet(run), later)
<1>1. PICK D, T : D = ToSet(r) /\ T = ToSet(run)
  OBVIOUS
<1>2. PICK K : K = D \ T
  OBVIOUS
<1>3. /\ r \in Seq(D) /\ IsInjective(r) /\ ToSet(r) = D /\ ParentsFirst(t, K, r)
      /\ T \subseteq D /\ D \subseteq Nodes /\ K \subseteq D /\ D \ K = T
  <2>1. D \subseteq Nodes
    BY <1>1, SeqIs
  <2> QED
    BY <1>1, <1>2, <2>1 DEF Laid, Listing
<1>4. Grounded(t, K)
  BY <1>3, ParentsFirstGrounded
<1>5. ASSUME NEW n \in D
      PROVE  /\ IsInjective(Backwards(t, n))
             /\ ToSet(Backwards(t, n)) = ChildrenIn(t, K, n)
             /\ n \notin ToSet(Backwards(t, n))
             /\ Agree(t, n)
  <2>1. PICK q : q = Backwards(t, n)
    OBVIOUS
  <2>2. Agree(t, n) /\ IsInjective(q) /\ ToSet(q) \subseteq K
    BY <1>1, <1>2, <2>1 DEF Laid
  <2>3. \A k \in ToSet(q) : t.parent[k] = n
    BY <2>1, <2>2 DEF Agree
  <2>4. ASSUME NEW k \in K, t.parent[k] = n PROVE k \in ToSet(q)
    BY <1>1, <1>2, <2>1, <2>4 DEF Laid
  <2>5. ToSet(q) = ChildrenIn(t, K, n)
    BY <2>2, <2>3, <2>4 DEF ChildrenIn
  <2>6. n \notin ToSet(q)
    <3> SUFFICES ASSUME n \in ToSet(q) PROVE FALSE
      OBVIOUS
    <3>1. {n} \in SUBSET K /\ \A m \in {n} : t.parent[m] \in {n}
      BY <2>2, <2>3
    <3> QED
      BY <1>4, <3>1 DEF Grounded
  <2> QED
    BY <2>1, <2>2, <2>5, <2>6
<1>6. \A k \in K : t.parent[k] \in D
  <2> SUFFICES ASSUME NEW k \in K PROVE t.parent[k] \in D
    OBVIOUS
  <2>1. PICK i \in 1..Len(r) : r[i] = t.parent[k]
    BY <1>3 DEF ParentsFirst
  <2> QED
    BY <1>3, <2>1, SeqIs
<1>7. Listed(t, D, K)
  BY <1>3, <1>5, <1>6 DEF Listed
<1>8. Forest(t, D, D \ K, SiblingsAfter(t, K))
  BY <1>4, <1>7, ListedForest
<1> QED
  BY <1>1, <1>3, <1>8

LEMMA PreOrderType ==
  ASSUME NEW t, Typed(t), NEW run \in Seq(Nodes)
  PROVE  PreOrder(t, run) \in Seq(Nodes)
<1>1. PICK From \in [Nat \X Seq(Nodes) -> Seq(Nodes)] :
            /\ \A queue \in Seq(Nodes) : PreOrder(t, queue) = From[<<Fuel, queue>>]
            /\ \A i \in Nat, queue \in Seq(Nodes) : From[<<i, queue>>] \in Seq(Nodes)
            /\ \A queue \in Seq(Nodes) : From[<<0, queue>>] = <<>>
            /\ \A i \in Nat : From[<<i, <<>> >>] = <<>>
            /\ \A i \in Nat, queue \in Seq(Nodes) \ {<<>>} :
                 From[<<i + 1, queue>>] =
                   <<Head(queue)>> \o From[<<i, Backwards(t, Head(queue)) \o Tail(queue)>>]
  BY PreOrderRule
<1> QED
  BY <1>1, FuelIs

LEMMA OneIs ==
  ASSUME NEW S, NEW x \in S
  PROVE  <<x>> \in Seq(S) /\ ToSet(<<x>>) = {x} /\ IsInjective(<<x>>) /\ Len(<<x>>) = 1
         /\ Head(<<x>>) = x /\ Last(<<x>>) = x
  BY DEF ToSet, IsInjective, Last

LEMMA PreOrderForest ==
  ASSUME NEW t, Typed(t), NEW run \in Seq(Nodes), IsInjective(PreOrder(t, run)),
         \A n \in ToSet(PreOrder(t, run)) : Agree(t, n)
  PROVE  /\ ToSet(run) \subseteq ToSet(PreOrder(t, run)) /\ IsInjective(run)
         /\ \E later : Forest(t, ToSet(PreOrder(t, run)), ToSet(run), later)
<1>1. PICK r : r = PreOrder(t, run)
  OBVIOUS
<1>2. r \in Seq(Nodes)
  BY <1>1, PreOrderType
<1>3. Laid(t, run, r)
  BY <1>1, PreOrderLaid
<1>4. \E later : Forest(t, ToSet(r), ToSet(run), later)
  BY <1>1, <1>2, <1>3, LaidForest
<1> QED
  BY <1>1, <1>3, <1>4 DEF Laid

-----------------------------------------------------------------------------
(* The root is nobody's child.                                               *)
Alone(t) == t.parent[Root] = None /\ t.prev[Root] = None /\ t.next[Root] = None

LEMMA TypedIs ==
  ASSUME NEW t, TreeType(t)
  PROVE  Typed(t) /\ t.live \subseteq Nodes /\ t.val \in [Nodes -> Values]
  BY DEF TreeType, Typed

LEMMA TreeForest ==
  ASSUME NEW t, IsTree(t)
  PROVE  \E later : Forest(t, t.live, {Root}, later)
<1>1. Typed(t) /\ t.live \subseteq Nodes
  BY TypedIs DEF IsTree
<1>2. PICK run : run = <<Root>>
  OBVIOUS
<1>3. run \in Seq(Nodes) /\ ToSet(run) = {Root}
  BY <1>2, DocumentTreeAssumption DEF ToSet
<1>4. PICK r : r = PreOrder(t, run)
  OBVIOUS
<1>5. r \in Seq(Nodes)
  BY <1>1, <1>3, <1>4, PreOrderType
<1>6. ToSet(r) = t.live /\ Len(r) = Cardinality(t.live) /\ \A n \in t.live : Agree(t, n)
  BY <1>2, <1>4 DEF IsTree
<1>7. IsInjective(r)
  BY <1>5, <1>6, SeqCount
<1>8. \E later : Forest(t, ToSet(r), ToSet(run), later)
  <2>1. IsInjective(PreOrder(t, run)) /\ \A n \in ToSet(PreOrder(t, run)) : Agree(t, n)
    BY <1>4, <1>6, <1>7
  <2> QED
    BY <1>1, <1>3, <1>4, <2>1, PreOrderForest
<1> QED
  BY <1>3, <1>6, <1>8

LEMMA ForestTree ==
  ASSUME NEW t, TreeType(t), Alone(t), NEW later, Forest(t, t.live, {Root}, later)
  PROVE  IsTree(t)
<1>1. Typed(t) /\ t.live \subseteq Nodes
  BY TypedIs
<1>2. PICK run, D : run = <<Root>> /\ D = t.live
  OBVIOUS
<1>3. Root \in D
  BY <1>2 DEF Forest
<1>4. run \in Seq(D) /\ ToSet(run) = {Root} /\ IsInjective(run)
  BY <1>2, <1>3, OneIs
<1>5. Forest(t, D, {Root}, later)
  BY <1>2
<1>6. Frontier(t, D, {Root}, D, run)
  BY <1>4, <1>5 DEF Frontier, Forest
<1>7. PICK r : r = PreOrder(t, run)
  OBVIOUS
<1>8. Listing(t, D, run, r)
  BY <1>5, <1>6, <1>7, PreOrderCovers
<1>9. r \in Seq(D) /\ IsInjective(r) /\ ToSet(r) = D
  BY <1>8 DEF Listing
<1>10. Len(r) = Cardinality(D)
  BY <1>9, SeqCount
<1>11. \A n \in D : Agree(t, n)
  BY <1>5, ForestAgrees
<1>12. <<t.parent[Root], t.prev[Root], t.next[Root]>> = <<None, None, None>>
  BY DEF Alone
<1> QED
  BY <1>2, <1>7, <1>9, <1>10, <1>11, <1>12 DEF IsTree

-----------------------------------------------------------------------------
(* Some nodes and all that is below them.                                    *)
LEMMA ClimbsOn ==
  ASSUME NEW to \in [Nodes -> Values], NEW D, D \subseteq Nodes, NEW above, Climbs(to, D, above),
         NEW n \in D, NEW m \in above[n]
  PROVE  above[m] \subseteq above[n]
<1>1. PICK q : q = Chain(to, n)
  OBVIOUS
<1>2. /\ q \in Seq(D) /\ q[1] = n /\ ToSet(q) = {n} \cup above[n]
      /\ \A j \in 1..(Len(q) - 1) : q[j + 1] = to[q[j]]
  <2>1. Way(q, to, D, above, n)
    BY <1>1, ChainIs
  <2> QED
    BY <2>1 DEF Way
<1>3. /\ Len(q) \in Nat
      /\ \A i \in 1..Len(q) : q[i] \in D
      /\ \A x : x \in ToSet(q) <=> \E i \in 1..Len(q) : q[i] = x
  BY <1>2, SeqIs
<1> DEFINE I == {j \in Nat : j + 1 <= Len(q) => above[q[j + 1]] \subseteq above[n]}
<1>4. 0 \in I
  BY <1>2
<1>5. ASSUME NEW j \in Nat, j \in I PROVE j + 1 \in I
  <2> SUFFICES ASSUME j + 1 + 1 <= Len(q) PROVE above[q[j + 1 + 1]] \subseteq above[n]
    OBVIOUS
  <2>1. j + 1 \in 1..(Len(q) - 1) /\ j + 1 \in 1..Len(q) /\ j + 1 + 1 \in 1..Len(q)
    BY <1>3
  <2>2. above[q[j + 1]] \subseteq above[n]
    BY <1>5, <2>1
  <2>3. PICK x, y : x = q[j + 1] /\ y = q[j + 1 + 1]
    OBVIOUS
  <2>4. x \in D /\ y \in D /\ y = to[x]
    BY <1>2, <1>3, <2>1, <2>3
  <2>5. y # None
    BY <2>4, DocumentTreeAssumption
  <2>6. above[x] = {y} \cup above[y]
    BY <2>4, <2>5 DEF Climbs
  <2> QED
    BY <2>2, <2>3, <2>6
<1> HIDE DEF I
<1>6. Nat \subseteq I
  BY <1>4, <1>5, Induction
<1>7. PICK i \in 1..Len(q) : q[i] = m
  BY <1>2, <1>3
<1>8. PICK j \in Nat : i = j + 1
  <2>1. i - 1 \in Nat /\ i = (i - 1) + 1
    BY <1>3
  <2> QED
    BY <2>1
<1>9. j + 1 <= Len(q)
  BY <1>3, <1>7, <1>8
<1> QED
  BY <1>6, <1>7, <1>8, <1>9 DEF I

Tops(D, R, t, T) == \A n \in D : n \in R <=> (n \in T \/ t.parent[n] \notin D)
Closed(t, S, T, D) == \A k \in S \ T : t.parent[k] \in D => k \in D
(* R are siblings, D are they and all below them.                            *)
Bough(t, S, T, R, D, p) ==
  /\ R \subseteq S \ T /\ R # {} /\ p \in S /\ \A r \in R : t.parent[r] = p
  /\ D \subseteq S /\ D \cap T = {} /\ Closed(t, S, T, D) /\ Tops(D, R, t, T) /\ R \subseteq D /\ p \notin D
(* What is below them is what they are above.                                *)
BoughOf(t, S, T, R, D, p, above) ==
  /\ Bough(t, S, T, R, D, p) /\ Climbs(UpIn(t, S, T), S, above)
  /\ \A n \in S : n \in D <=> (n \in R \/ above[n] \cap R # {})

LEMMA BoughExists ==
  ASSUME NEW t, NEW S, NEW T, NEW later, Forest(t, S, T, later),
         NEW R, R # {}, R \subseteq S \ T, NEW p \in S, \A r \in R : t.parent[r] = p
  PROVE  \E D, above : BoughOf(t, S, T, R, D, p, above)
<1>1. PICK above : Climbs(UpIn(t, S, T), S, above)
  BY AncestorsExist
<1>2. PICK D : D = {n \in S : n \in R \/ above[n] \cap R # {}}
  OBVIOUS
<1>3. S \subseteq Nodes /\ T \subseteq S /\ None \notin S /\ \A k \in S \ T : t.parent[k] \in S
  BY DocumentTreeAssumption DEF Forest
<1>4. \A k \in S \ T : above[k] = {t.parent[k]} \cup above[t.parent[k]] /\ k \notin above[k]
  BY <1>1, <1>3 DEF Climbs, UpIn
<1>5. \A k \in T : above[k] = {}
  BY <1>1, <1>3 DEF Climbs, UpIn
<1>6. above \in [S -> SUBSET S]
  BY <1>1 DEF Climbs
<1>7. D \cap T = {} /\ R \subseteq D /\ D \subseteq S
  BY <1>2, <1>5
<1>8. Closed(t, S, T, D)
  BY <1>2, <1>3, <1>4 DEF Closed
<1>9. p \notin D
  <2> SUFFICES ASSUME p \in D PROVE FALSE
    OBVIOUS
  <2>1. p \notin R
    <3> SUFFICES ASSUME p \in R PROVE FALSE
      OBVIOUS
    <3>1. p \in S \ T /\ t.parent[p] = p
      OBVIOUS
    <3> QED
      BY <1>4, <3>1
  <2>2. PICK r \in R : r \in above[p]
    BY <1>2, <2>1
  <2>3. p \in above[r]
    BY <1>4
  <2>4. PICK up : up = [n \in Nodes |-> IF n \in S THEN UpIn(t, S, T)[n] ELSE None]
    OBVIOUS
  <2>5. up \in [Nodes -> Values] /\ \A n \in S : up[n] = UpIn(t, S, T)[n]
    <3>1. \A n \in S : UpIn(t, S, T)[n] \in Values
      BY <1>3 DEF UpIn, Values
    <3> QED
      BY <1>3, <2>4, <3>1 DEF Values
  <2>6. Climbs(up, S, above)
    BY <1>1, <2>5 DEF Climbs
  <2>7. above[r] \subseteq above[p]
    BY <1>3, <2>2, <2>5, <2>6, ClimbsOn
  <2>8. p \in above[p]
    BY <2>3, <2>7
  <2> QED
    BY <1>1, <2>8 DEF Climbs
<1>10. Tops(D, R, t, T)
  <2> SUFFICES ASSUME NEW n \in D PROVE n \in R <=> t.parent[n] \notin D
    BY <1>7 DEF Tops
  <2>1. n \in S \ T
    BY <1>7
  <2>2. ASSUME n \notin R PROVE t.parent[n] \in D
    BY <1>2, <1>3, <1>4, <2>1, <2>2
  <2> QED
    BY <1>9, <2>2
<1>11. Bough(t, S, T, R, D, p)
  BY <1>7, <1>8, <1>9, <1>10 DEF Bough
<1>12. \A n \in S : n \in D <=> (n \in R \/ above[n] \cap R # {})
  BY <1>2
<1>13. BoughOf(t, S, T, R, D, p, above)
  BY <1>1, <1>11, <1>12 DEF BoughOf
<1> QED
  BY <1>13

(* What PreOrder finds is that.                                              *)
LEMMA UnderIs ==
  ASSUME NEW t, NEW S, NEW T, NEW later, Forest(t, S, T, later),
         NEW R, NEW D, NEW run \in Seq(R), IsInjective(run), ToSet(run) = R,
         R \subseteq D, D \subseteq S, Closed(t, S, T, D), Tops(D, R, t, T)
  PROVE  Under(t, run) = D /\ Listing(t, D, run, PreOrder(t, run))
<1>1. run \in Seq(D)
  BY SeqMonotonic
<1>2. Frontier(t, S, T, D, run)
  BY <1>1 DEF Frontier, Closed, Tops
<1>3. PICK r : r = PreOrder(t, run)
  OBVIOUS
<1>4. Listing(t, D, run, r)
  BY <1>2, <1>3, PreOrderCovers
<1>5. r \in Seq(D) /\ ToSet(r) = D
  BY <1>4 DEF Listing
<1>6. \A n : Contains(r, n) <=> n \in D
  BY <1>5, SeqIs
<1>7. \A n : Contains(run, n) <=> n \in R
  BY SeqIs
<1>8. D \subseteq Nodes
  BY DEF Forest
<1>9. Under(t, run) = D
  BY <1>3, <1>6, <1>7, <1>8 DEF Under
<1> QED
  BY <1>3, <1>4, <1>9

-----------------------------------------------------------------------------
(* The siblings from a to b.                                                 *)
Between(K, later, a, b) ==
  {n \in K : (n = a \/ n \in later[a]) /\ (n = b \/ b \in later[n])}

LEMMA RunIs ==
  ASSUME NEW t, NEW S, NEW T, NEW later, Forest(t, S, T, later), NEW a \in S \ T, NEW b,
         Contains(Chain(t.next, a), b)
  PROVE  LET R == Between(S \ T, later, a, b)   run == Run(t, a, b) IN
         /\ b \in S \ T /\ (b = a \/ b \in later[a])
         /\ InOrder(run, S \ T, later, R) /\ IsInjective(run) /\ run \in Seq(R)
         /\ run # <<>> /\ Head(run) = a /\ Last(run) = b /\ a \in R /\ b \in R
         /\ \A r \in R : t.parent[r] = t.parent[a]
<1>1. PICK K, q : K = S \ T /\ q = Chain(t.next, a)
  OBVIOUS
<1>2. /\ K \subseteq Nodes /\ a \in K /\ Climbs(t.next, K, later) /\ t.next \in [Nodes -> Values]
      /\ Siblings(t, K, later)
  BY <1>1, NextClimbs DEF Forest, Typed
<1>3. /\ q \in Seq(K) /\ q # <<>> /\ q[1] = a /\ ToSet(q) = {a} \cup later[a]
      /\ \A i, j \in 1..Len(q) : i < j => q[j] \in later[q[i]]
  <2>1. Way(q, t.next, K, later, a)
    BY <1>1, <1>2, ChainIs
  <2> QED
    BY <2>1 DEF Way
<1>4. /\ Len(q) \in Nat /\ DOMAIN q = 1..Len(q)
      /\ \A i \in 1..Len(q) : q[i] \in K
      /\ \A x : x \in ToSet(q) <=> \E i \in 1..Len(q) : q[i] = x
      /\ \A x : Contains(q, x) <=> x \in ToSet(q)
  BY <1>3, SeqIs
<1>5. b \in ToSet(q)
  BY <1>1, <1>4
<1>6. PICK c : c = CHOOSE i \in DOMAIN q : q[i] = b
  OBVIOUS
<1>7. c \in 1..Len(q) /\ q[c] = b
  BY <1>4, <1>5, <1>6
<1>8. PICK run : run = SubSeq(q, 1, c)
  OBVIOUS
<1>9. run = Run(t, a, b)
  BY <1>1, <1>6, <1>8 DEF Run
<1>10. run \in Seq(K) /\ Len(run) = c /\ \A i \in 1..c : run[i] = q[i] /\ i \in 1..Len(q)
  BY <1>3, <1>4, <1>7, <1>8, SubSeqProperties
<1>11. PICK R : R = Between(K, later, a, b)
  OBVIOUS
<1>12. /\ \A x \in K : x \notin later[x]
       /\ \A x, y \in K : y \in later[x] => x \notin later[y] /\ t.parent[y] = t.parent[x]
       /\ later \in [K -> SUBSET K]
  BY <1>2 DEF Siblings
<1>13. ASSUME NEW i \in 1..c PROVE run[i] \in R
  <2>1. run[i] = q[i] /\ i \in 1..Len(q) /\ q[i] \in ToSet(q) /\ q[i] \in K
    BY <1>4, <1>10
  <2>2. q[i] = a \/ q[i] \in later[a]
    BY <1>3, <2>1
  <2>3. q[i] = b \/ b \in later[q[i]]
    BY <1>3, <1>4, <1>7, <2>1
  <2> QED
    BY <1>11, <2>1, <2>2, <2>3 DEF Between
<1>14. ASSUME NEW n \in R PROVE \E i \in 1..c : run[i] = n
  <2>1. n \in K /\ (n = a \/ n \in later[a]) /\ (n = b \/ b \in later[n])
    BY <1>11 DEF Between
  <2>2. PICK i \in 1..Len(q) : q[i] = n
    BY <1>3, <1>4, <2>1
  <2>3. i <= c
    <3> SUFFICES ASSUME c < i PROVE FALSE
      BY <1>4, <1>7
    <3>1. n \in later[b]
      BY <1>3, <1>7, <2>2
    <3> QED
      BY <1>4, <1>7, <1>12, <2>1, <3>1
  <2> QED
    BY <1>4, <1>7, <1>10, <2>2, <2>3
<1>15. ToSet(run) = R
  <2>1. \A x : x \in ToSet(run) <=> \E i \in 1..c : run[i] = x
    BY <1>10, SeqIs
  <2> QED
    BY <1>13, <1>14, <2>1
<1>16. InOrder(run, K, later, R)
  <2>1. \A i, j \in 1..Len(run) : i < j => run[j] \in later[run[i]]
    BY <1>3, <1>10
  <2> QED
    BY <1>10, <1>15, <2>1 DEF InOrder
<1>17. IsInjective(run)
  BY <1>12, <1>16, InOrderInjective
<1>18. run \in Seq(R)
  <2>1. run \in [1..c -> R] /\ c \in Nat
    BY <1>4, <1>7, <1>10, <1>13, SeqIs
  <2> QED
    BY <2>1, SeqDef
<1>19. run # <<>> /\ run[1] = a /\ run[Len(run)] = b
  <2>1. 1 \in 1..c /\ c \in 1..c
    BY <1>4, <1>7
  <2>2. run # <<>>
    BY <1>10, <1>7, SeqIs
  <2> QED
    BY <1>3, <1>7, <1>10, <2>1, <2>2
<1>20. Head(run) = a /\ Last(run) = b
  BY <1>10, <1>19, HeadTailIs DEF Last
<1>21. a \in R /\ b \in R /\ b \in K /\ (b = a \/ b \in later[a])
  <2>1. b \in K /\ (b = a \/ b \in later[a])
    BY <1>3, <1>4, <1>5, <1>7
  <2> QED
    BY <1>2, <1>11, <2>1 DEF Between
<1>22. \A r \in R : t.parent[r] = t.parent[a]
  BY <1>2, <1>11, <1>12 DEF Between
<1> QED
  BY <1>1, <1>9, <1>11, <1>16, <1>17, <1>18, <1>19, <1>20, <1>21, <1>22

-----------------------------------------------------------------------------
(* Taking a bough off.                                                       *)
Only(later, K) == [k \in K |-> later[k] \cap K]

LEMMA GroundedIn ==
  ASSUME NEW t, NEW K, Grounded(t, K), NEW J, J \subseteq K, NEW u, \A k \in J : u.parent[k] = t.parent[k]
  PROVE  Grounded(u, J)
  BY DEF Grounded

LEMMA SiblingsOnly ==
  ASSUME NEW t, NEW K, NEW later, Siblings(t, K, later), NEW J, J \subseteq K,
         NEW u, \A k \in J : u.parent[k] = t.parent[k]
  PROVE  Siblings(u, J, Only(later, J))
<1>1. PICK less : less = Only(later, J)
  OBVIOUS
<1>2. less \in [J -> SUBSET J] /\ \A k \in J : less[k] = later[k] \cap J
  BY <1>1 DEF Only
<1>3. /\ \A a \in K : a \notin later[a]
      /\ \A a \in K : \A b \in later[a] :
           t.parent[b] = t.parent[a] /\ a \notin later[b] /\ later[b] \subseteq later[a]
      /\ \A a, b \in K : t.parent[a] = t.parent[b] /\ a # b => b \in later[a] \/ a \in later[b]
  BY DEF Siblings
<1>4. \A a \in J : a \notin less[a]
  BY <1>2, <1>3
<1>5. ASSUME NEW a \in J, NEW b \in less[a]
      PROVE  u.parent[b] = u.parent[a] /\ a \notin less[b] /\ less[b] \subseteq less[a]
  <2>1. b \in J /\ b \in later[a] /\ a \in K
    BY <1>2
  <2>2. t.parent[b] = t.parent[a] /\ a \notin later[b] /\ later[b] \subseteq later[a]
    BY <1>3, <2>1
  <2> QED
    BY <1>2, <2>1, <2>2
<1>6. \A a, b \in J : u.parent[a] = u.parent[b] /\ a # b => b \in less[a] \/ a \in less[b]
  BY <1>2, <1>3
<1> QED
  BY <1>1, <1>2, <1>4, <1>5, <1>6 DEF Siblings

(* The bough itself, wherever its top nodes point.                           *)
LEMMA BoughForest ==
  ASSUME NEW t, NEW S, NEW T, NEW later, Forest(t, S, T, later),
         NEW D, NEW R, D \subseteq S, R \subseteq D, Closed(t, S, T, D), Tops(D, R, t, T),
         NEW u, Typed(u),
         \A k \in D \ R : u.parent[k] = t.parent[k] /\ u.next[k] = t.next[k] /\ u.prev[k] = t.prev[k],
         \A n \in D : u.first[n] = t.first[n] /\ u.last[n] = t.last[n]
  PROVE  Forest(u, D, R, Only(later, D \ R))
<1>1. PICK K, J : K = S \ T /\ J = D \ R
  OBVIOUS
<1>2. PICK less : less = Only(later, J)
  OBVIOUS
<1>3. less \in [J -> SUBSET J] /\ \A k \in J : less[k] = later[k] \cap J
  BY <1>2 DEF Only
<1>4. J \subseteq K /\ (\A k \in J : t.parent[k] \in D) /\ \A k \in K : t.parent[k] \in D => k \in J
  <2>1. ASSUME NEW k \in J PROVE k \in K /\ t.parent[k] \in D
    BY <1>1, <2>1 DEF Tops
  <2>2. ASSUME NEW k \in K, t.parent[k] \in D PROVE k \in J
    BY <1>1, <2>2 DEF Closed, Tops
  <2> QED
    BY <2>1, <2>2
<1>5. /\ Siblings(t, K, later) /\ LinkedOn(t, K, later) /\ LinkedBack(t, K, later)
      /\ Ends(t, S, K, later) /\ Grounded(t, K) /\ S \subseteq Nodes
  BY <1>1 DEF Forest
<1>6. \A k \in J : u.parent[k] = t.parent[k] /\ u.next[k] = t.next[k] /\ u.prev[k] = t.prev[k]
  BY <1>1
<1>7. Siblings(u, J, less)
  BY <1>2, <1>4, <1>5, <1>6, SiblingsOnly
<1>8. Grounded(u, J)
  BY <1>4, <1>5, <1>6, GroundedIn
<1>9. \A a \in J : \A b \in K : b \in later[a] \/ a \in later[b] => b \in J
  <2>1. \A a, b \in K : b \in later[a] => t.parent[b] = t.parent[a]
    BY <1>5 DEF Siblings
  <2> QED
    BY <1>4, <2>1
<1>10. later \in [K -> SUBSET K]
  BY <1>5 DEF Siblings
<1>11. LinkedOn(u, J, less)
  BY <1>3, <1>4, <1>5, <1>6, <1>9, <1>10 DEF LinkedOn
<1>12. LinkedBack(u, J, less)
  BY <1>3, <1>4, <1>5, <1>6, <1>9, <1>10 DEF LinkedBack
<1>13. Ends(u, D, J, less)
  BY <1>3, <1>4, <1>5, <1>6, <1>9, <1>10 DEF Ends
<1>14. \A k \in J : u.parent[k] \in D
  BY <1>4, <1>6
<1> QED
  BY <1>1, <1>2, <1>5, <1>7, <1>8, <1>11, <1>12, <1>13, <1>14 DEF Forest

(* Siblings are in one order.                                                *)
Ordering(t, K, later) ==
  /\ later \in [K -> SUBSET K]
  /\ \A x \in K : x \notin later[x]
  /\ \A x, y \in K : y \in later[x] => t.parent[y] = t.parent[x] /\ x \notin later[y]
  /\ \A x, y, z \in K : y \in later[x] /\ z \in later[y] => z \in later[x]
  /\ \A x, y \in K : t.parent[x] = t.parent[y] /\ x # y => y \in later[x] \/ x \in later[y]

LEMMA OrderingIs ==
  ASSUME NEW t, NEW K, NEW later, Siblings(t, K, later)
  PROVE  Ordering(t, K, later)
<1>1. later \in [K -> SUBSET K]
  BY DEF Siblings
<1>2. \A x \in K : x \notin later[x]
  BY DEF Siblings
<1>3. \A x, y \in K : y \in later[x] => t.parent[y] = t.parent[x] /\ x \notin later[y]
  BY DEF Siblings
<1>4. \A x, y, z \in K : y \in later[x] /\ z \in later[y] => z \in later[x]
  BY DEF Siblings
<1>5. \A x, y \in K : t.parent[x] = t.parent[y] /\ x # y => y \in later[x] \/ x \in later[y]
  BY DEF Siblings
<1> QED
  BY <1>1, <1>2, <1>3, <1>4, <1>5 DEF Ordering

(* A sibling that is not in the run is before it or after it.                *)
LEMMA OutsideRun ==
  ASSUME NEW t, NEW K, NEW later, Ordering(t, K, later), LinkedOn(t, K, later), LinkedBack(t, K, later),
         NEW a \in K, NEW b \in K, b = a \/ b \in later[a],
         NEW x \in K \ Between(K, later, a, b), t.parent[x] = t.parent[a]
  PROVE  \/ /\ a \in later[x] /\ b \in later[x] /\ t.prev[a] # None
            /\ (x = t.prev[a] \/ t.prev[a] \in later[x])
         \/ /\ x \in later[a] /\ x \in later[b] /\ t.next[b] # None
            /\ (x = t.next[b] \/ x \in later[t.next[b]])
<1>1. t.parent[b] = t.parent[a]
  BY DEF Ordering
<1>2. x # a /\ x # b
  BY DEF Between, Ordering
<1>3. CASE a \in later[x]
  <2>1. b \in later[x]
    BY <1>3 DEF Ordering
  <2>2. t.prev[a] # None /\ (x = t.prev[a] \/ t.prev[a] \in later[x])
    BY <1>3 DEF LinkedBack
  <2> QED
    BY <1>3, <2>1, <2>2
<1>4. CASE x \in later[a]
  <2>1. b \notin later[x]
    BY <1>4 DEF Between
  <2>2. x \in later[b]
    BY <1>1, <1>2, <2>1 DEF Ordering
  <2>3. t.next[b] # None /\ (x = t.next[b] \/ x \in later[t.next[b]])
    BY <2>2 DEF LinkedOn
  <2> QED
    BY <1>4, <2>2, <2>3
<1> QED
  BY <1>2, <1>3, <1>4 DEF Ordering

(* What Detach does, as far as the nodes of S are concerned.                 *)
Unlinked(t, u, S, a, b) ==
  /\ Typed(u) /\ \A n \in S : u.parent[n] = t.parent[n]
  /\ \A n \in S : u.next[n] = IF n = t.prev[a] THEN t.next[b] ELSE t.next[n]
  /\ \A n \in S : u.prev[n] = IF n = t.next[b] THEN t.prev[a] ELSE t.prev[n]
  /\ \A n \in S : u.first[n] = IF n = t.parent[a] /\ t.prev[a] = None THEN t.next[b] ELSE t.first[n]
  /\ \A n \in S : u.last[n] = IF n = t.parent[a] /\ t.next[b] = None THEN t.prev[a] ELSE t.last[n]

LEMMA RestForest ==
  ASSUME NEW t, NEW S, NEW T, NEW later, Forest(t, S, T, later),
         NEW a \in S \ T, NEW b \in S \ T, b = a \/ b \in later[a],
         NEW R, R = Between(S \ T, later, a, b),
         NEW D, Bough(t, S, T, R, D, t.parent[a]),
         NEW u, Unlinked(t, u, S, a, b)
  PROVE  Forest(u, S \ D, T, Only(later, (S \ D) \ T))
<1>1. PICK K, Q : K = S \ T /\ Q = S \ D
  OBVIOUS
<1>2. PICK J : J = Q \ T
  OBVIOUS
<1>3. PICK less : less = Only(later, J)
  OBVIOUS
<1>4. PICK p, v, w : p = t.parent[a] /\ v = t.prev[a] /\ w = t.next[b]
  OBVIOUS
<1>5. less \in [J -> SUBSET J] /\ \A k \in J : less[k] = later[k] \cap J
  BY <1>3 DEF Only
<1>6. /\ Siblings(t, K, later) /\ LinkedOn(t, K, later) /\ LinkedBack(t, K, later)
      /\ Ends(t, S, K, later) /\ Grounded(t, K) /\ S \subseteq Nodes
      /\ T \subseteq S /\ \A k \in K : t.parent[k] \in S
  BY <1>1 DEF Forest
<1>7. Ordering(t, K, later)
  BY <1>6, OrderingIs
<1>8. /\ J = K \ D /\ J \subseteq K /\ a \in K /\ b \in K /\ None \notin K /\ None \notin S
  BY <1>1, <1>2, <1>6, DocumentTreeAssumption
<1>9. /\ \A k \in J : t.parent[k] \in Q
      /\ \A k \in R : k \notin J /\ k \in K /\ t.parent[k] = p
      /\ \A k \in K : k \in J \/ k \in R \/ t.parent[k] \in D
      /\ p \in Q /\ T \subseteq Q
  <2>1. ASSUME NEW k \in J PROVE t.parent[k] \in Q
    BY <1>1, <1>2, <1>6, <1>8, <2>1 DEF Bough, Closed
  <2>2. ASSUME NEW k \in K PROVE k \in J \/ k \in R \/ t.parent[k] \in D
    BY <1>1, <1>8, <2>2 DEF Bough, Tops
  <2>3. p \in Q /\ T \subseteq Q
    BY <1>1, <1>4, <1>6 DEF Bough
  <2>4. \A k \in R : k \notin J /\ k \in K /\ t.parent[k] = p
    BY <1>1, <1>4, <1>8 DEF Bough
  <2> QED
    BY <2>1, <2>2, <2>3, <2>4
<1>10. \A k \in K : t.parent[k] \in Q => k \in J \/ k \in R
  BY <1>1, <1>9
<1>11. ASSUME NEW x \in J, t.parent[x] = p
       PROVE  \/ a \in later[x] /\ b \in later[x] /\ v # None /\ (x = v \/ v \in later[x])
              \/ x \in later[a] /\ x \in later[b] /\ w # None /\ (x = w \/ x \in later[w])
  <2>1. x \in K \ Between(K, later, a, b)
    BY <1>1, <1>8, <1>9, <1>11
  <2> QED
    BY <1>4, <1>6, <1>7, <1>8, <1>11, <2>1, OutsideRun
<1>12. /\ v # None => v \in K /\ a \in later[v] /\ t.parent[v] = p /\ v \in J /\ b \in later[v]
       /\ w # None => w \in K /\ w \in later[b] /\ t.parent[w] = p /\ w \in J /\ w \in later[a]
       /\ t.parent[b] = p
  <2>0. t.parent[b] = p
    BY <1>4, <1>7, <1>8 DEF Ordering
  <2>1. ASSUME v # None PROVE v \in K /\ a \in later[v] /\ t.parent[v] = p
    BY <1>4, <1>6, <1>7, <1>8, <2>1 DEF LinkedBack, Ordering
  <2>2. ASSUME w # None PROVE w \in K /\ w \in later[b] /\ t.parent[w] = p
    BY <1>4, <1>6, <1>7, <1>8, <2>0, <2>2 DEF LinkedOn, Ordering
  <2>3. ASSUME v # None PROVE v \in J /\ b \in later[v]
    <3>1. v \notin R
      BY <1>1, <1>7, <1>8, <2>1, <2>3 DEF Between, Ordering
    <3>2. v \in J
      BY <1>9, <1>10, <2>1, <2>3, <3>1
    <3>3. b \in later[v]
      BY <1>7, <1>8, <2>1, <2>3 DEF Ordering
    <3> QED
      BY <3>2, <3>3
  <2>4. ASSUME w # None PROVE w \in J /\ w \in later[a]
    <3>1. w \notin R
      BY <1>1, <1>7, <1>8, <2>2, <2>4 DEF Between, Ordering
    <3>2. w \in J
      BY <1>9, <1>10, <2>2, <2>4, <3>1
    <3>3. w \in later[a]
      BY <1>7, <1>8, <2>2, <2>4 DEF Ordering
    <3> QED
      BY <3>2, <3>3
  <2> QED
    BY <2>0, <2>1, <2>2, <2>3, <2>4
<1>13. /\ \A n \in Q : u.first[n] = IF n = p /\ v = None THEN w ELSE t.first[n]
       /\ \A n \in Q : u.last[n] = IF n = p /\ w = None THEN v ELSE t.last[n]
       /\ \A k \in J : u.parent[k] = t.parent[k]
       /\ \A k \in J : u.next[k] = IF k = v THEN w ELSE t.next[k]
       /\ \A k \in J : u.prev[k] = IF k = w THEN v ELSE t.prev[k]
  BY <1>1, <1>4, <1>8 DEF Unlinked
<1>14. Siblings(u, J, less)
  BY <1>3, <1>6, <1>8, <1>13, SiblingsOnly
<1>15. Grounded(u, J)
  BY <1>6, <1>8, <1>13, GroundedIn
<1>16. LinkedOn(u, J, less)
  <2> SUFFICES ASSUME NEW k \in J
               PROVE  /\ u.next[k] = None => less[k] = {}
                      /\ u.next[k] # None =>
                           u.next[k] \in less[k] /\ \A x \in less[k] : x = u.next[k] \/ x \in less[u.next[k]]
    BY DEF LinkedOn
  <2>1. CASE k = v
    <3>1. v # None /\ u.next[k] = w
      BY <1>8, <1>13, <2>1
    <3>2. ASSUME NEW x \in less[k] PROVE x \in J /\ w # None /\ (x = w \/ x \in later[w])
      <4>1. x \in J /\ x \in later[v] /\ x \in K
        BY <1>5, <1>8, <2>1, <3>2
      <4>2. t.parent[x] = p
        BY <1>7, <1>8, <1>12, <3>1, <4>1 DEF Ordering
      <4>3. ~(x = v \/ v \in later[x])
        BY <1>7, <1>8, <1>12, <3>1, <4>1 DEF Ordering
      <4> QED
        BY <1>11, <4>1, <4>2, <4>3
    <3>3. w # None => w \in less[k]
      <4>1. w # None => w \in later[v] /\ w \in J
        BY <1>7, <1>8, <1>12, <3>1 DEF Ordering
      <4> QED
        BY <1>5, <2>1, <4>1
    <3> QED
      BY <1>5, <1>12, <3>1, <3>2, <3>3
  <2>2. CASE k # v
    <3>1. u.next[k] = t.next[k] /\ k \in K
      BY <1>8, <1>13, <2>2
    <3>2. CASE t.next[k] = None
      BY <1>5, <1>6, <3>1, <3>2 DEF LinkedOn
    <3>3. CASE t.next[k] # None
      <4>1. PICK y : y = t.next[k]
        OBVIOUS
      <4>2. y \in later[k] /\ y \in K /\ (\A x \in later[k] : x = y \/ x \in later[y]) /\ t.parent[y] = t.parent[k]
        BY <1>6, <1>7, <3>1, <3>3, <4>1 DEF LinkedOn, Ordering
      <4>3. y \notin R
        <5> SUFFICES ASSUME y \in R PROVE FALSE
          OBVIOUS
        <5>1. t.parent[k] = p /\ (y = a \/ y \in later[a]) /\ (y = b \/ b \in later[y])
          BY <1>1, <1>9, <4>2 DEF Between
        <5>2. CASE a \in later[k]
          <6>1. v # None /\ v \in later[k]
            BY <1>4, <1>6, <1>8, <2>2, <3>1, <5>2 DEF LinkedBack
          <6>2. v = y \/ v \in later[y]
            BY <4>2, <6>1
          <6>3. y \in later[v]
            BY <1>7, <1>8, <1>12, <4>2, <5>1, <6>1 DEF Ordering
          <6> QED
            BY <1>7, <1>12, <4>2, <6>1, <6>2, <6>3 DEF Ordering
        <5>3. CASE k \in later[b]
          BY <1>7, <1>8, <3>1, <4>2, <5>1, <5>3 DEF Ordering
        <5> QED
          BY <1>11, <5>1, <5>2, <5>3
      <4>4. y \in J
        BY <1>9, <1>10, <4>2, <4>3
      <4>5. u.next[k] = y /\ y \in less[k]
        BY <1>5, <3>1, <4>1, <4>2, <4>4
      <4>6. ASSUME NEW x \in less[k] PROVE x = y \/ x \in less[y]
        BY <1>5, <4>2, <4>4, <4>6
      <4>7. u.next[k] # None
        BY <3>3, <4>1, <4>5
      <4> QED
        BY <4>5, <4>6, <4>7
    <3> QED
      BY <3>2, <3>3
  <2> QED
    BY <2>1, <2>2
<1>17. LinkedBack(u, J, less)
  <2> SUFFICES ASSUME NEW k \in J
               PROVE  /\ u.prev[k] = None => \A x \in J : k \notin less[x]
                      /\ u.prev[k] # None =>
                           /\ u.prev[k] \in J /\ k \in less[u.prev[k]]
                           /\ \A x \in J : k \in less[x] => x = u.prev[k] \/ u.prev[k] \in less[x]
    BY DEF LinkedBack
  <2>1. CASE k = w
    <3>1. w # None /\ u.prev[k] = v
      BY <1>8, <1>13, <2>1
    <3>2. ASSUME NEW x \in J, k \in less[x] PROVE v # None /\ (x = v \/ v \in later[x])
      <4>1. x \in J /\ w \in later[x] /\ x \in K
        BY <1>5, <1>8, <2>1, <3>2
      <4>2. t.parent[x] = p
        BY <1>7, <1>8, <1>12, <3>1, <4>1 DEF Ordering
      <4>3. ~(x = w \/ x \in later[w])
        BY <1>7, <1>8, <1>12, <3>1, <4>1 DEF Ordering
      <4> QED
        BY <1>11, <4>1, <4>2, <4>3
    <3>3. v # None => k \in less[v] /\ v \in J
      <4>1. v # None => w \in later[v] /\ v \in J
        BY <1>7, <1>8, <1>12, <3>1 DEF Ordering
      <4> QED
        BY <1>5, <2>1, <4>1
    <3> QED
      BY <1>5, <1>12, <3>1, <3>2, <3>3
  <2>2. CASE k # w
    <3>1. u.prev[k] = t.prev[k] /\ k \in K
      BY <1>8, <1>13, <2>2
    <3>2. CASE t.prev[k] = None
      BY <1>5, <1>6, <1>8, <3>1, <3>2 DEF LinkedBack
    <3>3. CASE t.prev[k] # None
      <4>1. PICK y : y = t.prev[k]
        OBVIOUS
      <4>2. y \in K /\ k \in later[y] /\ (\A x \in K : k \in later[x] => x = y \/ y \in later[x])
            /\ t.parent[y] = t.parent[k]
        BY <1>6, <1>7, <3>1, <3>3, <4>1 DEF LinkedBack, Ordering
      <4>3. y \notin R
        <5> SUFFICES ASSUME y \in R PROVE FALSE
          OBVIOUS
        <5>1. t.parent[k] = p /\ (y = a \/ y \in later[a]) /\ (y = b \/ b \in later[y])
          BY <1>1, <1>9, <4>2 DEF Between
        <5>2. CASE k \in later[b]
          <6>1. w # None /\ k \in later[w] /\ w \in K
            BY <1>4, <1>6, <1>8, <1>12, <2>2, <3>1, <5>2 DEF LinkedOn
          <6>2. w = y \/ y \in later[w]
            BY <4>2, <6>1
          <6>3. w \in later[y]
            BY <1>7, <1>8, <1>12, <4>2, <5>1, <6>1 DEF Ordering
          <6> QED
            BY <1>7, <1>12, <4>2, <6>1, <6>2, <6>3 DEF Ordering
        <5>3. CASE a \in later[k]
          BY <1>7, <1>8, <3>1, <4>2, <5>1, <5>3 DEF Ordering
        <5> QED
          BY <1>11, <5>1, <5>2, <5>3
      <4>4. y \in J
        BY <1>9, <1>10, <4>2, <4>3
      <4> QED
        BY <1>5, <1>8, <3>1, <4>1, <4>2, <4>4
    <3> QED
      BY <3>2, <3>3
  <2> QED
    BY <2>1, <2>2
<1>18. Ends(u, Q, J, less)
  <2> SUFFICES ASSUME NEW n \in Q
               PROVE  /\ u.first[n] = None => \A k \in J : u.parent[k] # n
                      /\ u.first[n] # None =>
                           /\ u.first[n] \in J /\ u.parent[u.first[n]] = n
                           /\ \A k \in J : u.parent[k] = n => k = u.first[n] \/ k \in less[u.first[n]]
                      /\ u.last[n] = None => \A k \in J : u.parent[k] # n
                      /\ u.last[n] # None =>
                           /\ u.last[n] \in J /\ u.parent[u.last[n]] = n
                           /\ \A k \in J : u.parent[k] = n => k = u.last[n] \/ u.last[n] \in less[k]
    BY DEF Ends
  <2>1. PICK f, e : f = t.first[n] /\ e = t.last[n]
    OBVIOUS
  <2>2. /\ f = None => \A k \in K : t.parent[k] # n
        /\ f # None => f \in K /\ t.parent[f] = n /\ \A k \in K : t.parent[k] = n => k = f \/ k \in later[f]
        /\ e = None => \A k \in K : t.parent[k] # n
        /\ e # None => e \in K /\ t.parent[e] = n /\ \A k \in K : t.parent[k] = n => k = e \/ e \in later[k]
    BY <1>1, <1>6, <2>1 DEF Ends
  <2>3. /\ u.first[n] = None => \A k \in J : u.parent[k] # n
        /\ u.first[n] # None =>
             /\ u.first[n] \in J /\ u.parent[u.first[n]] = n
             /\ \A k \in J : u.parent[k] = n => k = u.first[n] \/ k \in less[u.first[n]]
    <3>1. CASE n = p /\ v = None
      <4>1. u.first[n] = w
        BY <1>13, <3>1
      <4>2. \A k \in J : t.parent[k] = p => w # None /\ (k = w \/ k \in later[w])
        BY <1>11, <3>1
      <4> QED
        BY <1>5, <1>12, <1>13, <3>1, <4>1, <4>2
    <3>2. CASE ~(n = p /\ v = None)
      <4>1. u.first[n] = f
        BY <1>13, <2>1, <3>2
      <4>2. f # None => f \in J
        <5> SUFFICES ASSUME f # None, f \in R PROVE FALSE
          BY <1>10, <2>2
        <5>1. n = p /\ v # None /\ (f = a \/ f \in later[a])
          BY <1>1, <1>9, <2>2, <3>2 DEF Between
        <5>2. v = f \/ v \in later[f]
          BY <1>12, <2>2, <5>1
        <5> QED
          BY <1>7, <1>8, <1>12, <2>2, <5>1, <5>2 DEF Ordering
      <4> QED
        BY <1>5, <1>8, <1>13, <2>2, <4>1, <4>2
    <3> QED
      BY <3>1, <3>2
  <2>4. /\ u.last[n] = None => \A k \in J : u.parent[k] # n
        /\ u.last[n] # None =>
             /\ u.last[n] \in J /\ u.parent[u.last[n]] = n
             /\ \A k \in J : u.parent[k] = n => k = u.last[n] \/ u.last[n] \in less[k]
    <3>1. CASE n = p /\ w = None
      <4>1. u.last[n] = v
        BY <1>13, <3>1
      <4>2. \A k \in J : t.parent[k] = p => v # None /\ (k = v \/ v \in later[k])
        BY <1>11, <3>1
      <4> QED
        BY <1>5, <1>12, <1>13, <3>1, <4>1, <4>2
    <3>2. CASE ~(n = p /\ w = None)
      <4>1. u.last[n] = e
        BY <1>13, <2>1, <3>2
      <4>2. e # None => e \in J
        <5> SUFFICES ASSUME e # None, e \in R PROVE FALSE
          BY <1>10, <2>2
        <5>1. n = p /\ w # None /\ (e = b \/ b \in later[e])
          BY <1>1, <1>9, <2>2, <3>2 DEF Between
        <5>2. w = e \/ e \in later[w]
          BY <1>12, <2>2, <5>1
        <5> QED
          BY <1>7, <1>8, <1>12, <2>2, <5>1, <5>2 DEF Ordering
      <4> QED
        BY <1>5, <1>8, <1>13, <2>2, <4>1, <4>2
    <3> QED
      BY <3>1, <3>2
  <2> QED
    BY <2>3, <2>4
<1>19. \A k \in J : u.parent[k] \in Q
  BY <1>9, <1>13
<1>20. Typed(u) /\ T \subseteq Q /\ Q \subseteq Nodes
  BY <1>1, <1>6, <1>9 DEF Unlinked
<1> QED
  BY <1>1, <1>2, <1>3, <1>14, <1>15, <1>16, <1>17, <1>18, <1>19, <1>20 DEF Forest

-----------------------------------------------------------------------------
(* Putting a forest into another.                                            *)

(* The run R in the order ro, from f to e, with its pointers in u.           *)
RunOrder(u, R, ro, f, e) ==
  /\ ro \in [R -> SUBSET R] /\ f \in R /\ e \in R
  /\ \A x \in R : x \notin ro[x]
  /\ \A x, y \in R : y \in ro[x] => x \notin ro[y]
  /\ \A x, y, z \in R : y \in ro[x] /\ z \in ro[y] => z \in ro[x]
  /\ \A x, y \in R : x # y => y \in ro[x] \/ x \in ro[y]
  /\ \A x \in R : (x = f \/ x \in ro[f]) /\ (x = e \/ e \in ro[x])
  /\ \A x \in R \ {e} :
        u.next[x] \in ro[x] /\ \A y \in ro[x] : y = u.next[x] \/ y \in ro[u.next[x]]
  /\ \A x \in R \ {f} :
        /\ u.prev[x] \in R /\ x \in ro[u.prev[x]]
        /\ \A y \in R : x \in ro[y] => y = u.prev[x] \/ u.prev[x] \in ro[y]

(* What Link does.                                                           *)
Linked(t, u, p, v, w, R, f, e) ==
  /\ Typed(u)
  /\ \A n \in Nodes : u.parent[n] = IF n \in R THEN p ELSE t.parent[n]
  /\ \A n \in Nodes \ R : u.next[n] = IF n = v THEN f ELSE t.next[n]
  /\ \A n \in Nodes \ R : u.prev[n] = IF n = w THEN e ELSE t.prev[n]
  /\ u.next[e] = w /\ u.prev[f] = v
  /\ \A n \in Nodes : u.first[n] = IF n = p /\ v = None THEN f ELSE t.first[n]
  /\ \A n \in Nodes : u.last[n] = IF n = p /\ w = None THEN e ELSE t.last[n]

(* The siblings from a place on, and those before it.                        *)
FromPlace(t, K, later, p, w) == {k \in K : t.parent[k] = p /\ w # None /\ (k = w \/ k \in later[w])}
BeforePlace(t, K, later, p, w) == ChildrenIn(t, K, p) \ FromPlace(t, K, later, p, w)

Halves(t, K, later, p, v, w, Y, Z) ==
  /\ Y \subseteq K /\ Z \subseteq K /\ Y \cap Z = {}
  /\ \A k \in K : k \in Y \cup Z <=> t.parent[k] = p
  /\ \A y \in Y, z \in Z : z \in later[y]
  /\ v = None => Y = {}
  /\ v # None => v \in Y /\ \A y \in Y : y = v \/ v \in later[y]
  /\ w = None => Z = {}
  /\ w # None => w \in Z /\ \A z \in Z : z = w \/ z \in later[w]
  /\ \A z \in Z : later[z] \subseteq Z

LEMMA PlaceSplits ==
  ASSUME NEW t, NEW S, NEW K, NEW later,
         Siblings(t, K, later), LinkedOn(t, K, later), LinkedBack(t, K, later), Ends(t, S, K, later),
         K \subseteq Nodes, NEW p \in S, NEW w, w = None \/ (w \in K /\ t.parent[w] = p)
  PROVE  Halves(t, K, later, p, Before(t, p, w), w,
                BeforePlace(t, K, later, p, w), FromPlace(t, K, later, p, w))
<1>0. PICK v, Y, Z : /\ v = Before(t, p, w)
                     /\ Y = BeforePlace(t, K, later, p, w) /\ Z = FromPlace(t, K, later, p, w)
  OBVIOUS
<1>1. None \notin K
  BY DocumentTreeAssumption
<1>2. Ordering(t, K, later)
  BY OrderingIs
<1>3. /\ Y \subseteq K /\ Z \subseteq K /\ Y \cap Z = {}
      /\ \A k \in K : k \in Y \cup Z <=> t.parent[k] = p
      /\ \A k \in K : k \in Z <=> t.parent[k] = p /\ w # None /\ (k = w \/ k \in later[w])
  BY <1>0 DEF BeforePlace, FromPlace, ChildrenIn
<1>4. ASSUME NEW y \in Y, NEW z \in Z PROVE z \in later[y]
  <2>1. w # None /\ w \in K /\ (z = w \/ z \in later[w]) /\ t.parent[w] = p
    BY <1>3
  <2>2. y # w /\ y \notin later[w] /\ y \in K /\ t.parent[y] = p
    BY <1>3, <2>1
  <2>3. w \in later[y]
    BY <1>2, <2>1, <2>2 DEF Ordering
  <2> QED
    BY <1>2, <1>3, <2>1, <2>2, <2>3 DEF Ordering
<1>5. w = None => Z = {}
  BY <1>3
<1>6. ASSUME w # None PROVE w \in Z /\ \A z \in Z : z = w \/ z \in later[w]
  BY <1>3, <1>6
<1>7. ASSUME NEW z \in Z PROVE later[z] \subseteq Z
  <2> SUFFICES ASSUME NEW x \in later[z] PROVE x \in Z
    OBVIOUS
  <2>1. x \in K /\ t.parent[x] = p /\ z \in K /\ w # None /\ w \in K /\ (z = w \/ z \in later[w])
    BY <1>2, <1>3 DEF Ordering
  <2>2. x \in later[w]
    BY <1>2, <2>1 DEF Ordering
  <2> QED
    BY <1>3, <2>1, <2>2
<1>8. (v = None => Y = {}) /\ (v # None => v \in Y /\ \A y \in Y : y = v \/ v \in later[y])
  <2>1. CASE w = None
    <3>1. v = t.last[p]
      BY <1>0, <2>1 DEF Before
    <3>2. /\ v = None => \A k \in K : t.parent[k] # p
          /\ v # None => v \in K /\ t.parent[v] = p /\ \A k \in K : t.parent[k] = p => k = v \/ v \in later[k]
      BY <3>1 DEF Ends
    <3>3. \A k \in K : k \in Y <=> t.parent[k] = p
      BY <1>3, <1>5, <2>1
    <3> QED
      BY <1>3, <3>2, <3>3
  <2>2. CASE w # None
    <3>1. v = t.prev[w] /\ w \in K /\ t.parent[w] = p
      BY <1>0, <2>2 DEF Before
    <3>2. \A y \in Y : w \in later[y] /\ y \in K
      BY <1>3, <1>4, <1>6, <2>2
    <3>3. v = None => Y = {}
      BY <1>1, <3>1, <3>2 DEF LinkedBack
    <3>4. ASSUME v # None PROVE v \in Y /\ \A y \in Y : y = v \/ v \in later[y]
      <4>1. v \in K /\ w \in later[v] /\ \A y \in K : w \in later[y] => y = v \/ v \in later[y]
        BY <1>1, <3>1, <3>4 DEF LinkedBack
      <4>2. t.parent[v] = p /\ v # w /\ v \notin later[w]
        BY <1>2, <3>1, <4>1 DEF Ordering
      <4>3. v \in Y
        BY <1>3, <4>1, <4>2
      <4> QED
        BY <3>2, <4>1, <4>3
    <3> QED
      BY <3>3, <3>4
  <2> QED
    BY <2>1, <2>2
<1>9. Halves(t, K, later, p, v, w, Y, Z)
  BY <1>3, <1>4, <1>5, <1>6, <1>7, <1>8 DEF Halves
<1> QED
  BY <1>0, <1>9

(* The order afterwards; B are the nodes below R, in the order lower.        *)
Merged(K, later, R, ro, B, lower, Y, Z) ==
  [k \in K \cup R \cup B |->
     IF k \in R THEN ro[k] \cup Z
     ELSE IF k \in B THEN lower[k]
     ELSE IF k \in Y THEN later[k] \cup R
     ELSE later[k]]

MergedAs(m, K, later, R, ro, B, lower, Y, Z) ==
  /\ m \in [K \cup R \cup B -> SUBSET (K \cup R \cup B)]
  /\ \A k \in R : m[k] = ro[k] \cup Z
  /\ \A k \in B : m[k] = lower[k]
  /\ \A k \in Y : m[k] = later[k] \cup R
  /\ \A k \in K \ Y : m[k] = later[k]

LEMMA MergedIs ==
  ASSUME NEW K, NEW later, NEW R, NEW ro, NEW B, NEW lower, NEW Y, NEW Z,
         later \in [K -> SUBSET K], ro \in [R -> SUBSET R], lower \in [B -> SUBSET B],
         \A k \in K : k \notin R /\ k \notin B, \A k \in R : k \notin B,
         \A k \in Y : k \in K, \A k \in Z : k \in K
  PROVE  MergedAs(Merged(K, later, R, ro, B, lower, Y, Z), K, later, R, ro, B, lower, Y, Z)
  BY DEF Merged, MergedAs

LEMMA JoinForest ==
  ASSUME NEW t, NEW S, NEW T, NEW later, Forest(t, S, T, later),
         NEW D, NEW R, NEW lower, Forest(t, D, R, lower), S \cap D = {},
         NEW p \in S, NEW w, w = None \/ (w \in S \ T /\ t.parent[w] = p), NEW v, v = Before(t, p, w),
         NEW u, NEW ro, NEW f, NEW e, RunOrder(u, R, ro, f, e), Linked(t, u, p, v, w, R, f, e)
  PROVE  Forest(u, S \cup D, T, Merged(S \ T, later, R, ro, D \ R, lower,
                                       BeforePlace(t, S \ T, later, p, w), FromPlace(t, S \ T, later, p, w)))
<1>1. PICK K, B : K = S \ T /\ B = D \ R
  OBVIOUS
<1>2. PICK Y, Z : Y = BeforePlace(t, K, later, p, w) /\ Z = FromPlace(t, K, later, p, w)
  OBVIOUS
<1>3. PICK m, Q : m = Merged(K, later, R, ro, B, lower, Y, Z) /\ Q = K \cup R \cup B
  OBVIOUS
<1>4. /\ Siblings(t, K, later) /\ LinkedOn(t, K, later) /\ LinkedBack(t, K, later)
      /\ Ends(t, S, K, later) /\ Grounded(t, K) /\ S \subseteq Nodes
      /\ T \subseteq S /\ \A k \in K : t.parent[k] \in S
  BY <1>1 DEF Forest
<1>5. /\ Siblings(t, B, lower) /\ LinkedOn(t, B, lower) /\ LinkedBack(t, B, lower)
      /\ Ends(t, D, B, lower) /\ Grounded(t, B) /\ D \subseteq Nodes
      /\ R \subseteq D /\ \A k \in B : t.parent[k] \in D
  BY <1>1 DEF Forest
<1>6. Ordering(t, K, later) /\ Ordering(t, B, lower)
  BY <1>4, <1>5, OrderingIs
<1>7. /\ K \cap R = {} /\ K \cap B = {} /\ R \cap B = {} /\ (S \cup D) \ T = Q
      /\ None \notin S /\ None \notin D /\ K \subseteq S /\ B \subseteq D /\ p \notin D /\ p \notin R
  BY <1>1, <1>3, <1>4, <1>5, DocumentTreeAssumption
<1>8. w = None \/ (w \in K /\ t.parent[w] = p)
  BY <1>1
<1>22. Halves(t, K, later, p, v, w, Y, Z)
  <2>1. K \subseteq Nodes
    BY <1>4, <1>7
  <2>2. Halves(t, K, later, p, Before(t, p, w), w,
                BeforePlace(t, K, later, p, w), FromPlace(t, K, later, p, w))
    BY <1>4, <1>8, <2>1, PlaceSplits
  <2> QED
    BY <1>2, <2>2
<1>9. /\ Y \subseteq K /\ Z \subseteq K /\ Y \cap Z = {}
      /\ \A k \in K : k \in Y \cup Z <=> t.parent[k] = p
  BY <1>22 DEF Halves
<1>10. \A y \in Y, z \in Z : z \in later[y]
  BY <1>22 DEF Halves
<1>11. /\ v = None => Y = {}
       /\ v # None => v \in Y /\ \A y \in Y : y = v \/ v \in later[y]
  BY <1>22 DEF Halves
<1>12. /\ w = None => Z = {}
       /\ w # None => w \in Z /\ \A z \in Z : z = w \/ z \in later[w]
  BY <1>22 DEF Halves
<1>13. \A z \in Z : later[z] \subseteq Z
  BY <1>22 DEF Halves
<1>14. ro \in [R -> SUBSET R]
  BY DEF RunOrder
<1>15. later \in [K -> SUBSET K] /\ lower \in [B -> SUBSET B]
  BY <1>6 DEF Ordering
<1>16. /\ m \in [Q -> SUBSET Q]
       /\ \A k \in R : m[k] = ro[k] \cup Z
       /\ \A k \in B : m[k] = lower[k]
       /\ \A k \in Y : m[k] = later[k] \cup R
       /\ \A k \in K \ Y : m[k] = later[k]
  <2>1. /\ \A k \in K : k \notin R /\ k \notin B
        /\ \A k \in R : k \notin B
        /\ \A k \in Y : k \in K
        /\ \A k \in Z : k \in K
    BY <1>7, <1>9
  <2>2. MergedAs(Merged(K, later, R, ro, B, lower, Y, Z), K, later, R, ro, B, lower, Y, Z)
    BY <1>14, <1>15, <2>1, MergedIs
  <2>3. MergedAs(m, K, later, R, ro, B, lower, Y, Z)
    BY <1>3, <2>2
  <2> QED
    BY <1>3, <2>3 DEF MergedAs
<1>17. /\ \A n \in R : u.parent[n] = p
       /\ \A n \in K \cup B : /\ u.parent[n] = t.parent[n]
                              /\ u.next[n] = IF n = v THEN f ELSE t.next[n]
                              /\ u.prev[n] = IF n = w THEN e ELSE t.prev[n]
       /\ u.next[e] = w /\ u.prev[f] = v
       /\ \A n \in S \cup D : u.first[n] = IF n = p /\ v = None THEN f ELSE t.first[n]
       /\ \A n \in S \cup D : u.last[n] = IF n = p /\ w = None THEN e ELSE t.last[n]
  BY <1>4, <1>5, <1>7 DEF Linked
<1>18. /\ f \in R /\ e \in R
       /\ \A x \in R : (x = f \/ x \in ro[f]) /\ (x = e \/ e \in ro[x])
       /\ \A x \in R : x \notin ro[x]
       /\ \A x, y \in R : y \in ro[x] => x \notin ro[y]
       /\ \A x, y, z \in R : y \in ro[x] /\ z \in ro[y] => z \in ro[x]
       /\ \A x, y \in R : x # y => y \in ro[x] \/ x \in ro[y]
  BY DEF RunOrder
<1>19. /\ \A x \in R \ {e} :
            u.next[x] \in ro[x] /\ \A y \in ro[x] : y = u.next[x] \/ y \in ro[u.next[x]]
       /\ \A x \in R \ {f} :
            /\ u.prev[x] \in R /\ x \in ro[u.prev[x]]
            /\ \A y \in R : x \in ro[y] => y = u.prev[x] \/ u.prev[x] \in ro[y]
  BY DEF RunOrder
<1>20. Siblings(u, Q, m)
  <2>1. ASSUME NEW a \in Q PROVE a \notin m[a]
    BY <1>3, <1>6, <1>7, <1>9, <1>16, <1>18 DEF Ordering
  <2>2. ASSUME NEW a \in Q, NEW b \in m[a]
        PROVE  u.parent[b] = u.parent[a] /\ a \notin m[b] /\ m[b] \subseteq m[a]
    <3>1. CASE a \in R
      <4>1. CASE b \in ro[a]
        <5>1. b \in R /\ a \notin ro[b] /\ ro[b] \subseteq ro[a]
          BY <1>14, <1>18, <3>1, <4>1
        <5> QED
          BY <1>7, <1>9, <1>16, <1>17, <3>1, <5>1
      <4>2. CASE b \in Z
        <5>1. m[b] = later[b] /\ later[b] \subseteq Z /\ t.parent[b] = p
          BY <1>9, <1>13, <1>16, <4>2
        <5> QED
          BY <1>7, <1>9, <1>16, <1>17, <3>1, <4>2, <5>1
      <4> QED
        BY <1>16, <2>2, <3>1, <4>1, <4>2
    <3>2. CASE a \in B
      BY <1>6, <1>16, <1>17, <2>2, <3>2 DEF Ordering
    <3>3. CASE a \in Y
      <4>1. CASE b \in R
        BY <1>7, <1>9, <1>10, <1>15, <1>14, <1>16, <1>17, <3>3, <4>1
      <4>2. CASE b \in later[a]
        <5>1. b \in K /\ a \in K /\ t.parent[b] = t.parent[a] /\ a \notin later[b] /\ later[b] \subseteq later[a]
          BY <1>6, <1>9, <3>3, <4>2 DEF Ordering
        <5>2. m[b] \subseteq later[b] \cup R
          BY <1>16, <5>1
        <5> QED
          BY <1>7, <1>16, <1>17, <3>3, <5>1, <5>2
      <4> QED
        BY <1>16, <2>2, <3>3, <4>1, <4>2
    <3>4. CASE a \in K \ Y
      <4>1. b \in later[a]
        BY <1>16, <2>2, <3>4
      <4>2. b \in K /\ a \in K /\ t.parent[b] = t.parent[a] /\ a \notin later[b] /\ later[b] \subseteq later[a]
        BY <1>6, <3>4, <4>1 DEF Ordering
      <4>3. b \notin Y
        BY <1>9, <1>13, <3>4, <4>1, <4>2
      <4> QED
        BY <1>16, <1>17, <3>4, <4>2, <4>3
    <3> QED
      BY <1>3, <3>1, <3>2, <3>3, <3>4
  <2>3. ASSUME NEW a \in Q, NEW b \in Q, u.parent[a] = u.parent[b], a # b
        PROVE  b \in m[a] \/ a \in m[b]
    <3>1. CASE a \in K /\ b \in K
      <4>1. b \in later[a] \/ a \in later[b]
        BY <1>6, <1>17, <2>3, <3>1 DEF Ordering
      <4> QED
        BY <1>16, <3>1, <4>1
    <3>2. CASE a \in R /\ b \in R
      BY <1>16, <1>18, <2>3, <3>2
    <3>3. CASE a \in B /\ b \in B
      BY <1>6, <1>16, <1>17, <2>3, <3>3 DEF Ordering
    <3>4. CASE a \in R /\ b \in K
      BY <1>9, <1>16, <1>17, <2>3, <3>4
    <3>5. CASE a \in K /\ b \in R
      BY <1>9, <1>16, <1>17, <2>3, <3>5
    <3>6. CASE a \in B /\ b \notin B
      <4>1. u.parent[a] \in D /\ u.parent[b] \in S
        BY <1>3, <1>4, <1>5, <1>7, <1>17, <3>6
      <4> QED
        BY <2>3, <4>1
    <3>7. CASE a \notin B /\ b \in B
      <4>1. u.parent[b] \in D /\ u.parent[a] \in S
        BY <1>3, <1>4, <1>5, <1>7, <1>17, <3>7
      <4> QED
        BY <2>3, <4>1
    <3> QED
      BY <1>3, <3>1, <3>2, <3>3, <3>4, <3>5, <3>6, <3>7
  <2> QED
    BY <1>16, <2>1, <2>2, <2>3 DEF Siblings
<1>21. LinkedOn(u, Q, m)
  <2> SUFFICES ASSUME NEW k \in Q
               PROVE  /\ u.next[k] = None => m[k] = {}
                      /\ u.next[k] # None =>
                           u.next[k] \in m[k] /\ \A x \in m[k] : x = u.next[k] \/ x \in m[u.next[k]]
    BY DEF LinkedOn
  <2>1. CASE k \in R
    <3>1. CASE k = e
      <4>1. ro[e] = {}
        BY <1>14, <1>18
      <4>2. m[k] = Z /\ u.next[k] = w
        <5>1. m[e] = ro[e] \cup Z
          BY <1>16, <1>18
        <5> QED
          BY <1>17, <3>1, <4>1, <5>1
      <4>3. w # None => m[w] = later[w]
        BY <1>9, <1>12, <1>16
      <4> QED
        BY <1>12, <4>2, <4>3
    <3>2. CASE k # e
      <4>1. u.next[k] \in ro[k] /\ \A y \in ro[k] : y = u.next[k] \/ y \in ro[u.next[k]]
        BY <1>19, <2>1, <3>2
      <4>2. u.next[k] \in R
        BY <1>14, <2>1, <4>1
      <4>3. u.next[k] # None
        BY <1>5, <1>7, <4>2
      <4> QED
        BY <1>16, <2>1, <4>1, <4>2, <4>3
    <3> QED
      BY <3>1, <3>2
  <2>2. CASE k \in B
    <3>1. u.next[k] = t.next[k] /\ m[k] = lower[k]
      BY <1>7, <1>9, <1>11, <1>16, <1>17, <2>2
    <3>2. \A x \in lower[k] : x \in B /\ m[x] = lower[x]
      BY <1>15, <1>16, <2>2
    <3> QED
      BY <1>5, <2>2, <3>1, <3>2 DEF LinkedOn
  <2>3. CASE k = v /\ k \in K
    <3>1. v # None /\ v \in Y /\ u.next[k] = f
      BY <1>7, <1>11, <1>17, <2>3
    <3>2. m[k] = later[v] \cup R /\ m[f] = ro[f] \cup Z
      BY <1>16, <1>18, <2>3, <3>1
    <3>3. ASSUME NEW x \in later[v] PROVE x \in Z
      <4>1. x \in K /\ t.parent[x] = p /\ v \notin later[x] /\ x # v
        BY <1>6, <1>9, <2>3, <3>1, <3>3 DEF Ordering
      <4>2. x \notin Y
        BY <1>11, <3>1, <4>1
      <4> QED
        BY <1>9, <4>1, <4>2
    <3>4. f # None
      BY <1>5, <1>7, <1>18
    <3> QED
      BY <1>18, <3>1, <3>2, <3>3, <3>4
  <2>4. CASE k \in Y /\ k # v
    <3>1. u.next[k] = t.next[k] /\ m[k] = later[k] \cup R /\ k \in K
      BY <1>9, <1>16, <1>17, <2>4
    <3>2. v \in Y /\ v \in later[k]
      BY <1>11, <2>4
    <3>3. PICK y : y = t.next[k]
      OBVIOUS
    <3>4. y # None /\ y \in later[k] /\ \A x \in later[k] : x = y \/ x \in later[y]
      BY <1>4, <3>1, <3>2, <3>3 DEF LinkedOn
    <3>5. y \in K /\ t.parent[y] = p
      BY <1>6, <1>9, <2>4, <3>1, <3>4 DEF Ordering
    <3>6. y \in Y
      <4> SUFFICES ASSUME y \in Z PROVE FALSE
        BY <1>9, <3>5
      <4>1. y \in later[v] /\ v \in K
        BY <1>9, <1>10, <3>2
      <4>2. v = y \/ v \in later[y]
        BY <3>2, <3>4
      <4> QED
        BY <1>6, <3>5, <4>1, <4>2 DEF Ordering
    <3>7. m[y] = later[y] \cup R
      BY <1>16, <3>6
    <3> QED
      BY <3>1, <3>3, <3>4, <3>7
  <2>5. CASE k \in K \ Y /\ k # v
    <3>1. u.next[k] = t.next[k] /\ m[k] = later[k]
      BY <1>16, <1>17, <2>5
    <3>2. ASSUME NEW y \in later[k] PROVE m[y] = later[y]
      <4>1. y \in K /\ t.parent[y] = t.parent[k]
        BY <1>6, <2>5, <3>2 DEF Ordering
      <4>2. y \notin Y
        BY <1>9, <1>13, <2>5, <3>2, <4>1
      <4> QED
        BY <1>16, <4>1, <4>2
    <3> QED
      BY <1>4, <2>5, <3>1, <3>2 DEF LinkedOn
  <2> QED
    BY <1>3, <2>1, <2>2, <2>3, <2>4, <2>5
<1>23. LinkedBack(u, Q, m)
  <2> SUFFICES ASSUME NEW k \in Q
               PROVE  /\ u.prev[k] = None => \A x \in Q : k \notin m[x]
                      /\ u.prev[k] # None =>
                           /\ u.prev[k] \in Q /\ k \in m[u.prev[k]]
                           /\ \A x \in Q : k \in m[x] => x = u.prev[k] \/ u.prev[k] \in m[x]
    BY DEF LinkedBack
  <2>1. CASE k \in R
    <3>0. ASSUME NEW x \in Q, k \in m[x] PROVE (x \in R /\ k \in ro[x]) \/ x \in Y
      <4>1. x \in B => m[x] \subseteq B
        BY <1>15, <1>16
      <4>2. x \in K \ Y => m[x] \subseteq K
        BY <1>15, <1>16
      <4>3. x \in R => m[x] = ro[x] \cup Z
        BY <1>16
      <4> QED
        BY <1>3, <1>7, <1>9, <2>1, <3>0, <4>1, <4>2, <4>3
    <3>1. CASE k = f
      <4>1. u.prev[k] = v
        BY <1>17, <3>1
      <4>2. ASSUME NEW x \in Q, k \in m[x] PROVE x \in Y
        BY <1>18, <3>0, <3>1, <4>2
      <4>3. v # None => v \in Q /\ k \in m[v]
        BY <1>3, <1>9, <1>11, <1>16, <2>1
      <4>4. ASSUME NEW x \in Y, x # v PROVE v # None /\ v \in m[x]
        BY <1>11, <1>16, <4>4
      <4>5. v = None => Y = {}
        BY <1>11
      <4> QED
        BY <4>1, <4>2, <4>3, <4>4, <4>5
    <3>2. CASE k # f
      <4>1. PICK y : y = u.prev[k]
        OBVIOUS
      <4>2. y \in R /\ k \in ro[y] /\ \A x \in R : k \in ro[x] => x = y \/ y \in ro[x]
        BY <1>19, <2>1, <3>2, <4>1
      <4>3. y # None /\ y \in Q /\ k \in m[y]
        BY <1>3, <1>5, <1>7, <1>16, <4>2
      <4>4. ASSUME NEW x \in Q, k \in m[x] PROVE x = y \/ y \in m[x]
        BY <1>16, <3>0, <4>2, <4>4
      <4> QED
        BY <4>1, <4>3, <4>4
    <3> QED
      BY <3>1, <3>2
  <2>2. CASE k \in B
    <3>1. u.prev[k] = t.prev[k]
      BY <1>7, <1>8, <1>17, <2>2
    <3>2. ASSUME NEW x \in Q, k \in m[x] PROVE x \in B /\ k \in lower[x]
      <4>1. x \in R => m[x] = ro[x] \cup Z /\ ro[x] \subseteq R
        BY <1>14, <1>16
      <4>2. x \in K => m[x] \subseteq later[x] \cup R /\ later[x] \subseteq K
        BY <1>15, <1>16
      <4>3. x \in B => m[x] = lower[x]
        BY <1>16
      <4> QED
        BY <1>3, <1>7, <1>9, <2>2, <3>2, <4>1, <4>2, <4>3
    <3>3. PICK y : y = t.prev[k]
      OBVIOUS
    <3>4. /\ y = None => \A x \in B : k \notin lower[x]
          /\ y # None => y \in B /\ k \in lower[y] /\ \A x \in B : k \in lower[x] => x = y \/ y \in lower[x]
      BY <1>5, <2>2, <3>3 DEF LinkedBack
    <3> QED
      BY <1>3, <1>16, <3>1, <3>2, <3>3, <3>4
  <2>3. CASE k \in K
    <3>0. ASSUME NEW x \in Q, k \in m[x] PROVE (x \in R /\ k \in Z) \/ (x \in K /\ k \in later[x])
      <4>1. x \in R => m[x] = ro[x] \cup Z /\ ro[x] \subseteq R
        BY <1>14, <1>16
      <4>2. x \in K => m[x] \subseteq later[x] \cup R
        BY <1>16
      <4>3. x \in B => m[x] \subseteq B
        BY <1>15, <1>16
      <4> QED
        BY <1>3, <1>7, <2>3, <3>0, <4>1, <4>2, <4>3
    <3>1. CASE k = w
      <4>1. u.prev[k] = e /\ w # None /\ w \in Z
        BY <1>7, <1>12, <1>17, <2>3, <3>1
      <4>2. e # None /\ e \in Q /\ k \in m[e]
        BY <1>3, <1>5, <1>7, <1>16, <1>18, <3>1, <4>1
      <4>3. ASSUME NEW x \in Q, k \in m[x], x # e PROVE e \in m[x]
        <5>1. CASE x \in R
          BY <1>16, <1>18, <4>3, <5>1
        <5>2. CASE x \in K /\ k \in later[x]
          <6>1. t.parent[x] = p /\ x \notin later[w] /\ x # w
            BY <1>6, <1>9, <2>3, <3>1, <4>1, <5>2 DEF Ordering
          <6>2. x \in Y
            BY <1>9, <1>12, <4>1, <5>2, <6>1
          <6> QED
            BY <1>16, <1>18, <6>2
        <5> QED
          BY <3>0, <4>3, <5>1, <5>2
      <4> QED
        BY <4>1, <4>2, <4>3
    <3>2. CASE k # w
      <4>1. u.prev[k] = t.prev[k]
        BY <1>17, <2>3, <3>2
      <4>2. PICK y : y = t.prev[k]
        OBVIOUS
      <4>3. /\ y = None => \A x \in K : k \notin later[x]
            /\ y # None => y \in K /\ k \in later[y] /\ \A x \in K : k \in later[x] => x = y \/ y \in later[x]
        BY <1>4, <2>3, <4>2 DEF LinkedBack
      <4>4. \A x \in K : later[x] \subseteq m[x] /\ x \in Q
        BY <1>3, <1>16
      <4>5. k \in Z => y # None /\ y \in Z
        <5> SUFFICES ASSUME k \in Z PROVE y # None /\ y \in Z
          OBVIOUS
        <5>1. w # None /\ w \in Z /\ k \in later[w]
          BY <1>12, <3>2
        <5>2. y # None /\ (w = y \/ y \in later[w])
          BY <1>9, <4>3, <5>1
        <5> QED
          BY <1>13, <5>1, <5>2
      <4>6. \A x \in R : Z \subseteq m[x]
        BY <1>16
      <4>7. ASSUME NEW x \in Q, k \in m[x] PROVE y # None /\ (x = y \/ y \in m[x])
        BY <3>0, <4>3, <4>4, <4>5, <4>6, <4>7
      <4>8. y # None => y \in Q /\ k \in m[y]
        BY <4>3, <4>4
      <4> QED
        BY <4>1, <4>2, <4>7, <4>8
    <3> QED
      BY <3>1, <3>2
  <2> QED
    BY <1>3, <2>1, <2>2, <2>3
<1>24. Ends(u, S \cup D, Q, m)
  <2> SUFFICES ASSUME NEW n \in S \cup D
               PROVE  /\ u.first[n] = None => \A k \in Q : u.parent[k] # n
                      /\ u.first[n] # None =>
                           /\ u.first[n] \in Q /\ u.parent[u.first[n]] = n
                           /\ \A k \in Q : u.parent[k] = n => k = u.first[n] \/ k \in m[u.first[n]]
                      /\ u.last[n] = None => \A k \in Q : u.parent[k] # n
                      /\ u.last[n] # None =>
                           /\ u.last[n] \in Q /\ u.parent[u.last[n]] = n
                           /\ \A k \in Q : u.parent[k] = n => k = u.last[n] \/ u.last[n] \in m[k]
    BY DEF Ends
  <2>1. PICK i, l : i = t.first[n] /\ l = t.last[n]
    OBVIOUS
  <2>2. CASE n \in D
    <3>1. u.first[n] = i /\ u.last[n] = l
      BY <1>7, <1>17, <2>1, <2>2
    <3>2. \A k \in Q : u.parent[k] = n <=> k \in B /\ t.parent[k] = n
      <4>1. \A k \in K : u.parent[k] \in S
        BY <1>4, <1>17
      <4>2. \A k \in R : u.parent[k] \in S
        BY <1>17
      <4> QED
        BY <1>3, <1>7, <1>17, <2>2, <4>1, <4>2
    <3>3. /\ i = None => \A k \in B : t.parent[k] # n
          /\ i # None => i \in B /\ t.parent[i] = n /\ \A k \in B : t.parent[k] = n => k = i \/ k \in lower[i]
          /\ l = None => \A k \in B : t.parent[k] # n
          /\ l # None => l \in B /\ t.parent[l] = n /\ \A k \in B : t.parent[k] = n => k = l \/ l \in lower[k]
      BY <1>5, <2>1, <2>2 DEF Ends
    <3>4. B \subseteq Q /\ \A k \in B : m[k] = lower[k]
      BY <1>3, <1>16
    <3> QED
      BY <3>1, <3>2, <3>3, <3>4
  <2>3. ASSUME n \in S
        PROVE  /\ i = None => \A k \in K : t.parent[k] # n
               /\ i # None => i \in K /\ t.parent[i] = n /\ \A k \in K : t.parent[k] = n => k = i \/ k \in later[i]
               /\ l = None => \A k \in K : t.parent[k] # n
               /\ l # None => l \in K /\ t.parent[l] = n /\ \A k \in K : t.parent[k] = n => k = l \/ l \in later[k]
    BY <1>4, <2>1, <2>3 DEF Ends
  <2>4. CASE n \in S /\ n # p
    <3>1. u.first[n] = i /\ u.last[n] = l
      BY <1>17, <2>1, <2>4
    <3>2. \A k \in Q : u.parent[k] = n <=> k \in K /\ t.parent[k] = n
      <4>1. \A k \in B : u.parent[k] \in D
        BY <1>5, <1>17
      <4> QED
        BY <1>3, <1>7, <1>17, <2>4, <4>1
    <3>3. K \subseteq Q /\ \A k \in K : t.parent[k] = n => m[k] = later[k]
      BY <1>3, <1>9, <1>16, <2>4
    <3> QED
      BY <2>3, <2>4, <3>1, <3>2, <3>3
  <2>5. CASE n = p
    <3>1. \A k \in Q : u.parent[k] = p <=> k \in R \/ k \in Y \/ k \in Z
      <4>1. \A k \in B : u.parent[k] \in D
        BY <1>5, <1>17
      <4> QED
        BY <1>3, <1>7, <1>9, <1>17, <4>1
    <3>2. R \subseteq Q /\ Y \subseteq Q /\ Z \subseteq Q /\ None \notin R
      BY <1>3, <1>5, <1>7, <1>9
    <3>3. /\ u.first[n] = None => \A k \in Q : u.parent[k] # n
          /\ u.first[n] # None =>
               /\ u.first[n] \in Q /\ u.parent[u.first[n]] = n
               /\ \A k \in Q : u.parent[k] = n => k = u.first[n] \/ k \in m[u.first[n]]
      <4>1. CASE v = None
        <5>1. u.first[n] = f /\ Y = {} /\ m[f] = ro[f] \cup Z
          BY <1>11, <1>16, <1>17, <1>18, <2>5, <4>1
        <5> QED
          BY <1>18, <2>5, <3>1, <3>2, <5>1
      <4>2. CASE v # None
        <5>1. u.first[n] = i /\ v \in Y
          BY <1>11, <1>17, <2>1, <2>5, <4>2
        <5>2. v \in K /\ t.parent[v] = p
          BY <1>9, <5>1
        <5>3. i # None /\ i \in K /\ t.parent[i] = p /\ \A k \in K : t.parent[k] = p => k = i \/ k \in later[i]
          BY <2>3, <2>5, <5>2
        <5>4. i \in Y
          <6> SUFFICES ASSUME i \in Z PROVE FALSE
            BY <1>9, <5>3
          <6>1. i \in later[v]
            BY <1>10, <5>1
          <6>2. v = i \/ v \in later[i]
            BY <5>2, <5>3
          <6> QED
            BY <1>6, <5>2, <5>3, <6>1, <6>2 DEF Ordering
        <5>5. m[i] = later[i] \cup R
          BY <1>16, <5>4
        <5> QED
          BY <1>9, <2>5, <3>1, <3>2, <5>1, <5>3, <5>4, <5>5
      <4> QED
        BY <4>1, <4>2
    <3>4. /\ u.last[n] = None => \A k \in Q : u.parent[k] # n
          /\ u.last[n] # None =>
               /\ u.last[n] \in Q /\ u.parent[u.last[n]] = n
               /\ \A k \in Q : u.parent[k] = n => k = u.last[n] \/ u.last[n] \in m[k]
      <4>1. CASE w = None
        <5>1. u.last[n] = e /\ Z = {} /\ \A k \in Y : e \in m[k]
          BY <1>12, <1>16, <1>17, <1>18, <2>5, <4>1
        <5>2. \A k \in R : k = e \/ e \in m[k]
          BY <1>16, <1>18
        <5> QED
          BY <1>18, <2>5, <3>1, <3>2, <5>1, <5>2
      <4>2. CASE w # None
        <5>1. u.last[n] = l /\ w \in Z
          BY <1>12, <1>17, <2>1, <2>5, <4>2
        <5>2. w \in K /\ t.parent[w] = p
          BY <1>9, <5>1
        <5>3. l # None /\ l \in K /\ t.parent[l] = p /\ \A k \in K : t.parent[k] = p => k = l \/ l \in later[k]
          BY <2>3, <2>5, <5>2
        <5>4. l \in Z
          BY <1>13, <5>1, <5>2, <5>3
        <5>5. /\ \A k \in R : l \in m[k]
              /\ \A k \in K : later[k] \subseteq m[k]
          BY <1>16, <5>4
        <5> QED
          BY <1>9, <2>5, <3>1, <3>2, <5>1, <5>3, <5>4, <5>5
      <4> QED
        BY <4>1, <4>2
    <3> QED
      BY <3>3, <3>4
  <2> QED
    BY <2>2, <2>4, <2>5
<1>25. Grounded(u, Q)
  <2> SUFFICES ASSUME NEW A, A \subseteq Q, \A n \in A : u.parent[n] \in A PROVE A = {}
    BY DEF Grounded
  <2>1. PICK AK, AB : AK = A \cap K /\ AB = A \cap B
    OBVIOUS
  <2>2. \A n \in AK : t.parent[n] \in AK
    <3> SUFFICES ASSUME NEW n \in AK PROVE t.parent[n] \in AK
      OBVIOUS
    <3>1. t.parent[n] \in A /\ t.parent[n] \in S
      BY <1>4, <1>17, <2>1
    <3> QED
      BY <1>1, <1>3, <1>5, <1>7, <2>1, <3>1
  <2>3. AK = {}
    BY <1>4, <2>1, <2>2 DEF Grounded
  <2>4. ASSUME NEW n \in A PROVE n \in B
    <3> SUFFICES ASSUME n \in R PROVE FALSE
      BY <1>3, <2>1, <2>3
    <3>1. p \in A
      BY <1>17
    <3>2. p \in K
      BY <1>1, <1>3, <1>5, <1>7, <3>1
    <3> QED
      BY <2>1, <2>3, <3>1, <3>2
  <2>5. \A n \in AB : t.parent[n] \in AB
    BY <1>17, <2>1, <2>4
  <2>6. AB = {}
    BY <1>5, <2>1, <2>5 DEF Grounded
  <2> QED
    BY <2>1, <2>4, <2>6
<1>26. \A k \in Q : u.parent[k] \in S \cup D
  BY <1>3, <1>4, <1>5, <1>17
<1>27. Typed(u) /\ T \subseteq S \cup D /\ S \cup D \subseteq Nodes
  BY <1>4, <1>5 DEF Linked
<1>28. Forest(u, S \cup D, T, m)
  BY <1>7, <1>20, <1>21, <1>23, <1>24, <1>25, <1>26, <1>27 DEF Forest
<1> QED
  BY <1>1, <1>2, <1>3, <1>28

-----------------------------------------------------------------------------
(* The operations.                                                           *)
Fields == {"live", "parent", "prev", "next", "first", "last", "val", "index", "grave"}

(* Only the pointers differ.                                                 *)
Repointed(t, u) ==
  /\ DOMAIN u = Fields
  /\ u.live = t.live /\ u.val = t.val /\ u.index = t.index /\ u.grave = t.grave

LEMMA PutIs ==
  ASSUME NEW f \in [Nodes -> Values], NEW n, NEW v \in Values
  PROVE  Put(f, n, v) \in [Nodes -> Values] /\ \A m \in Nodes : Put(f, n, v)[m] = IF m = n THEN v ELSE f[m]
  BY DEF Put

LEMMA DetachIs ==
  ASSUME NEW t, TreeType(t), NEW a \in Nodes, NEW b \in Nodes
  PROVE  Unlinked(t, Detach(t, a, b), Nodes, a, b) /\ Repointed(t, Detach(t, a, b))
<1>1. PICK v, w, p, u : v = t.prev[a] /\ w = t.next[b] /\ p = t.parent[a] /\ u = Detach(t, a, b)
  OBVIOUS
<1>2. /\ DOMAIN t = Fields
      /\ t.parent \in [Nodes -> Values] /\ t.prev \in [Nodes -> Values] /\ t.next \in [Nodes -> Values]
      /\ t.first \in [Nodes -> Values] /\ t.last \in [Nodes -> Values]
  BY DEF TreeType, Fields
<1>3. v \in Values /\ w \in Values
  BY <1>1, <1>2
<1>4. /\ u.parent = t.parent /\ u.next = Put(t.next, v, w) /\ u.prev = Put(t.prev, w, v)
      /\ u.first = (IF v = None THEN Put(t.first, p, w) ELSE t.first)
      /\ u.last = (IF w = None THEN Put(t.last, p, v) ELSE t.last)
      /\ DOMAIN u = Fields
      /\ u.live = t.live /\ u.val = t.val /\ u.index = t.index /\ u.grave = t.grave
  BY <1>1, <1>2 DEF Detach, Fields
<1>5. Repointed(t, u)
  BY <1>4 DEF Repointed
<1>6. /\ u.next \in [Nodes -> Values] /\ \A m \in Nodes : u.next[m] = IF m = v THEN w ELSE t.next[m]
  BY <1>2, <1>3, <1>4, PutIs
<1>7. /\ u.prev \in [Nodes -> Values] /\ \A m \in Nodes : u.prev[m] = IF m = w THEN v ELSE t.prev[m]
  BY <1>2, <1>3, <1>4, PutIs
<1>8. /\ u.first \in [Nodes -> Values]
      /\ \A m \in Nodes : u.first[m] = IF m = p /\ v = None THEN w ELSE t.first[m]
  <2>1. /\ Put(t.first, p, w) \in [Nodes -> Values]
        /\ \A m \in Nodes : Put(t.first, p, w)[m] = IF m = p THEN w ELSE t.first[m]
    BY <1>2, <1>3, PutIs
  <2> QED
    BY <1>2, <1>4, <2>1
<1>9. /\ u.last \in [Nodes -> Values]
      /\ \A m \in Nodes : u.last[m] = IF m = p /\ w = None THEN v ELSE t.last[m]
  <2>1. /\ Put(t.last, p, v) \in [Nodes -> Values]
        /\ \A m \in Nodes : Put(t.last, p, v)[m] = IF m = p THEN v ELSE t.last[m]
    BY <1>2, <1>3, PutIs
  <2> QED
    BY <1>2, <1>4, <2>1
<1>10. Typed(u)
  BY <1>2, <1>4, <1>6, <1>7, <1>8, <1>9 DEF Typed
<1>11. Unlinked(t, u, Nodes, a, b)
  BY <1>1, <1>4, <1>6, <1>7, <1>8, <1>9, <1>10 DEF Unlinked
<1> QED
  BY <1>1, <1>5, <1>11

RunLater(run, R) == [n \in R |-> After(run, n)]

LEMMA LinkIs ==
  ASSUME NEW t, TreeType(t), NEW p \in Nodes, NEW v \in Values, NEW w \in Values,
         NEW R, R \subseteq Nodes, NEW run \in Seq(R), IsInjective(run), ToSet(run) = R, run # <<>>
  PROVE  /\ Linked(t, Link(t, p, v, w, run), p, v, w, R, Head(run), Last(run))
         /\ RunOrder(Link(t, p, v, w, run), R, RunLater(run, R), Head(run), Last(run))
         /\ Repointed(t, Link(t, p, v, w, run))
<1>1. PICK u, f, e, c : u = Link(t, p, v, w, run) /\ f = Head(run) /\ e = Last(run) /\ c = Len(run)
  OBVIOUS
<1>2. /\ DOMAIN t = Fields
      /\ t.parent \in [Nodes -> Values] /\ t.prev \in [Nodes -> Values] /\ t.next \in [Nodes -> Values]
      /\ t.first \in [Nodes -> Values] /\ t.last \in [Nodes -> Values]
  BY DEF TreeType, Fields
<1>3. /\ c \in Nat /\ c >= 1 /\ DOMAIN run = 1..c
      /\ \A i \in 1..c : run[i] \in R
      /\ \A x \in R : \E i \in 1..c : run[i] = x
      /\ \A x : Contains(run, x) <=> x \in R
      /\ f = run[1] /\ e = run[c] /\ 1 \in 1..c /\ c \in 1..c
  <2>1. /\ c \in Nat /\ DOMAIN run = 1..c /\ c # 0
        /\ \A i \in 1..c : run[i] \in R
        /\ \A x : x \in ToSet(run) <=> \E i \in 1..c : run[i] = x
        /\ \A x : Contains(run, x) <=> x \in ToSet(run)
    BY <1>1, SeqIs
  <2>2. f = run[1]
    BY <1>1, HeadTailIs
  <2>3. e = run[c]
    BY <1>1 DEF Last
  <2> QED
    BY <2>1, <2>2, <2>3
<1>4. \A i, j \in 1..c : run[i] = run[j] => i = j
  BY <1>3 DEF IsInjective
<1>5. \A i \in 1..c : (CHOOSE j \in DOMAIN run : run[j] = run[i]) = i
  BY <1>3, <1>4
<1>6. f \in R /\ e \in R /\ f \in Values /\ e \in Values
  BY <1>3 DEF Values
<1> DEFINE At(n) == CHOOSE i \in DOMAIN run : run[i] = n
           par == [n \in Nodes |-> IF Contains(run, n) THEN p ELSE t.parent[n]]
           prv == [n \in Nodes |->
                     IF Contains(run, n) THEN IF At(n) = 1 THEN v ELSE run[At(n) - 1]
                     ELSE IF n = w THEN e ELSE t.prev[n]]
           nxt == [n \in Nodes |->
                     IF Contains(run, n) THEN IF At(n) = Len(run) THEN w ELSE run[At(n) + 1]
                     ELSE IF n = v THEN f ELSE t.next[n]]
<1>7. /\ u.parent = par /\ u.prev = prv /\ u.next = nxt
      /\ u.first = (IF v = None THEN Put(t.first, p, f) ELSE t.first)
      /\ u.last = (IF w = None THEN Put(t.last, p, e) ELSE t.last)
      /\ DOMAIN u = Fields
      /\ u.live = t.live /\ u.val = t.val /\ u.index = t.index /\ u.grave = t.grave
  BY <1>1, <1>2 DEF Link, Fields
<1>8. Repointed(t, u)
  BY <1>7 DEF Repointed
<1>9. \A n \in Nodes : u.parent[n] = IF n \in R THEN p ELSE t.parent[n]
  BY <1>3, <1>7
<1>10. ASSUME NEW n \in Nodes \ R
       PROVE  /\ u.next[n] = IF n = v THEN f ELSE t.next[n]
              /\ u.prev[n] = IF n = w THEN e ELSE t.prev[n]
  BY <1>3, <1>7
<1>11. ASSUME NEW i \in 1..c
       PROVE  /\ u.next[run[i]] = IF i = c THEN w ELSE run[i + 1]
              /\ u.prev[run[i]] = IF i = 1 THEN v ELSE run[i - 1]
  <2>1. PICK n : n = run[i]
    OBVIOUS
  <2>2. n \in R /\ n \in Nodes /\ Contains(run, n)
    BY <1>3, <2>1
  <2>3. At(n) = i
    BY <1>5, <2>1
  <2> HIDE DEF At
  <2>4. u.next[n] = IF At(n) = Len(run) THEN w ELSE run[At(n) + 1]
    BY <1>7, <2>2
  <2>5. u.prev[n] = IF At(n) = 1 THEN v ELSE run[At(n) - 1]
    BY <1>7, <2>2
  <2> QED
    BY <1>1, <2>1, <2>3, <2>4, <2>5
<1> HIDE DEF par, prv, nxt, At
<1>12. /\ u.first \in [Nodes -> Values]
       /\ \A m \in Nodes : u.first[m] = IF m = p /\ v = None THEN f ELSE t.first[m]
  <2>1. /\ Put(t.first, p, f) \in [Nodes -> Values]
        /\ \A m \in Nodes : Put(t.first, p, f)[m] = IF m = p THEN f ELSE t.first[m]
    BY <1>2, <1>6, PutIs
  <2> QED
    BY <1>2, <1>7, <2>1
<1>13. /\ u.last \in [Nodes -> Values]
       /\ \A m \in Nodes : u.last[m] = IF m = p /\ w = None THEN e ELSE t.last[m]
  <2>1. /\ Put(t.last, p, e) \in [Nodes -> Values]
        /\ \A m \in Nodes : Put(t.last, p, e)[m] = IF m = p THEN e ELSE t.last[m]
    BY <1>2, <1>6, PutIs
  <2> QED
    BY <1>2, <1>7, <2>1
<1>14. u.parent \in [Nodes -> Values] /\ u.prev \in [Nodes -> Values] /\ u.next \in [Nodes -> Values]
  <2>1. /\ DOMAIN u.parent = Nodes /\ u.parent = [n \in Nodes |-> u.parent[n]]
        /\ DOMAIN u.prev = Nodes /\ u.prev = [n \in Nodes |-> u.prev[n]]
        /\ DOMAIN u.next = Nodes /\ u.next = [n \in Nodes |-> u.next[n]]
    BY <1>7 DEF par, prv, nxt
  <2>2. ASSUME NEW n \in Nodes PROVE u.parent[n] \in Values /\ u.prev[n] \in Values /\ u.next[n] \in Values
    <3>0. u.parent[n] \in Values
      BY <1>2, <1>9 DEF Values
    <3>1. CASE n \in R
      <4>1. PICK i \in 1..c : run[i] = n
        BY <1>3, <3>1
      <4>2. i # c => i + 1 \in 1..c
        BY <1>3
      <4>3. i # 1 => i - 1 \in 1..c
        BY <1>3
      <4>4. \A j \in 1..c : run[j] \in Values
        BY <1>3 DEF Values
      <4> QED
        BY <1>11, <3>0, <4>1, <4>2, <4>3, <4>4
    <3>2. CASE n \notin R
      BY <1>2, <1>6, <1>10, <3>0, <3>2
    <3> QED
      BY <3>1, <3>2
  <2> QED
    BY <2>1, <2>2
<1>15. Typed(u)
  BY <1>12, <1>13, <1>14 DEF Typed
<1>16. u.next[e] = w /\ u.prev[f] = v
  BY <1>3, <1>11
<1>17. Linked(t, u, p, v, w, R, f, e)
  BY <1>9, <1>10, <1>12, <1>13, <1>15, <1>16 DEF Linked
<1>18. PICK ro : ro = RunLater(run, R)
  OBVIOUS
<1>19. \A i \in 1..c : \A b : b \in ro[run[i]] <=> \E j \in 1..c : i < j /\ run[j] = b
  <2> SUFFICES ASSUME NEW i \in 1..c, NEW b PROVE b \in ro[run[i]] <=> \E j \in 1..c : i < j /\ run[j] = b
    OBVIOUS
  <2>1. ro[run[i]] = After(run, run[i])
    BY <1>3, <1>18 DEF RunLater
  <2>2. run \in Seq(Nodes)
    BY SeqMonotonic
  <2>3. b \in After(run, run[i]) <=> \E j \in 1..c : i < j /\ run[j] = b
    BY <1>1, <2>2, AfterIs
  <2> QED
    BY <2>1, <2>3
<1>20. \A i, j \in 1..c : run[j] \in ro[run[i]] <=> i < j
  BY <1>4, <1>19
<1>21. ro \in [R -> SUBSET R]
  <2>1. ro = [n \in R |-> After(run, n)]
    BY <1>18 DEF RunLater
  <2>2. \A n \in R : ro[n] \subseteq R
    BY <1>3, <1>19
  <2> QED
    BY <2>1, <2>2
<1>22. \A x \in R : x \notin ro[x]
  BY <1>3, <1>20
<1>23. \A x, y \in R : y \in ro[x] => x \notin ro[y]
  <2> SUFFICES ASSUME NEW x \in R, NEW y \in R, y \in ro[x] PROVE x \notin ro[y]
    OBVIOUS
  <2>1. PICK i \in 1..c : run[i] = x
    BY <1>3
  <2>2. PICK j \in 1..c : run[j] = y
    BY <1>3
  <2> QED
    BY <1>20, <2>1, <2>2
<1>24. \A x, y, z \in R : y \in ro[x] /\ z \in ro[y] => z \in ro[x]
  <2> SUFFICES ASSUME NEW x \in R, NEW y \in R, NEW z \in R, y \in ro[x], z \in ro[y] PROVE z \in ro[x]
    OBVIOUS
  <2>1. PICK i \in 1..c : run[i] = x
    BY <1>3
  <2>2. PICK j \in 1..c : run[j] = y
    BY <1>3
  <2>3. PICK k \in 1..c : run[k] = z
    BY <1>3
  <2>4. i < j /\ j < k
    BY <1>20, <2>1, <2>2, <2>3
  <2>5. i < k
    BY <2>4
  <2> QED
    BY <1>20, <2>1, <2>3, <2>5
<1>25. \A x, y \in R : x # y => y \in ro[x] \/ x \in ro[y]
  <2> SUFFICES ASSUME NEW x \in R, NEW y \in R, x # y PROVE y \in ro[x] \/ x \in ro[y]
    OBVIOUS
  <2>1. PICK i \in 1..c : run[i] = x
    BY <1>3
  <2>2. PICK j \in 1..c : run[j] = y
    BY <1>3
  <2>3. i < j \/ j < i
    BY <2>1, <2>2
  <2> QED
    BY <1>20, <2>1, <2>2, <2>3
<1>26. ASSUME NEW x \in R PROVE (x = f \/ x \in ro[f]) /\ (x = e \/ e \in ro[x])
  <2>1. PICK i \in 1..c : run[i] = x
    BY <1>3
  <2>2. (i = 1 \/ 1 < i) /\ (i = c \/ i < c)
    BY <1>3
  <2> QED
    BY <1>3, <1>20, <2>1, <2>2
<1>27. ASSUME NEW x \in R \ {e}
       PROVE  u.next[x] \in ro[x] /\ \A y \in ro[x] : y = u.next[x] \/ y \in ro[u.next[x]]
  <2>1. PICK i \in 1..c : run[i] = x
    BY <1>3
  <2>2. i # c /\ i + 1 \in 1..c /\ i < i + 1
    BY <1>3, <2>1
  <2>3. u.next[x] = run[i + 1]
    BY <1>11, <2>1, <2>2
  <2>4. ASSUME NEW y \in ro[x] PROVE y = run[i + 1] \/ y \in ro[run[i + 1]]
    <3>1. PICK j \in 1..c : i < j /\ run[j] = y
      BY <1>19, <2>1, <2>4
    <3>2. j = i + 1 \/ i + 1 < j
      BY <3>1
    <3> QED
      BY <1>20, <2>2, <3>1, <3>2
  <2> QED
    BY <1>20, <2>1, <2>2, <2>3, <2>4
<1>28. ASSUME NEW x \in R \ {f}
       PROVE  /\ u.prev[x] \in R /\ x \in ro[u.prev[x]]
              /\ \A y \in R : x \in ro[y] => y = u.prev[x] \/ u.prev[x] \in ro[y]
  <2>1. PICK i \in 1..c : run[i] = x
    BY <1>3
  <2>2. i # 1 /\ i - 1 \in 1..c /\ i - 1 < i
    BY <1>3, <2>1
  <2>3. u.prev[x] = run[i - 1]
    BY <1>11, <2>1, <2>2
  <2>4. ASSUME NEW y \in R, x \in ro[y] PROVE y = run[i - 1] \/ run[i - 1] \in ro[y]
    <3>1. PICK j \in 1..c : run[j] = y
      BY <1>3
    <3>2. j < i
      BY <1>20, <2>1, <2>4, <3>1
    <3>3. j = i - 1 \/ j < i - 1
      BY <3>2
    <3> QED
      BY <1>20, <2>2, <3>1, <3>3
  <2> QED
    BY <1>3, <1>20, <2>1, <2>2, <2>3, <2>4
<1>29. RunOrder(u, R, ro, f, e)
  BY <1>6, <1>21, <1>22, <1>23, <1>24, <1>25, <1>26, <1>27, <1>28 DEF RunOrder
<1> QED
  BY <1>1, <1>8, <1>17, <1>18, <1>29

(* A run taken out, and what is below it.                                    *)
Removed(t, u, S, T, later, a, b, D) ==
  /\ Bough(t, S, T, Between(S \ T, later, a, b), D, t.parent[a])
  /\ D = Under(t, Run(t, a, b))
  /\ Forest(u, S \ D, T, Only(later, (S \ D) \ T))
  /\ Forest(u, D, Between(S \ T, later, a, b), Only(later, D \ Between(S \ T, later, a, b)))

LEMMA DetachForests ==
  ASSUME NEW t, TreeType(t), NEW S, NEW T, NEW later, Forest(t, S, T, later),
         NEW a \in S \ T, NEW b, Contains(Chain(t.next, a), b)
  PROVE  \E D : Removed(t, Detach(t, a, b), S, T, later, a, b, D)
<1>1. PICK K, R : K = S \ T /\ R = Between(K, later, a, b)
  OBVIOUS
<1>2. PICK run : run = Run(t, a, b)
  OBVIOUS
<1>3. PICK u, p : u = Detach(t, a, b) /\ p = t.parent[a]
  OBVIOUS
<1>4. /\ b \in K /\ (b = a \/ b \in later[a])
      /\ IsInjective(run) /\ run \in Seq(R) /\ a \in R /\ b \in R
      /\ \A r \in R : t.parent[r] = p
      /\ ToSet(run) = R
  <2>1. b \in S \ T /\ (b = a \/ b \in later[a])
    BY RunIs
  <2>2. /\ InOrder(Run(t, a, b), S \ T, later, Between(S \ T, later, a, b))
        /\ IsInjective(Run(t, a, b)) /\ Run(t, a, b) \in Seq(Between(S \ T, later, a, b))
    BY RunIs
  <2>3. a \in Between(S \ T, later, a, b) /\ b \in Between(S \ T, later, a, b)
    BY RunIs
  <2>4. \A r \in Between(S \ T, later, a, b) : t.parent[r] = t.parent[a]
    BY DEF Forest, Siblings, Between
  <2> QED
    BY <1>1, <1>2, <1>3, <2>1, <2>2, <2>3, <2>4 DEF InOrder
<1>5. /\ S \subseteq Nodes /\ K \subseteq S /\ T \subseteq S /\ None \notin S /\ p \in S
      /\ Siblings(t, K, later) /\ LinkedOn(t, K, later) /\ LinkedBack(t, K, later)
  BY <1>1, <1>3, DocumentTreeAssumption DEF Forest
<1>6. R \subseteq S \ T /\ R # {}
  BY <1>1, <1>4 DEF Between
<1>7. PICK D : Bough(t, S, T, R, D, p)
  BY <1>4, <1>5, <1>6, BoughExists DEF BoughOf
<1>8. /\ R \subseteq D /\ D \subseteq S /\ Closed(t, S, T, D) /\ Tops(D, R, t, T) /\ p \notin D
  BY <1>7 DEF Bough
<1>9. Under(t, run) = D
  BY <1>4, <1>8, UnderIs
<1>10. Unlinked(t, u, Nodes, a, b)
  BY <1>3, <1>4, <1>5, DetachIs
<1>11. Unlinked(t, u, S, a, b)
  BY <1>5, <1>10 DEF Unlinked
<1>12. Forest(u, S \ D, T, Only(later, (S \ D) \ T))
  <2>1. Bough(t, S, T, R, D, t.parent[a])
    BY <1>3, <1>7
  <2>2. R = Between(S \ T, later, a, b) /\ b \in S \ T
    BY <1>1, <1>4
  <2> QED
    BY <1>4, <1>11, <2>1, <2>2, RestForest
<1>13. Ordering(t, K, later)
  BY <1>5, OrderingIs
<1>14. ASSUME NEW k \in D \ R PROVE k # t.prev[a] /\ k # t.next[b]
  <2>1. k \in K /\ t.parent[k] \in D
    BY <1>1, <1>8, <1>14 DEF Tops
  <2>2. t.parent[k] # p
    BY <1>8, <2>1
  <2>3. t.prev[a] # None => t.prev[a] \in K /\ t.parent[t.prev[a]] = p
    BY <1>1, <1>3, <1>5, <1>13 DEF LinkedBack, Ordering
  <2>4. t.next[b] # None => t.next[b] \in K /\ t.parent[t.next[b]] = t.parent[b]
    BY <1>4, <1>5, <1>13 DEF LinkedOn, Ordering
  <2> QED
    BY <1>4, <1>5, <2>1, <2>2, <2>3, <2>4
<1>15. /\ \A k \in D \ R : u.parent[k] = t.parent[k] /\ u.next[k] = t.next[k] /\ u.prev[k] = t.prev[k]
       /\ \A n \in D : u.first[n] = t.first[n] /\ u.last[n] = t.last[n]
  BY <1>3, <1>8, <1>11, <1>14 DEF Unlinked
<1>16. Typed(u)
  BY <1>10 DEF Unlinked
<1>17. Forest(u, D, R, Only(later, D \ R))
  BY <1>8, <1>15, <1>16, BoughForest
<1>18. Removed(t, u, S, T, later, a, b, D)
  BY <1>1, <1>2, <1>3, <1>7, <1>9, <1>12, <1>17 DEF Removed
<1> QED
  BY <1>3, <1>18

(* A run put in, and what is below it.                                       *)
LEMMA LinkForests ==
  ASSUME NEW t, TreeType(t), NEW S, NEW T, NEW later, Forest(t, S, T, later),
         NEW D, NEW R, NEW lower, Forest(t, D, R, lower), S \cap D = {},
         NEW run \in Seq(R), IsInjective(run), ToSet(run) = R, run # <<>>,
         NEW p \in S, NEW w, w = None \/ (w \in S \ T /\ t.parent[w] = p), NEW v, v = Before(t, p, w)
  PROVE  Forest(Link(t, p, v, w, run), S \cup D, T,
                Merged(S \ T, later, R, RunLater(run, R), D \ R, lower,
                       BeforePlace(t, S \ T, later, p, w), FromPlace(t, S \ T, later, p, w)))
<1>1. p \in Nodes /\ R \subseteq Nodes /\ w \in Values
  BY DEF Forest, Values
<1>2. v \in Values
  BY <1>1 DEF Before, TreeType, Values
<1>3. PICK u, ro, f, e : u = Link(t, p, v, w, run) /\ ro = RunLater(run, R) /\ f = Head(run) /\ e = Last(run)
  OBVIOUS
<1>4. RunOrder(u, R, ro, f, e) /\ Linked(t, u, p, v, w, R, f, e)
  BY <1>1, <1>2, <1>3, LinkIs
<1>5. Forest(u, S \cup D, T,
             Merged(S \ T, later, R, ro, D \ R, lower,
                    BeforePlace(t, S \ T, later, p, w), FromPlace(t, S \ T, later, p, w)))
  BY <1>4, JoinForest
<1> QED
  BY <1>3, <1>5

-----------------------------------------------------------------------------
(* A tree stays one.                                                         *)
LEMMA ForestSame ==
  ASSUME NEW t, NEW S, NEW T, NEW later, Forest(t, S, T, later), NEW u,
         u.parent = t.parent, u.prev = t.prev, u.next = t.next, u.first = t.first, u.last = t.last
  PROVE  Forest(u, S, T, later)
  BY DEF Forest, Typed, Siblings, LinkedOn, LinkedBack, Ends, Grounded

LEMMA ReferencesIn ==
  ASSUME NEW t, t.val \in [Nodes -> Values], NEW S, S \subseteq Nodes
  PROVE  References(t, S) \subseteq Nodes \X Nodes
  BY DEF References, Values

LEMMA RepointedType ==
  ASSUME NEW t, TreeType(t), NEW u, Repointed(t, u), Typed(u)
  PROVE  TreeType(u)
  BY DEF TreeType, Repointed, Typed, Fields

LEMMA TreeIs ==
  ASSUME NEW t, IsTree(t)
  PROVE  /\ TreeType(t) /\ Typed(t) /\ Alone(t) /\ t.live \subseteq Nodes /\ Root \in t.live
         /\ None \notin t.live /\ DOMAIN t = Fields /\ t.val \in [Nodes -> Values]
         /\ \E later : Forest(t, t.live, {Root}, later)
<1>1. PICK later : Forest(t, t.live, {Root}, later)
  BY TreeForest
<1>2. TreeType(t) /\ Typed(t) /\ t.live \subseteq Nodes /\ t.val \in [Nodes -> Values]
  BY TypedIs DEF IsTree
<1>3. Root \in t.live
  BY <1>1 DEF Forest
<1>4. Alone(t)
  BY DEF IsTree, Alone
<1> QED
  BY <1>1, <1>2, <1>3, <1>4, DocumentTreeAssumption DEF TreeType, Fields

LEMMA RangeIs ==
  ASSUME NEW t, IsTree(t), NEW a, NEW b, IsRange(t, a, b), a # Root
  PROVE  a \in t.live \ {Root} /\ b \in t.live /\ Contains(Chain(t.next, a), b)
  BY DEF IsRange

LEMMA RootStays ==
  ASSUME NEW t, IsTree(t), NEW a, NEW b, IsRange(t, a, b), a # Root
  PROVE  Alone(Detach(t, a, b))
<1>1. PICK later : Forest(t, t.live, {Root}, later)
  BY TreeIs
<1>2. /\ TreeType(t) /\ Alone(t) /\ Root \in t.live /\ t.live \subseteq Nodes /\ None \notin t.live
  BY TreeIs
<1>3. a \in t.live \ {Root} /\ Contains(Chain(t.next, a), b)
  BY RangeIs
<1>4. b \in t.live \ {Root} /\ (b = a \/ b \in later[a])
  <2>1. PICK S : S = t.live
    OBVIOUS
  <2>2. Forest(t, S, {Root}, later) /\ a \in S \ {Root} /\ Contains(Chain(t.next, a), b)
    BY <1>1, <1>3, <2>1
  <2>3. b \in S \ {Root} /\ (b = a \/ b \in later[a])
    BY <2>2, RunIs
  <2> QED
    BY <2>1, <2>3
<1>5. Unlinked(t, Detach(t, a, b), Nodes, a, b)
  BY <1>2, <1>3, <1>4, DetachIs
<1>6. PICK K : K = t.live \ {Root}
  OBVIOUS
<1>7. Siblings(t, K, later) /\ LinkedOn(t, K, later) /\ LinkedBack(t, K, later)
  BY <1>1, <1>6 DEF Forest
<1>8. later \in [K -> SUBSET K]
  BY <1>7 DEF Siblings
<1>9. t.prev[a] # Root /\ t.next[b] # Root
  BY <1>2, <1>3, <1>4, <1>6, <1>7, <1>8 DEF LinkedOn, LinkedBack
<1> QED
  BY <1>2, <1>5, <1>9 DEF Unlinked, Alone

LEMMA DeleteTree ==
  ASSUME NEW t, IsTree(t), NEW a, NEW b, CanDelete(t, a, b)
  PROVE  IsTree(DeleteRange(t, a, b))
<1>1. PICK later : Forest(t, t.live, {Root}, later)
  BY TreeIs
<1>2. /\ TreeType(t) /\ DOMAIN t = Fields /\ t.live \subseteq Nodes /\ t.val \in [Nodes -> Values]
  BY TreeIs
<1>3. a \in t.live \ {Root} /\ Contains(Chain(t.next, a), b) /\ b \in t.live /\ IsRange(t, a, b) /\ a # Root
  BY RangeIs DEF CanDelete
<1>4. PICK S, u : S = t.live /\ u = Detach(t, a, b)
  OBVIOUS
<1>5. PICK D : Removed(t, u, S, {Root}, later, a, b, D)
  BY <1>1, <1>2, <1>3, <1>4, DetachForests
<1>6. D = Under(t, Run(t, a, b)) /\ Forest(u, S \ D, {Root}, Only(later, (S \ D) \ {Root}))
  BY <1>5 DEF Removed
<1>7. PICK d : d = DeleteRange(t, a, b)
  OBVIOUS
<1>8. D \subseteq Nodes
  BY <1>6 DEF Under
<1>9. Repointed(t, u) /\ Typed(u)
  <2>1. Unlinked(t, u, Nodes, a, b) /\ Repointed(t, u)
    BY <1>2, <1>3, <1>4, DetachIs
  <2> QED
    BY <2>1 DEF Unlinked
<1>10. TreeType(u)
  BY <1>2, <1>9, RepointedType
<1>11. /\ d.live = S \ D /\ d.grave = t.grave \cup D /\ d.index = t.index \ References(t, D)
       /\ d.parent = u.parent /\ d.prev = u.prev /\ d.next = u.next /\ d.first = u.first /\ d.last = u.last
       /\ d.val = u.val /\ DOMAIN d = Fields
  BY <1>4, <1>6, <1>7, <1>9 DEF DeleteRange, Repointed, Fields
<1>12. TreeType(d)
  BY <1>2, <1>4, <1>8, <1>10, <1>11 DEF TreeType, Fields
<1>13. Alone(d)
  BY <1>3, <1>4, <1>11, RootStays DEF Alone
<1>14. Forest(d, d.live, {Root}, Only(later, (S \ D) \ {Root}))
  BY <1>6, <1>11, ForestSame
<1>15. IsTree(d)
  BY <1>12, <1>13, <1>14, ForestTree
<1> QED
  BY <1>7, <1>15

(* The root and where something is put.                                      *)
LEMMA LinkAlone ==
  ASSUME NEW t, TreeType(t), Alone(t), NEW p, NEW v, NEW w, NEW run, NEW R, R \subseteq Nodes,
         NEW f, NEW e, Linked(t, Link(t, p, v, w, run), p, v, w, R, f, e), Root \notin R, v # Root, w # Root
  PROVE  Alone(Link(t, p, v, w, run))
  BY DocumentTreeAssumption DEF Linked, Alone

(* What is below a run is an object's tree, if its pointers agree.           *)
LEMMA DeadForest ==
  ASSUME NEW t, TreeType(t), NEW run \in Seq(Nodes),
         Len(PreOrder(t, run)) = Cardinality(ToSet(PreOrder(t, run))),
         \A n \in Under(t, run) : Agree(t, n)
  PROVE  /\ IsInjective(run) /\ ToSet(run) \subseteq Under(t, run)
         /\ \E lower : Forest(t, Under(t, run), ToSet(run), lower)
<1>1. PICK r, D : r = PreOrder(t, run) /\ D = Under(t, run)
  OBVIOUS
<1>2. Typed(t)
  BY TypedIs
<1>3. r \in Seq(Nodes)
  BY <1>1, <1>2, PreOrderType
<1>4. IsInjective(r)
  <2>1. Len(r) = Cardinality(ToSet(r))
    BY <1>1
  <2> QED
    BY <1>3, <2>1, SeqCount
<1>5. /\ \A n : Contains(r, n) <=> n \in ToSet(r)
      /\ ToSet(r) \subseteq Nodes
  BY <1>3, SeqIs
<1>6. /\ \A n : Contains(run, n) <=> n \in ToSet(run)
      /\ ToSet(run) \subseteq Nodes
  BY SeqIs
<1>7. D = ToSet(run) \cup ToSet(r)
  BY <1>1, <1>5, <1>6 DEF Under
<1>8. \A n \in ToSet(r) : Agree(t, n)
  BY <1>1, <1>7
<1>9. /\ ToSet(run) \subseteq ToSet(r) /\ IsInjective(run)
      /\ \E later : Forest(t, ToSet(r), ToSet(run), later)
  <2>1. IsInjective(PreOrder(t, run)) /\ \A n \in ToSet(PreOrder(t, run)) : Agree(t, n)
    BY <1>1, <1>4, <1>8
  <2> QED
    BY <1>1, <1>2, <2>1, PreOrderForest
<1> QED
  BY <1>1, <1>7, <1>9

LEMMA InsertTree ==
  ASSUME NEW t, IsTree(t), NEW run \in Seq(Nodes), run # <<>>, NEW p, NEW w, CanInsert(t, run, p, w),
         \A n \in Under(t, run) : Agree(t, n)
  PROVE  IsTree(InsertInto(t, run, p, w))
<1>1. PICK later : Forest(t, t.live, {Root}, later)
  BY TreeIs
<1>2. /\ TreeType(t) /\ DOMAIN t = Fields /\ t.live \subseteq Nodes /\ t.val \in [Nodes -> Values]
      /\ Alone(t) /\ Root \in t.live /\ None \notin t.live
  BY TreeIs
<1>3. PICK S, D, R, v, u : /\ S = t.live /\ D = Under(t, run) /\ R = ToSet(run) /\ v = Before(t, p, w)
                           /\ u = Link(t, p, v, w, run)
  OBVIOUS
<1>4. /\ p \in S /\ (w = None \/ (w \in S /\ t.parent[w] = p)) /\ D \cap S = {}
      /\ Len(PreOrder(t, run)) = Cardinality(ToSet(PreOrder(t, run)))
  BY <1>3 DEF CanInsert, IsPlace
<1>5. w # Root
  BY <1>2, <1>3, <1>4 DEF Alone
<1>6. IsInjective(run) /\ R \subseteq D /\ \E lower : Forest(t, D, R, lower)
  BY <1>2, <1>3, <1>4, DeadForest
<1>7. PICK lower : Forest(t, D, R, lower)
  BY <1>6
<1>8. PICK m : m = Merged(S \ {Root}, later, R, RunLater(run, R), D \ R, lower,
                          BeforePlace(t, S \ {Root}, later, p, w), FromPlace(t, S \ {Root}, later, p, w))
  OBVIOUS
<1>9. D \subseteq Nodes
  BY <1>3 DEF Under
<1>10. run \in Seq(R)
  BY <1>3, SeqIs, SeqDef
<1>11. Forest(u, S \cup D, {Root}, m)
  <2>1. Forest(t, S, {Root}, later) /\ S \cap D = {} /\ ToSet(run) = R
    BY <1>1, <1>3, <1>4
  <2>2. w = None \/ (w \in S \ {Root} /\ t.parent[w] = p)
    BY <1>4, <1>5
  <2> QED
    BY <1>2, <1>3, <1>4, <1>6, <1>7, <1>8, <1>10, <2>1, <2>2, LinkForests
<1>12. v # Root /\ v \in Values /\ p \in Nodes /\ w \in Values
  <2>1. /\ Ends(t, S, S \ {Root}, later) /\ LinkedBack(t, S \ {Root}, later)
    BY <1>1, <1>3 DEF Forest
  <2>2. v # Root
    BY <1>2, <1>3, <1>4, <1>5, <2>1 DEF Before, Ends, LinkedBack
  <2>3. p \in Nodes /\ w \in Values
    BY <1>2, <1>3, <1>4 DEF Values
  <2>4. v \in Values
    BY <1>2, <1>3, <2>3 DEF Before, TreeType, Values
  <2> QED
    BY <2>2, <2>3, <2>4
<1>13. R \subseteq Nodes /\ Root \notin R
  BY <1>2, <1>3, <1>4, <1>6, <1>9
<1>14. Linked(t, u, p, v, w, R, Head(run), Last(run)) /\ Repointed(t, u)
  BY <1>2, <1>3, <1>6, <1>10, <1>12, <1>13, LinkIs
<1>15. Alone(u)
  BY <1>2, <1>3, <1>5, <1>12, <1>13, <1>14, LinkAlone
<1>16. TreeType(u)
  <2>1. Typed(u)
    BY <1>14 DEF Linked
  <2> QED
    BY <1>2, <1>14, <2>1, RepointedType
<1>17. PICK d : d = InsertInto(t, run, p, w)
  OBVIOUS
<1>18. /\ d.live = S \cup D /\ d.grave = u.grave /\ d.index = t.index \cup References(u, D)
       /\ d.parent = u.parent /\ d.prev = u.prev /\ d.next = u.next /\ d.first = u.first /\ d.last = u.last
       /\ d.val = u.val /\ DOMAIN d = Fields
  BY <1>3, <1>14, <1>17 DEF InsertInto, Repointed, Fields
<1>19. TreeType(d)
  <2>1. References(u, D) \subseteq Nodes \X Nodes
    BY <1>9, <1>16, ReferencesIn, TypedIs
  <2> QED
    BY <1>2, <1>3, <1>9, <1>16, <1>18, <2>1 DEF TreeType, Fields
<1>20. Alone(d)
  BY <1>15, <1>18 DEF Alone
<1>21. Forest(d, d.live, {Root}, m)
  BY <1>11, <1>18, ForestSame
<1>22. IsTree(d)
  BY <1>19, <1>20, <1>21, ForestTree
<1> QED
  BY <1>17, <1>22

(* The way up from a node.                                                   *)
LEMMA ParentClimbs ==
  ASSUME NEW t, IsTree(t)
  PROVE  \E above : Climbs(t.parent, t.live, above)
<1>1. PICK later : Forest(t, t.live, {Root}, later)
  BY TreeIs
<1>2. PICK above : Climbs(UpIn(t, t.live, {Root}), t.live, above)
  BY <1>1, AncestorsExist
<1>3. \A n \in t.live : UpIn(t, t.live, {Root})[n] = t.parent[n]
  BY TreeIs DEF UpIn, Alone
<1>4. Climbs(t.parent, t.live, above)
  BY <1>2, <1>3 DEF Climbs
<1> QED
  BY <1>4

LEMMA UpToRoot ==
  ASSUME NEW t, IsTree(t), NEW above, Climbs(t.parent, t.live, above), NEW p \in t.live
  PROVE  ToSet(Chain(t.parent, p)) = {p} \cup above[p] /\ Root \in ToSet(Chain(t.parent, p))
<1>1. t.parent \in [Nodes -> Values] /\ t.live \subseteq Nodes /\ None \notin t.live
  BY TreeIs DEF Typed
<1>2. PICK q, D : q = Chain(t.parent, p) /\ D = t.live
  OBVIOUS
<1>3. Way(q, t.parent, D, above, p)
  BY <1>1, <1>2, ChainIs
<1>4. q \in Seq(D) /\ q # <<>> /\ ToSet(q) = {p} \cup above[p] /\ t.parent[q[Len(q)]] = None
  BY <1>3 DEF Way
<1>5. PICK x : x = q[Len(q)]
  OBVIOUS
<1>6. x \in D /\ x \in ToSet(q)
  <2>1. /\ Len(q) \in Nat /\ Len(q) # 0
        /\ \A i \in 1..Len(q) : q[i] \in D /\ q[i] \in ToSet(q)
    BY <1>4, SeqIs
  <2> QED
    BY <1>5, <2>1
<1>7. x = Root
  <2>1. PICK later : Forest(t, D, {Root}, later)
    BY <1>2, TreeIs
  <2>2. x # Root => t.parent[x] \in D
    BY <1>6, <2>1 DEF Forest
  <2> QED
    BY <1>1, <1>2, <1>4, <1>5, <2>2
<1> QED
  BY <1>2, <1>4, <1>6, <1>7

(* Nobody moves the root, or a node below itself.                            *)
LEMMA MoveApart ==
  ASSUME NEW t, IsTree(t), NEW a, NEW b, NEW p, NEW w, CanMove(t, a, b, p, w)
  PROVE  a # Root
<1>1. PICK above : Climbs(t.parent, t.live, above)
  BY ParentClimbs
<1>2. p \in t.live
  BY DEF CanMove, IsPlace
<1>3. Root \in ToSet(Chain(t.parent, p))
  BY <1>1, <1>2, UpToRoot
<1> SUFFICES ASSUME a = Root PROVE FALSE
  OBVIOUS
<1>4. Contains(Chain(t.next, a), b)
  BY DEF CanMove, IsRange
<1>5. PICK q : q = Chain(t.next, a)
  OBVIOUS
<1>6. t.next \in [Nodes -> Values] /\ a \in Values /\ a # None /\ t.next[a] = None
  BY TreeIs, DocumentTreeAssumption DEF Typed, Values, Alone
<1>7. q \in Seq(Nodes) /\ q # <<>> /\ q[1] = a /\ \A j \in 1..(Len(q) - 1) : q[j + 1] = t.next[q[j]]
  BY <1>5, <1>6, ChainSound
<1>8. /\ Len(q) \in Nat /\ Len(q) # 0 /\ DOMAIN q = 1..Len(q)
      /\ \A i \in 1..Len(q) : q[i] \in Nodes
      /\ \A x : x \in ToSet(q) <=> \E i \in 1..Len(q) : q[i] = x
      /\ Contains(q, b) <=> b \in ToSet(q)
  BY <1>7, SeqIs
<1>9. Len(q) = 1
  <2> SUFFICES ASSUME Len(q) # 1 PROVE FALSE
    OBVIOUS
  <2>1. 1 \in 1..(Len(q) - 1) /\ 1 + 1 \in 1..Len(q)
    BY <1>8
  <2>2. q[1 + 1] = None
    BY <1>6, <1>7, <2>1
  <2> QED
    BY <1>8, <2>1, <2>2, DocumentTreeAssumption
<1>10. b = a
  BY <1>4, <1>5, <1>7, <1>8, <1>9
<1>11. PICK c : c = (CHOOSE i \in DOMAIN q : q[i] = b)
  OBVIOUS
<1>12. PICK run : run = SubSeq(q, 1, c)
  OBVIOUS
<1>13. c \in 1..Len(q)
  BY <1>7, <1>8, <1>9, <1>10, <1>11
<1>14. run \in Seq(Nodes) /\ Len(run) = c /\ \A i \in 1..c : run[i] = q[i]
  <2>1. \A i \in 1..c : i \in 1..Len(q) /\ q[i] \in Nodes
    BY <1>8, <1>13
  <2>2. run \in Seq(Nodes) /\ Len(run) = c
    BY <1>7, <1>8, <1>12, <1>13, <2>1, SubSeqProperties
  <2> QED
    BY <1>7, <1>8, <1>12, <1>13, <2>1, <2>2, SubSeqProperties
<1>16. run = Run(t, a, b)
  BY <1>5, <1>11, <1>12 DEF Run
<1>15. a \in ToSet(run)
  <2>1. \A i \in 1..Len(run) : run[i] \in ToSet(run)
    BY <1>14, SeqIs
  <2>2. c = 1
    BY <1>9, <1>13
  <2> QED
    BY <1>7, <1>14, <2>1, <2>2
<1> QED
  BY <1>3, <1>15, <1>16 DEF CanMove

LEMMA NotBelow ==
  ASSUME NEW t, IsTree(t), NEW later, Forest(t, t.live, {Root}, later), NEW R, NEW D, NEW q,
         Bough(t, t.live, {Root}, R, D, q),
         NEW p \in t.live, ToSet(Chain(t.parent, p)) \cap R = {}
  PROVE  p \notin D
<1>1. PICK S, K : S = t.live /\ K = S \ {Root}
  OBVIOUS
<1>2. PICK above : Climbs(t.parent, S, above)
  BY <1>1, ParentClimbs
<1>3. PICK C : C = {p} \cup above[p]
  OBVIOUS
<1>4. C \cap R = {}
  BY <1>1, <1>2, <1>3, UpToRoot
<1>5. /\ S \subseteq Nodes /\ None \notin S /\ Grounded(t, K) /\ t.parent \in [Nodes -> Values]
      /\ \A k \in K : t.parent[k] \in S
  BY <1>1, DocumentTreeAssumption DEF Forest, Typed
<1>6. Tops(D, R, t, {Root}) /\ D \subseteq S /\ D \cap {Root} = {}
  BY <1>1 DEF Bough
<1>7. PICK A : A = D \cap C
  OBVIOUS
<1>8. ASSUME NEW x \in A PROVE t.parent[x] \in A
  <2>1. x \in K /\ x \notin R
    BY <1>1, <1>4, <1>6, <1>7
  <2>2. t.parent[x] \in D
    BY <1>6, <1>7, <2>1 DEF Tops
  <2>3. t.parent[x] \in above[x] /\ x \in S
    BY <1>1, <1>2, <1>5, <2>1 DEF Climbs
  <2>4. above[x] \subseteq C
    <3>1. CASE x = p
      BY <1>3, <3>1
    <3>2. CASE x \in above[p]
      <4>1. above[x] \subseteq above[p]
        BY <1>1, <1>2, <1>5, <3>2, ClimbsOn
      <4> QED
        BY <1>3, <4>1
    <3> QED
      BY <1>3, <1>7, <3>1, <3>2
  <2> QED
    BY <1>7, <2>2, <2>3, <2>4
<1>9. A \subseteq K
  BY <1>1, <1>6, <1>7
<1>10. A = {}
  BY <1>5, <1>8, <1>9 DEF Grounded
<1> QED
  BY <1>3, <1>7, <1>10

(* A place that is not beside the run is the same without the run.           *)
LEMMA PlaceSame ==
  ASSUME NEW t, TreeType(t), NEW S, NEW T, NEW later, Forest(t, S, T, later), NEW a \in S \ T, NEW b \in S \ T,
         b = a \/ b \in later[a], NEW p \in S, NEW w, w = None \/ (w \in S \ T /\ t.parent[w] = p),
         Before(t, p, w) # b
  PROVE  Before(Detach(t, a, b), p, w) = Before(t, p, w)
<1>1. PICK K, u : K = S \ T /\ u = Detach(t, a, b)
  OBVIOUS
<1>2. /\ Siblings(t, K, later) /\ LinkedOn(t, K, later) /\ LinkedBack(t, K, later) /\ Ends(t, S, K, later)
      /\ S \subseteq Nodes /\ K \subseteq S /\ None \notin K /\ a \in K /\ b \in K
  BY <1>1, DocumentTreeAssumption DEF Forest
<1>3. Ordering(t, K, later)
  BY <1>2, OrderingIs
<1>4. Unlinked(t, u, Nodes, a, b)
  BY <1>1, <1>2, DetachIs
<1>5. t.parent[b] = t.parent[a]
  BY <1>2, <1>3 DEF Ordering
<1>6. CASE w = None
  <2>1. t.last[p] # b
    BY <1>6 DEF Before
  <2>2. ~(p = t.parent[a] /\ t.next[b] = None)
    <3> SUFFICES ASSUME p = t.parent[a], t.next[b] = None PROVE FALSE
      OBVIOUS
    <3>1. t.last[p] \in K /\ (b = t.last[p] \/ t.last[p] \in later[b])
      BY <1>2, <1>5 DEF Ends
    <3>2. later[b] = {}
      BY <1>2 DEF LinkedOn
    <3> QED
      BY <2>1, <3>1, <3>2
  <2>3. u.last[p] = t.last[p]
    BY <1>2, <1>4, <2>2 DEF Unlinked
  <2> QED
    BY <1>1, <1>6, <2>3 DEF Before
<1>7. CASE w # None
  <2>1. t.prev[w] # b /\ w \in K
    BY <1>1, <1>7 DEF Before
  <2>2. w # t.next[b]
    <3> SUFFICES ASSUME w = t.next[b] PROVE FALSE
      OBVIOUS
    <3>1. w \in later[b] /\ \A x \in later[b] : x = w \/ x \in later[w]
      BY <1>2, <1>7 DEF LinkedOn
    <3>2. t.prev[w] # None /\ t.prev[w] \in K /\ w \in later[t.prev[w]] /\ t.prev[w] \in later[b]
      BY <1>2, <2>1, <3>1 DEF LinkedBack
    <3> QED
      BY <1>2, <1>3, <2>1, <3>1, <3>2 DEF Ordering
  <2>3. u.prev[w] = t.prev[w]
    BY <1>2, <1>4, <2>1, <2>2 DEF Unlinked
  <2> QED
    BY <1>1, <1>7, <2>3 DEF Before
<1> QED
  BY <1>6, <1>7

LEMMA MoveTree ==
  ASSUME NEW t, IsTree(t), NEW a, NEW b, NEW p, NEW w, CanMove(t, a, b, p, w)
  PROVE  IsTree(MoveRange(t, a, b, p, w))
<1>1. PICK later : Forest(t, t.live, {Root}, later)
  BY TreeIs
<1>2. /\ TreeType(t) /\ DOMAIN t = Fields /\ t.live \subseteq Nodes /\ t.val \in [Nodes -> Values]
      /\ Alone(t) /\ Root \in t.live /\ None \notin t.live /\ t.grave \subseteq Nodes
  BY TreeIs DEF TreeType
<1>3. a # Root /\ IsRange(t, a, b)
  BY MoveApart DEF CanMove
<1>4. a \in t.live \ {Root} /\ Contains(Chain(t.next, a), b) /\ b \in t.live
  BY <1>3, RangeIs
<1>5. PICK S, u, run, v : S = t.live /\ u = Detach(t, a, b) /\ run = Run(t, a, b) /\ v = Before(t, p, w)
  OBVIOUS
<1>6. /\ p \in S /\ (w = None \/ (w \in S /\ t.parent[w] = p)) /\ w \notin ToSet(run) /\ v # b
      /\ ToSet(Chain(t.parent, p)) \cap ToSet(run) = {}
  BY <1>5 DEF CanMove, IsPlace
<1>7. w # Root
  BY <1>2, <1>5, <1>6 DEF Alone
<1>8. PICK R : R = Between(S \ {Root}, later, a, b)
  OBVIOUS
<1>9. /\ b \in S \ {Root} /\ (b = a \/ b \in later[a])
      /\ InOrder(run, S \ {Root}, later, R) /\ IsInjective(run) /\ run \in Seq(R) /\ run # <<>>
      /\ a \in R /\ b \in R
  <2>1. PICK T : T = {Root}
    OBVIOUS
  <2>2. Forest(t, S, T, later) /\ a \in S \ T /\ Contains(Chain(t.next, a), b) /\ run = Run(t, a, b)
    BY <1>1, <1>4, <1>5, <2>1
  <2>3. /\ b \in S \ T /\ (b = a \/ b \in later[a])
        /\ InOrder(run, S \ T, later, Between(S \ T, later, a, b)) /\ IsInjective(run)
        /\ run \in Seq(Between(S \ T, later, a, b))
        /\ a \in Between(S \ T, later, a, b) /\ b \in Between(S \ T, later, a, b)
    BY <2>2, RunIs
  <2>4. run # <<>>
    <3>1. run \in Seq(R) /\ a \in ToSet(run)
      BY <1>8, <2>1, <2>3 DEF InOrder
    <3>2. \E i \in 1..Len(run) : run[i] = a
      BY <3>1, SeqIs
    <3> QED
      BY <3>2
  <2> QED
    BY <1>8, <2>1, <2>3, <2>4
<1>10. ToSet(run) = R
  BY <1>9 DEF InOrder
<1>11. PICK D : Removed(t, u, S, {Root}, later, a, b, D)
  BY <1>1, <1>2, <1>4, <1>5, DetachForests
<1>12. PICK l1, l2 : l1 = Only(later, (S \ D) \ {Root}) /\ l2 = Only(later, D \ R)
  OBVIOUS
<1>13. /\ Bough(t, S, {Root}, R, D, t.parent[a]) /\ Forest(u, S \ D, {Root}, l1) /\ Forest(u, D, R, l2)
  BY <1>8, <1>11, <1>12 DEF Removed
<1>14. D \subseteq S /\ Root \notin D /\ R \subseteq D /\ Tops(D, R, t, {Root})
  BY <1>13 DEF Bough
<1>15. p \notin D
  <2>1. Bough(t, t.live, {Root}, R, D, t.parent[a]) /\ p \in t.live /\ ToSet(Chain(t.parent, p)) \cap R = {}
    BY <1>5, <1>6, <1>10, <1>13
  <2> QED
    BY <1>1, <2>1, NotBelow
<1>16. w \notin D
  BY <1>2, <1>5, <1>6, <1>7, <1>10, <1>14, <1>15 DEF Tops
<1>17. Unlinked(t, u, Nodes, a, b) /\ Repointed(t, u)
  BY <1>2, <1>4, <1>5, DetachIs
<1>18. Typed(u) /\ \A n \in Nodes : u.parent[n] = t.parent[n]
  BY <1>17 DEF Unlinked
<1>19. TreeType(u)
  BY <1>2, <1>17, <1>18, RepointedType
<1>20. v = Before(u, p, w)
  <2>1. Forest(t, S, {Root}, later) /\ a \in S \ {Root} /\ Before(t, p, w) # b
    BY <1>1, <1>4, <1>5, <1>6
  <2>2. w = None \/ (w \in S \ {Root} /\ t.parent[w] = p)
    BY <1>6, <1>7
  <2>3. Before(Detach(t, a, b), p, w) = Before(t, p, w)
    BY <1>2, <1>6, <1>9, <2>1, <2>2, PlaceSame
  <2> QED
    BY <1>5, <2>3
<1>21. PICK m : m = Merged((S \ D) \ {Root}, l1, R, RunLater(run, R), D \ R, l2,
                           BeforePlace(u, (S \ D) \ {Root}, l1, p, w),
                           FromPlace(u, (S \ D) \ {Root}, l1, p, w))
  OBVIOUS
<1>22. PICK d : d = Link(u, p, v, w, run)
  OBVIOUS
<1>23. Forest(d, (S \ D) \cup D, {Root}, m)
  <2>1. PICK L : L = S \ D
    OBVIOUS
  <2>2. Forest(u, L, {Root}, l1) /\ L \cap D = {} /\ p \in L
    BY <1>6, <1>13, <1>15, <2>1
  <2>3. w = None \/ (w \in L \ {Root} /\ u.parent[w] = p)
    BY <1>2, <1>5, <1>6, <1>7, <1>16, <1>18, <2>1
  <2>4. Forest(Link(u, p, v, w, run), L \cup D, {Root},
               Merged(L \ {Root}, l1, R, RunLater(run, R), D \ R, l2,
                      BeforePlace(u, L \ {Root}, l1, p, w), FromPlace(u, L \ {Root}, l1, p, w)))
    BY <1>9, <1>10, <1>13, <1>19, <1>20, <2>2, <2>3, LinkForests
  <2> QED
    BY <1>21, <1>22, <2>1, <2>4
<1>24. (S \ D) \cup D = S
  BY <1>14
<1>25. p \in Nodes /\ w \in Values /\ v \in Values /\ R \subseteq Nodes /\ Root \notin R
  <2>1. p \in Nodes /\ w \in Values /\ R \subseteq Nodes /\ Root \notin R
    BY <1>2, <1>5, <1>6, <1>14 DEF Values
  <2>2. v \in Values
    BY <1>2, <1>5, <2>1 DEF Before, TreeType, Values
  <2> QED
    BY <2>1, <2>2
<1>26. v # Root
  <2>1. /\ Ends(t, S, S \ {Root}, later) /\ LinkedBack(t, S \ {Root}, later)
    BY <1>1, <1>5 DEF Forest
  <2> QED
    BY <1>2, <1>5, <1>6, <1>7, <2>1 DEF Before, Ends, LinkedBack
<1>27. Linked(u, d, p, v, w, R, Head(run), Last(run)) /\ Repointed(u, d)
  BY <1>9, <1>10, <1>19, <1>22, <1>25, LinkIs
<1>28. Alone(u)
  BY <1>3, <1>5, RootStays
<1>29. Alone(d)
  BY <1>7, <1>19, <1>22, <1>25, <1>26, <1>27, <1>28, LinkAlone
<1>30. TreeType(d)
  <2>1. Typed(d)
    BY <1>27 DEF Linked
  <2> QED
    BY <1>19, <1>27, <2>1, RepointedType
<1>31. d.live = S
  BY <1>5, <1>17, <1>27 DEF Repointed
<1>32. Forest(d, d.live, {Root}, m)
  BY <1>23, <1>24, <1>31
<1>33. IsTree(d)
  BY <1>29, <1>30, <1>32, ForestTree
<1>34. d = MoveRange(t, a, b, p, w)
  BY <1>5, <1>22 DEF MoveRange
<1> QED
  BY <1>33, <1>34

-----------------------------------------------------------------------------
(* What the calls do besides.                                                *)
LEMMA SameTree ==
  ASSUME NEW t, IsTree(t), NEW u, TreeType(u), u.live = t.live,
         u.parent = t.parent, u.prev = t.prev, u.next = t.next, u.first = t.first, u.last = t.last
  PROVE  IsTree(u)
<1>1. PICK later : Forest(t, t.live, {Root}, later)
  BY TreeIs
<1>2. Forest(u, t.live, {Root}, later)
  BY <1>1, ForestSame
<1>3. Alone(u)
  BY TreeIs DEF Alone
<1> QED
  BY <1>2, <1>3, ForestTree

LEMMA IndexTree ==
  ASSUME NEW t, IsTree(t)
  PROVE  IsTree(WithIndex(t))
<1>1. PICK u : u = WithIndex(t)
  OBVIOUS
<1>2. TreeType(t) /\ DOMAIN t = Fields /\ t.live \subseteq Nodes /\ t.val \in [Nodes -> Values]
  BY TreeIs
<1>3. References(t, t.live) \subseteq Nodes \X Nodes
  BY <1>2, ReferencesIn
<1>4. /\ DOMAIN u = Fields /\ u.live = t.live /\ u.grave = t.grave /\ u.index = References(t, t.live)
      /\ u.val = t.val
      /\ u.parent = t.parent /\ u.prev = t.prev /\ u.next = t.next /\ u.first = t.first /\ u.last = t.last
  BY <1>1, <1>2 DEF WithIndex, Fields
<1>5. TreeType(u)
  BY <1>2, <1>3, <1>4 DEF TreeType, Fields
<1> QED
  BY <1>1, <1>4, <1>5, SameTree

LEMMA SetTree ==
  ASSUME NEW t, IsTree(t), NEW n \in Nodes, NEW v \in Values
  PROVE  IsTree(SetField(t, n, v))
<1>1. PICK u : u = SetField(t, n, v)
  OBVIOUS
<1>2. /\ TreeType(t) /\ DOMAIN t = Fields /\ t.live \subseteq Nodes /\ t.val \in [Nodes -> Values]
      /\ t.index \subseteq Nodes \X Nodes
  BY TreeIs DEF TreeType
<1>3. /\ DOMAIN u = Fields /\ u.live = t.live /\ u.grave = t.grave
      /\ u.index = (IF n \in t.live
                    THEN (t.index \ {<<t.val[n], n>>}) \cup {<<x, n>> : x \in {v} \ {None}} ELSE t.index)
      /\ u.val = [t.val EXCEPT ![n] = v]
      /\ u.parent = t.parent /\ u.prev = t.prev /\ u.next = t.next /\ u.first = t.first /\ u.last = t.last
  BY <1>1, <1>2 DEF SetField, Fields
<1>4. u.val \in [Nodes -> Values] /\ u.index \subseteq Nodes \X Nodes
  BY <1>2, <1>3 DEF Values
<1>5. TreeType(u)
  BY <1>2, <1>3, <1>4 DEF TreeType, Fields
<1> QED
  BY <1>1, <1>3, <1>5, SameTree

LEMMA FieldsTree ==
  ASSUME NEW t, IsTree(t), NEW patch, \A n \in DOMAIN patch : patch[n] \in Values
  PROVE  IsTree(WithFields(t, patch))
<1>1. PICK set, val, u : /\ set = DOMAIN patch \cap t.live /\ u = WithFields(t, patch)
                         /\ val = [n \in Nodes |-> IF n \in set THEN patch[n] ELSE t.val[n]]
  OBVIOUS
<1>2. /\ TreeType(t) /\ DOMAIN t = Fields /\ t.live \subseteq Nodes /\ t.val \in [Nodes -> Values]
      /\ t.index \subseteq Nodes \X Nodes
  BY TreeIs DEF TreeType
<1>3. PICK w : w = [t EXCEPT !.val = val]
  OBVIOUS
<1>4. val \in [Nodes -> Values]
  BY <1>1, <1>2
<1>5. w.val = val
  BY <1>2, <1>3 DEF Fields
<1>6. References(w, set) \subseteq Nodes \X Nodes
  BY <1>1, <1>2, <1>4, <1>5, ReferencesIn
<1>7. /\ DOMAIN u = Fields /\ u.live = t.live /\ u.grave = t.grave
      /\ u.index = (t.index \ References(t, set)) \cup References(w, set)
      /\ u.val = val
      /\ u.parent = t.parent /\ u.prev = t.prev /\ u.next = t.next /\ u.first = t.first /\ u.last = t.last
  BY <1>1, <1>2, <1>3 DEF WithFields, Fields
<1>8. TreeType(u)
  BY <1>2, <1>4, <1>6, <1>7 DEF TreeType, Fields
<1> QED
  BY <1>1, <1>7, <1>8, SameTree

(* Objects are reset that are not in the document.                           *)
LEMMA RebornIs ==
  ASSUME NEW t, TreeType(t), NEW S
  PROVE  LET u == Reborn(t, S) IN
         /\ TreeType(u) /\ u.live = t.live
         /\ \A n \in Nodes : n \notin S \/ (n \in t.live /\ n \notin t.grave) =>
              /\ u.parent[n] = t.parent[n] /\ u.prev[n] = t.prev[n] /\ u.next[n] = t.next[n]
              /\ u.first[n] = t.first[n] /\ u.last[n] = t.last[n] /\ u.val[n] = t.val[n]
         /\ \A n \in Nodes : n \in S /\ n \notin t.live =>
              /\ u.parent[n] = None /\ u.prev[n] = None /\ u.next[n] = None
              /\ u.first[n] = None /\ u.last[n] = None /\ u.val[n] = None
<1> DEFINE blank == S \cap (t.grave \cup (Nodes \ t.live))
           Clear(f) == [n \in Nodes |-> IF n \in blank THEN None ELSE f[n]]
<1>1. PICK u : u = Reborn(t, S)
  OBVIOUS
<1>2. /\ DOMAIN t = Fields /\ t.live \subseteq Nodes /\ t.grave \subseteq Nodes /\ t.index \subseteq Nodes \X Nodes
      /\ t.parent \in [Nodes -> Values] /\ t.prev \in [Nodes -> Values] /\ t.next \in [Nodes -> Values]
      /\ t.first \in [Nodes -> Values] /\ t.last \in [Nodes -> Values] /\ t.val \in [Nodes -> Values]
  BY DEF TreeType, Fields
<1>3. \A f \in [Nodes -> Values] : Clear(f) \in [Nodes -> Values]
  BY DEF Values
<1>4. \A f \in [Nodes -> Values] : \A n \in Nodes :
         /\ n \notin S \/ (n \in t.live /\ n \notin t.grave) => Clear(f)[n] = f[n]
         /\ n \in S /\ n \notin t.live => Clear(f)[n] = None
  OBVIOUS
<1>5. /\ DOMAIN u = Fields /\ u.live = t.live /\ u.index = t.index /\ u.grave = t.grave \ S
      /\ u.parent = Clear(t.parent) /\ u.prev = Clear(t.prev) /\ u.next = Clear(t.next)
      /\ u.first = Clear(t.first) /\ u.last = Clear(t.last) /\ u.val = Clear(t.val)
  BY <1>1, <1>2 DEF Reborn, Fields
<1> HIDE DEF Clear
<1>6. TreeType(u)
  BY <1>2, <1>3, <1>5 DEF TreeType, Fields
<1> QED
  BY <1>1, <1>2, <1>4, <1>5, <1>6

(* Nodes that nobody is below.                                               *)
LEMMA LeavesUnder ==
  ASSUME NEW t, Typed(t), NEW run \in Seq(Nodes), \A n \in ToSet(run) : Kids(t, n) = <<>> /\ Backwards(t, n) = <<>>
  PROVE  Under(t, run) = ToSet(run)
<1>1. PICK S : S = ToSet(run)
  OBVIOUS
<1>2. S \subseteq Nodes /\ run \in Seq(S) /\ \A n : Contains(run, n) <=> n \in S
  BY <1>1, SeqIs, SeqDef
<1>3. PICK From \in [Nat \X Seq(Nodes) -> Seq(Nodes)] :
            /\ \A queue \in Seq(Nodes) : PreOrder(t, queue) = From[<<Fuel, queue>>]
            /\ \A i \in Nat, queue \in Seq(Nodes) : From[<<i, queue>>] \in Seq(Nodes)
            /\ \A queue \in Seq(Nodes) : From[<<0, queue>>] = <<>>
            /\ \A i \in Nat : From[<<i, <<>> >>] = <<>>
            /\ \A i \in Nat, queue \in Seq(Nodes) \ {<<>>} :
                 From[<<i + 1, queue>>] =
                   <<Head(queue)>> \o From[<<i, Backwards(t, Head(queue)) \o Tail(queue)>>]
  BY PreOrderRule
<1> DEFINE I == {i \in Nat : \A queue \in Seq(S) : From[<<i, queue>>] \in Seq(S)}
<1>4. 0 \in I
  <2>1. \A queue \in Seq(S) : queue \in Seq(Nodes)
    BY <1>2, SeqMonotonic
  <2>2. <<>> \in Seq(S)
    OBVIOUS
  <2> QED
    BY <1>3, <2>1, <2>2
<1>5. ASSUME NEW i \in Nat, i \in I PROVE i + 1 \in I
  <2> SUFFICES ASSUME NEW queue \in Seq(S) PROVE From[<<i + 1, queue>>] \in Seq(S)
    OBVIOUS
  <2>1. queue \in Seq(Nodes) /\ <<>> \in Seq(S)
    BY <1>2, SeqMonotonic
  <2>2. CASE queue = <<>>
    <3>1. From[<<i + 1, <<>> >>] = <<>>
      BY <1>3
    <3> QED
      BY <2>1, <2>2, <3>1
  <2>3. CASE queue # <<>>
    <3>1. Head(queue) \in S /\ Tail(queue) \in Seq(S)
      BY <2>3, HeadTailIs
    <3>2. Backwards(t, Head(queue)) = <<>>
      BY <1>1, <3>1
    <3>3. Backwards(t, Head(queue)) \o Tail(queue) = Tail(queue)
      BY <3>1, <3>2, ConcatEmptySeq
    <3>4. From[<<i, Tail(queue)>>] \in Seq(S)
      BY <1>5, <3>1
    <3>5. From[<<i + 1, queue>>] = <<Head(queue)>> \o From[<<i, Tail(queue)>>]
      <4>1. From[<<i + 1, queue>>] =
              <<Head(queue)>> \o From[<<i, Backwards(t, Head(queue)) \o Tail(queue)>>]
        BY <1>3, <2>1, <2>3
      <4> QED
        BY <3>3, <4>1
    <3>6. <<Head(queue)>> \o From[<<i, Tail(queue)>>] \in Seq(S)
      BY <3>1, <3>4, ConsIs
    <3> QED
      BY <3>5, <3>6
  <2> QED
    BY <2>2, <2>3
<1> HIDE DEF I
<1>6. Nat \subseteq I
  BY <1>4, <1>5, Induction
<1>7. PICK r : r = PreOrder(t, run)
  OBVIOUS
<1>8. r \in Seq(S)
  BY <1>2, <1>3, <1>6, <1>7, FuelIs DEF I
<1>9. \A n : Contains(r, n) => n \in S
  BY <1>8, SeqIs
<1> QED
  BY <1>1, <1>2, <1>7, <1>9 DEF Under

LEMMA ForestOn ==
  ASSUME NEW t, NEW S, NEW T, NEW later, Forest(t, S, T, later), NEW u, Typed(u),
         \A n \in S : /\ u.parent[n] = t.parent[n] /\ u.prev[n] = t.prev[n] /\ u.next[n] = t.next[n]
                      /\ u.first[n] = t.first[n] /\ u.last[n] = t.last[n]
  PROVE  Forest(u, S, T, later)
<1>1. PICK K : K = S \ T
  OBVIOUS
<1>2. K \subseteq S /\ later \in [K -> SUBSET K] /\ \A a \in K : later[a] \subseteq S
  BY <1>1 DEF Forest, Siblings
<1>3. Siblings(u, K, later)
  BY <1>1, <1>2 DEF Forest, Siblings
<1>4. LinkedOn(u, K, later) /\ LinkedBack(u, K, later)
  BY <1>1, <1>2 DEF Forest, LinkedOn, LinkedBack
<1>5. Ends(u, S, K, later)
  BY <1>1, <1>2 DEF Forest, Ends
<1>6. Grounded(u, K)
  BY <1>1, <1>2 DEF Forest, Grounded
<1>7. /\ T \subseteq S /\ S \subseteq Nodes /\ \A k \in K : u.parent[k] \in S
  BY <1>1, <1>2 DEF Forest
<1> QED
  BY <1>1, <1>3, <1>4, <1>5, <1>6, <1>7 DEF Forest

LEMMA RebornTree ==
  ASSUME NEW t, IsTree(t), NEW S, S \cap t.live \cap t.grave = {}
  PROVE  IsTree(Reborn(t, S))
<1>1. PICK u : u = Reborn(t, S)
  OBVIOUS
<1>2. PICK later : Forest(t, t.live, {Root}, later)
  BY TreeIs
<1>3. /\ TreeType(t) /\ Alone(t) /\ t.live \subseteq Nodes /\ Root \in t.live
  BY TreeIs
<1>4. /\ TreeType(u) /\ u.live = t.live
      /\ \A n \in Nodes : n \notin S \/ (n \in t.live /\ n \notin t.grave) =>
              /\ u.parent[n] = t.parent[n] /\ u.prev[n] = t.prev[n] /\ u.next[n] = t.next[n]
              /\ u.first[n] = t.first[n] /\ u.last[n] = t.last[n] /\ u.val[n] = t.val[n]
  BY <1>1, <1>3, RebornIs
<1>5. \A n \in t.live :
              /\ u.parent[n] = t.parent[n] /\ u.prev[n] = t.prev[n] /\ u.next[n] = t.next[n]
              /\ u.first[n] = t.first[n] /\ u.last[n] = t.last[n]
  BY <1>3, <1>4
<1>6. Typed(u)
  BY <1>4, TypedIs
<1>7. Forest(u, t.live, {Root}, later)
  BY <1>2, <1>5, <1>6, ForestOn
<1>8. Alone(u)
  BY <1>3, <1>5 DEF Alone
<1> QED
  BY <1>1, <1>4, <1>7, <1>8, ForestTree

(* An insertion that brings ids.                                             *)
LEMMA InsertIdsTree ==
  ASSUME NEW s, IsTree(s), NEW run \in Seq(Nodes), run # <<>>, NEW t, t = Reborn(s, ToSet(run)),
         NEW p, NEW w, CanInsert(t, run, p, w)
  PROVE  IsTree(InsertInto(t, run, p, w))
<1>1. TreeType(s)
  BY TreeIs
<1>2. PICK S : S = ToSet(run)
  OBVIOUS
<1>3. S \subseteq Nodes /\ \A n : Contains(run, n) <=> n \in S
  BY <1>2, SeqIs
<1>4. /\ TreeType(t) /\ t.live = s.live
      /\ \A n \in Nodes : n \in S /\ n \notin s.live => t.first[n] = None /\ t.last[n] = None
  BY <1>1, <1>2, RebornIs
<1>5. S \cap s.live = {}
  <2>1. S \subseteq Under(t, run)
    BY <1>3 DEF Under
  <2>2. Under(t, run) \cap t.live = {}
    BY DEF CanInsert
  <2> QED
    BY <1>4, <2>1, <2>2
<1>6. IsTree(t)
  BY <1>2, <1>5, RebornTree
<1>7. Typed(t)
  BY <1>4, TypedIs
<1>8. ASSUME NEW n \in S PROVE Kids(t, n) = <<>> /\ Backwards(t, n) = <<>>
  <2>1. t.first[n] = None /\ t.last[n] = None /\ t.next \in [Nodes -> Values] /\ t.prev \in [Nodes -> Values]
    BY <1>3, <1>4, <1>5, <1>7 DEF Typed
  <2>2. None \in Values
    BY DEF Values
  <2>3. Chain(t.next, None) = <<>> /\ Chain(t.prev, None) = <<>>
    BY <2>1, <2>2, ChainSound
  <2>4. Reverse(<<>>) = <<>>
    BY DEF Reverse
  <2> QED
    BY <2>1, <2>3, <2>4 DEF Kids, Backwards
<1>9. Under(t, run) = S
  BY <1>2, <1>7, <1>8, LeavesUnder
<1>10. \A n \in Under(t, run) : Agree(t, n)
  <2>1. \A n \in S : Agree(t, n)
    BY <1>8 DEF Agree, ToSet
  <2> QED
    BY <1>9, <2>1
<1> QED
  BY <1>6, <1>10, InsertTree

-----------------------------------------------------------------------------
(* The nodes of a document and their fields, without the pointers.           *)

Shape(t) == DOMAIN t = Fields /\ t.live \subseteq Nodes /\ DOMAIN t.val = Nodes

(* The same nodes with the same fields.                                      *)
Alike(t, u) == Shape(u) /\ u.live = t.live /\ u.val = t.val /\ u.index = t.index

-----------------------------------------------------------------------------
(* What the operations leave of the nodes, the fields and the index.         *)

LEMMA DetachAlike ==
  ASSUME NEW t, Shape(t), NEW a, NEW b
  PROVE  Alike(t, Detach(t, a, b))
  BY DEF Alike, Shape, Fields, Detach

LEMMA LinkAlike ==
  ASSUME NEW t, Shape(t), NEW p, NEW before, NEW after, NEW run
  PROVE  Alike(t, Link(t, p, before, after, run))
  BY DEF Alike, Shape, Fields, Link

LEMMA MoveAlike ==
  ASSUME NEW t, Shape(t), NEW a, NEW b, NEW p, NEW at
  PROVE  Alike(t, MoveRange(t, a, b, p, at))
<1>1. Alike(t, Detach(t, a, b))
  BY DetachAlike
<1>2. Alike(Detach(t, a, b), MoveRange(t, a, b, p, at))
  BY <1>1, LinkAlike DEF MoveRange, Alike
<1> QED
  BY <1>1, <1>2 DEF Alike

LEMMA InsertEffect ==
  ASSUME NEW t, Shape(t), NEW run, NEW p, NEW at
  PROVE  LET u == InsertInto(t, run, p, at) IN
         /\ Shape(u) /\ u.val = t.val
         /\ u.live = t.live \cup Under(t, run)
         /\ u.index = t.index \cup References(t, Under(t, run))
<1> DEFINE u == Link(t, p, Before(t, p, at), at, run)
           new == Under(t, run)
<1>1. Alike(t, u)
  BY LinkAlike
<1>2. new \subseteq Nodes
  BY DEF Under
<1>3. References(u, new) = References(t, new)
  BY <1>1 DEF References, Alike
<1>4. InsertInto(t, run, p, at) =
        [u EXCEPT !.live = @ \cup new, !.index = @ \cup References(u, new)]
  BY DEF InsertInto
<1> HIDE DEF u, new
<1> QED
  BY <1>1, <1>2, <1>3, <1>4 DEF Alike, Shape, Fields, u, new

LEMMA DeleteEffect ==
  ASSUME NEW t, Shape(t), NEW a, NEW b
  PROVE  LET u == DeleteRange(t, a, b)   all == Under(t, Run(t, a, b)) IN
         /\ Shape(u) /\ u.val = t.val
         /\ u.live = t.live \ all
         /\ u.index = t.index \ References(t, all)
<1> DEFINE all == Under(t, Run(t, a, b))
<1>1. Alike(t, Detach(t, a, b))
  BY DetachAlike
<1>2. DeleteRange(t, a, b) =
        [Detach(t, a, b) EXCEPT !.live = @ \ all, !.grave = @ \cup all,
                                !.index = @ \ References(t, all)]
  BY DEF DeleteRange
<1> HIDE DEF all
<1> QED
  BY <1>1, <1>2 DEF Alike, Shape, Fields, all

LEMMA SetEffect ==
  ASSUME NEW t, Shape(t), NEW n, NEW v
  PROVE  LET u == SetField(t, n, v) IN
         /\ Shape(u) /\ u.live = t.live
         /\ \A m \in Nodes : u.val[m] = IF m = n THEN v ELSE t.val[m]
         /\ n \in t.live =>
              u.index = (t.index \ {<<t.val[n], n>>}) \cup {<<x, n>> : x \in {v} \ {None}}
         /\ n \notin t.live => u.index = t.index
  BY DEF SetField, Shape, Fields

LEMMA RebornEffect ==
  ASSUME NEW t, Shape(t), NEW S
  PROVE  LET u == Reborn(t, S) IN
         /\ Shape(u) /\ u.live = t.live /\ u.index = t.index
         /\ \A m \in t.live \ S : u.val[m] = t.val[m]
  BY DEF Reborn, Shape, Fields

LEMMA AppliedShape ==
  ASSUME NEW t, Shape(t), NEW o
  PROVE  Shape(Applied(t, o).tree)
<1> DEFINE s == IF o.op = "insert" THEN Reborn(t, ToSet(o.run)) ELSE t
<1>1. Shape(s)
  BY RebornEffect
<1> HIDE DEF s
<1>2. /\ \A run, p, at : Shape(InsertInto(s, run, p, at))
      /\ \A a, b : Shape(DeleteRange(s, a, b))
      /\ \A a, b, p, at : Shape(MoveRange(s, a, b, p, at))
  BY <1>1, InsertEffect, DeleteEffect, MoveAlike DEF Alike
<1>3. \/ Applied(t, o).tree = s
      \/ \E run, p, at : Applied(t, o).tree = InsertInto(s, run, p, at)
      \/ \E a, b : Applied(t, o).tree = DeleteRange(s, a, b)
      \/ \E a, b, p, at : Applied(t, o).tree = MoveRange(s, a, b, p, at)
  BY DEF Applied, s
<1> QED
  BY <1>1, <1>2, <1>3

LEMMA WithFieldsShape ==
  ASSUME NEW t, Shape(t), NEW patch
  PROVE  Shape(WithFields(t, patch))
  BY DEF WithFields, Shape, Fields

LEMMA WithIndexExact ==
  ASSUME NEW t, Shape(t)
  PROVE  /\ Shape(WithIndex(t))
         /\ WithIndex(t).index = References(WithIndex(t), WithIndex(t).live)
  BY DEF WithIndex, References, Shape, Fields

-----------------------------------------------------------------------------
(* The reverse index.                                                        *)

LEMMA ReferencesUnion ==
  ASSUME NEW t, NEW S, NEW T
  PROVE  References(t, S \cup T) = References(t, S) \cup References(t, T)
  BY DEF References

LEMMA ReferencesWithout ==
  ASSUME NEW t, NEW S, NEW T
  PROVE  References(t, S \ T) = References(t, S) \ References(t, T)
  BY DEF References

LEMMA ReferencesSame ==
  ASSUME NEW t, NEW u, NEW S, \A n \in S : u.val[n] = t.val[n]
  PROVE  References(u, S) = References(t, S)
  BY DEF References

Indexed(t) == t.index = References(t, t.live)

LEMMA InsertIndexed ==
  ASSUME NEW t, Shape(t), Indexed(t), NEW run, NEW p, NEW at
  PROVE  Indexed(InsertInto(t, run, p, at))
<1> DEFINE u == InsertInto(t, run, p, at)
<1>1. /\ u.val = t.val /\ u.live = t.live \cup Under(t, run)
      /\ u.index = t.index \cup References(t, Under(t, run))
  BY InsertEffect
<1> HIDE DEF u
<1>2. References(u, u.live) = References(t, u.live)
  BY <1>1, ReferencesSame
<1> QED
  BY <1>1, <1>2, ReferencesUnion DEF Indexed, u

LEMMA DeleteIndexed ==
  ASSUME NEW t, Shape(t), Indexed(t), NEW a, NEW b
  PROVE  Indexed(DeleteRange(t, a, b))
<1> DEFINE u == DeleteRange(t, a, b)
           all == Under(t, Run(t, a, b))
<1>1. /\ u.val = t.val /\ u.live = t.live \ all
      /\ u.index = t.index \ References(t, all)
  BY DeleteEffect
<1> HIDE DEF u, all
<1>2. References(u, u.live) = References(t, u.live)
  BY <1>1, ReferencesSame
<1> QED
  BY <1>1, <1>2, ReferencesWithout DEF Indexed, u

LEMMA MoveIndexed ==
  ASSUME NEW t, Shape(t), Indexed(t), NEW a, NEW b, NEW p, NEW at
  PROVE  Indexed(MoveRange(t, a, b, p, at))
  BY MoveAlike DEF Alike, Indexed, References

LEMMA SetIndexed ==
  ASSUME NEW t, Shape(t), Indexed(t), NEW n \in Nodes, NEW v
  PROVE  Indexed(SetField(t, n, v))
<1> DEFINE u == SetField(t, n, v)
<1>1. /\ u.live = t.live /\ t.live \subseteq Nodes
      /\ \A m \in Nodes : u.val[m] = IF m = n THEN v ELSE t.val[m]
      /\ n \in t.live =>
           u.index = (t.index \ {<<t.val[n], n>>}) \cup {<<x, n>> : x \in {v} \ {None}}
      /\ n \notin t.live => u.index = t.index
  BY SetEffect DEF Shape
<1> HIDE DEF u
<1>2. CASE n \notin t.live
  <2>1. References(u, t.live) = References(t, t.live)
    BY <1>1, <1>2, ReferencesSame
  <2> QED
    BY <1>1, <1>2, <2>1 DEF Indexed, u
<1>3. CASE n \in t.live
  <2>1. References(u, t.live \ {n}) = References(t, t.live \ {n})
    BY <1>1, ReferencesSame
  <2>2. References(u, {n}) = {<<x, n>> : x \in {v} \ {None}}
    BY <1>1 DEF References
  <2>3. References(t, t.live \ {n}) = t.index \ {<<t.val[n], n>>}
    BY <1>3 DEF Indexed, References
  <2>4. t.live = (t.live \ {n}) \cup {n}
    BY <1>3
  <2>5. References(u, t.live) = References(u, t.live \ {n}) \cup References(u, {n})
    BY <2>4, ReferencesUnion
  <2> QED
    BY <1>1, <1>3, <2>1, <2>2, <2>3, <2>5 DEF Indexed, u
<1> QED
  BY <1>2, <1>3

-----------------------------------------------------------------------------
(* The index and the fields agree between operations, and after a rollback.   *)

IndexInv == Shape(tree) /\ IndexExact

LEMMA IndexInit == Init => IndexInv
<1> SUFFICES ASSUME Init PROVE IndexInv
  OBVIOUS
<1>1. PICK t \in Starts : tree = WithIndex(t)
  BY DEF Init
<1>2. Shape(t)
  BY DocumentAssumption DEF IsTree, TreeType, Shape, Fields, Values
<1> QED
  BY <1>1, <1>2, WithIndexExact DEF IndexInv, IndexExact

LEMMA InsertIdsIndexed ==
  ASSUME NEW o, Shape(tree), Indexed(tree), InsertIds(o)
  PROVE  Shape(tree') /\ Indexed(tree')
<1> DEFINE t == Reborn(tree, ToSet(o.run))
           at == Target(t, o)
<1>1. /\ Shape(t) /\ t.live = tree.live /\ t.index = tree.index
      /\ \A m \in tree.live \ ToSet(o.run) : t.val[m] = tree.val[m]
  BY RebornEffect
<1>2. tree' = InsertInto(t, o.run, o.parent, at) /\ CanInsert(t, o.run, o.parent, at)
  BY DEF InsertIds, Call
<1> HIDE DEF t, at
<1>3. ToSet(o.run) \cap tree.live = {}
  <2>1. Under(t, o.run) \cap tree.live = {}
    BY <1>1, <1>2 DEF CanInsert
  <2>2. \A n \in ToSet(o.run) : Contains(o.run, n)
    BY DEF ToSet, Contains
  <2> QED
    BY <1>1, <2>1, <2>2 DEF Under, Shape
<1>4. References(t, t.live) = References(tree, tree.live)
  BY <1>1, <1>3, ReferencesSame
<1>5. Indexed(t)
  BY <1>1, <1>4 DEF Indexed
<1> QED
  BY <1>1, <1>2, <1>5, InsertEffect, InsertIndexed

(* An insertion that is skipped resets nothing that is in the document.      *)
LEMMA SkippedEffect ==
  ASSUME "revive" \notin Faults, Shape(tree), NEW n, InsertSkipped(n)
  PROVE  LET t == Reborn(tree, {n}) IN
         /\ Shape(t) /\ t.live = tree.live /\ \A m \in tree.live : t.val[m] = tree.val[m]
         /\ Indexed(tree) => Indexed(t)
<1> DEFINE t == Reborn(tree, {n})
<1>1. /\ Shape(t) /\ t.live = tree.live /\ t.index = tree.index
      /\ \A m \in tree.live \ {n} : t.val[m] = tree.val[m]
  BY RebornEffect
<1>2. n \notin tree.live
  BY DEF InsertSkipped, Spared
<1> HIDE DEF t
<1>3. References(t, t.live) = References(tree, tree.live)
  BY <1>1, <1>2, ReferencesSame
<1>4. Indexed(tree) => Indexed(t)
  BY <1>1, <1>3 DEF Indexed
<1> QED
  BY <1>1, <1>2, <1>4 DEF t

LEMMA IndexNext ==
  ASSUME "revive" \notin Faults, IndexInv, [Next]_vars
  PROVE  IndexInv'
<1>a. Shape(tree) /\ (stage # "abort" => Indexed(tree))
  BY DEF IndexInv, IndexExact, Indexed
<1>b. ASSUME Shape(tree'), stage' # "abort" => Indexed(tree') PROVE IndexInv'
  BY <1>b DEF IndexInv, IndexExact, Indexed
<1>c. ASSUME NEW t, NEW x, Call(t, x), Shape(t), Indexed(t) PROVE IndexInv'
  BY <1>b, <1>c DEF Call
<1>d. ASSUME NEW t, Close(t), Shape(t), Indexed(t) PROVE IndexInv'
  BY <1>b, <1>d DEF Close
<1>1. CASE Begin
  BY <1>1, <1>a, <1>b DEF Begin, Indexed, Shape
<1>2. CASE Commit
  BY <1>2, <1>a, <1>d DEF Commit
<1>3. CASE Abort
  BY <1>3, <1>a, <1>b DEF Abort, Rollback
<1>4. CASE Undo
  BY <1>4, <1>a, <1>b, AppliedShape DEF Undo
<1>5. CASE AbortDone
  <2>1. PICK t : Close(WithIndex(t)) /\ Shape(t)
    BY <1>5, <1>a, AppliedShape, WithFieldsShape DEF AbortDone
  <2> QED
    BY <2>1, <1>d, WithIndexExact DEF Indexed
<1>6. ASSUME NEW run, NEW p, NEW at, Insert(run, p, at) PROVE IndexInv'
  BY <1>6, <1>a, <1>c, InsertEffect, InsertIndexed DEF Insert, Open
<1>7. ASSUME NEW o, InsertIds(o) PROVE IndexInv'
  <2>1. stage = "update" /\ stage' = "update"
    BY <1>7 DEF InsertIds, Open, Call
  <2> QED
    BY <1>7, <2>1, <1>a, <1>b, InsertIdsIndexed
<1>8. ASSUME NEW run, InsertRefused(run) PROVE IndexInv'
  BY <1>8, <1>a, <1>b, RebornEffect DEF InsertRefused, Rollback
<1>9. ASSUME NEW a, NEW b, Delete(a, b) PROVE IndexInv'
  BY <1>9, <1>a, <1>c, DeleteEffect, DeleteIndexed DEF Delete, Open
<1>10. ASSUME NEW a, NEW b, NEW p, NEW at, Move(a, b, p, at) PROVE IndexInv'
  BY <1>10, <1>a, <1>c, MoveAlike, MoveIndexed DEF Move, Open, Alike
<1>11. ASSUME NEW n \in Nodes, NEW v, Set(n, v) PROVE IndexInv'
  BY <1>11, <1>a, <1>c, SetEffect, SetIndexed DEF Set, Open
<1>12. ASSUME NEW n \in Nodes, NEW v, Patch(n, v) PROVE IndexInv'
  BY <1>12, <1>a, <1>c, SetEffect, SetIndexed DEF Patch, Open
<1>13. CASE UNCHANGED vars
  BY <1>13, <1>a, <1>b DEF vars, Indexed, Shape
<1>14. ASSUME NEW n \in Nodes, InsertSkipped(n) PROVE IndexInv'
  BY <1>14, <1>a, <1>c, SkippedEffect DEF InsertSkipped, Open
<1> QED
  BY <1>1, <1>2, <1>3, <1>4, <1>5, <1>6, <1>7, <1>8, <1>9, <1>10, <1>11, <1>12, <1>13, <1>14
     DEF Next, AnyCall

(* The reverse index is what a fresh one built from the fields would be,     *)
(* whatever is inserted, revived, deleted, moved, written or rolled back      *)
(* (_refs_add, _refs_remove, _refs_update, _rebuild_ref_index), as long as    *)
(* nobody inserts by id, below nothing there is, a node that is there again. *)
THEOREM IndexCorrect ==
  ASSUME "revive" \notin Faults
  PROVE  Spec => []IndexExact
<1>1. IndexInv => IndexExact
  BY DEF IndexInv
<1>2. IndexInv /\ [Next]_vars => IndexInv'
  BY IndexNext
<1> QED
  BY IndexInit, <1>1, <1>2, PTL DEF Spec

-----------------------------------------------------------------------------
(* What a transaction knows of its changes.                                  *)

Parts == {"ops", "inverse", "patch", "undoPatch", "inserted", "deleted", "moved", "updated"}

(* A node that was there and stays: either it was away meanwhile, or its     *)
(* first value is known, and a change of it is.                              *)
FieldKnown(t, x, was, n) ==
    /\ n \in DOMAIN x.undoPatch => x.undoPatch[n] = was.val[n]
    /\ n \notin DOMAIN x.undoPatch => t.val[n] = was.val[n]
    /\ t.val[n] # was.val[n] => n \in x.updated

Known(t, x, was, away) ==
    /\ DOMAIN x = Parts
    /\ t.live \subseteq was.live \cup x.inserted \cup away
    /\ t.live \cap away \subseteq x.inserted \cup x.updated
    /\ was.live \ t.live \subseteq x.deleted
    /\ x.deleted \subseteq away /\ x.deleted \cap t.live = {}
    /\ x.inserted \cap was.live = {}
    /\ x.updated \subseteq x.moved \cup DOMAIN x.patch
    /\ \A n \in (t.live \cap was.live) \ away : FieldKnown(t, x, was, n)

(* The inductive invariant.                                                  *)
KnownInv ==
    /\ stage = "idle" => tx = NoRecord /\ base = tree /\ gone = {}
    /\ stage = "update" => Known(tree, tx, base, gone)

LEMMA KnownInsert ==
  ASSUME NEW t, NEW u, NEW x, NEW was, NEW away, Known(t, x, was, away),
         NEW run, NEW p, NEW at, NEW s, Under(s, run) \cap t.live = {},
         u.live = t.live \cup Under(s, run), \A n \in t.live : u.val[n] = t.val[n]
  PROVE  LET y == RecordInsert(x, s, run, p, at) IN Known(u, y, was, away \cup y.deleted)
<1> DEFINE y == RecordInsert(x, s, run, p, at)
           all == Under(s, run)
<1>1. /\ DOMAIN y = Parts /\ y.undoPatch = x.undoPatch
      /\ y.inserted = x.inserted \cup (all \ x.deleted)
      /\ y.deleted = x.deleted \ all
      /\ y.moved = x.moved \cup (all \cap x.deleted)
      /\ y.updated = x.updated \cup (all \cap x.deleted)
      /\ DOMAIN x.patch \subseteq DOMAIN y.patch
  BY DEF Known, Parts, RecordInsert
<1> HIDE DEF y, all
<1>2. away \cup y.deleted = away
  BY <1>1 DEF Known
<1>3. \A n \in (u.live \cap was.live) \ away : FieldKnown(u, y, was, n)
  <2> SUFFICES ASSUME NEW n \in (u.live \cap was.live) \ away PROVE FieldKnown(u, y, was, n)
    OBVIOUS
  <2>1. n \in t.live
    BY <1>1 DEF Known
  <2>2. FieldKnown(t, x, was, n) /\ u.val[n] = t.val[n]
    BY <2>1 DEF Known
  <2> QED
    BY <1>1, <2>2 DEF FieldKnown
<1>4. Known(u, y, was, away)
  BY <1>1, <1>3 DEF Known, all
<1> QED
  BY <1>2, <1>4 DEF y

LEMMA KnownDelete ==
  ASSUME NEW t, NEW u, NEW x, NEW was, NEW away, Known(t, x, was, away), NEW a, NEW b,
         u.live = t.live \ Under(t, Run(t, a, b)), u.val = t.val
  PROVE  LET y == RecordDelete(x, t, a, b) IN Known(u, y, was, away \cup y.deleted)
<1> DEFINE y == RecordDelete(x, t, a, b)
           all == Under(t, Run(t, a, b))
<1>1. /\ DOMAIN y = Parts
      /\ y.inserted = x.inserted \ all
      /\ y.deleted = x.deleted \cup (all \ x.inserted)
      /\ y.moved = x.moved \ (all \cap x.inserted)
      /\ y.updated = x.updated \ all
      /\ y.patch = Without(x.patch, all)
  BY DEF Known, Parts, RecordDelete
<1>2. \A n : n \notin all => /\ n \in DOMAIN y.undoPatch <=> n \in DOMAIN x.undoPatch
                             /\ n \in DOMAIN x.undoPatch => y.undoPatch[n] = x.undoPatch[n]
  BY DEF Known, Parts, RecordDelete
<1>3. DOMAIN y.patch = DOMAIN x.patch \ all
  BY <1>1 DEF Without, Restrict
<1> HIDE DEF y, all
<1>4. \A n \in (u.live \cap was.live) \ (away \cup y.deleted) : FieldKnown(u, y, was, n)
  <2> SUFFICES ASSUME NEW n \in (u.live \cap was.live) \ (away \cup y.deleted)
               PROVE FieldKnown(u, y, was, n)
    OBVIOUS
  <2>1. n \notin all /\ n \in t.live /\ u.val[n] = t.val[n]
    BY DEF all
  <2>2. FieldKnown(t, x, was, n)
    BY <2>1 DEF Known
  <2> QED
    BY <1>1, <1>2, <2>1, <2>2 DEF FieldKnown
<1>5. Known(u, y, was, away \cup y.deleted)
  BY <1>1, <1>3, <1>4 DEF Known, all
<1> QED
  BY <1>5 DEF y

LEMMA KnownMove ==
  ASSUME NEW t, NEW u, NEW x, NEW was, NEW away, Known(t, x, was, away),
         NEW a, NEW b, NEW p, NEW at, u.live = t.live, u.val = t.val
  PROVE  LET y == RecordMove(x, t, a, b, p, at) IN Known(u, y, was, away \cup y.deleted)
<1> DEFINE y == RecordMove(x, t, a, b, p, at)
<1>1. /\ DOMAIN y = Parts /\ y.undoPatch = x.undoPatch /\ y.patch = x.patch
      /\ y.inserted = x.inserted /\ y.deleted = x.deleted /\ y.updated = x.updated
      /\ x.moved \subseteq y.moved
  BY DEF Known, Parts, RecordMove
<1> HIDE DEF y
<1>2. away \cup y.deleted = away
  BY <1>1 DEF Known
<1>3. Known(u, y, was, away)
  BY <1>1 DEF Known, FieldKnown
<1> QED
  BY <1>2, <1>3 DEF y

(* A write to a node of the document, whichever of the two records it.       *)
LEMMA KnownWrite ==
  ASSUME NEW t, NEW u, NEW x, NEW was, NEW away, Known(t, x, was, away),
         NEW n \in t.live, NEW v, NEW y,
         ~(n \in away /\ v = Original(x, t, n)[n]),
         u.live = t.live, \A m \in t.live : u.val[m] = IF m = n THEN v ELSE t.val[m],
         \/ y = Changed(x, t, n, v)
         \/ y = Unchanged(x, n) /\ (n \in x.inserted \/ v = Original(x, t, n)[n])
  PROVE  Known(u, y, was, away \cup y.deleted)
<1>1. /\ DOMAIN y = Parts
      /\ y.inserted = x.inserted /\ y.deleted = x.deleted /\ y.moved = x.moved
  BY DEF Known, Parts, Changed, Unchanged
<1>2. away \cup y.deleted = away
  BY <1>1 DEF Known
<1>3. \A m : m # n => /\ m \in DOMAIN y.undoPatch <=> m \in DOMAIN x.undoPatch
                      /\ m \in DOMAIN x.undoPatch => y.undoPatch[m] = x.undoPatch[m]
                      /\ m \in DOMAIN y.patch <=> m \in DOMAIN x.patch
                      /\ m \in y.updated <=> m \in x.updated
  <2>1. CASE y = Changed(x, t, n, v)
    <3>1. /\ y.undoPatch = Original(x, t, n) /\ y.patch = With(x.patch, n, v)
          /\ y.updated = x.updated \cup ({n} \ x.inserted)
      BY <2>1 DEF Known, Parts, Changed
    <3>2. \/ Original(x, t, n) = x.undoPatch
          \/ Original(x, t, n) = With(x.undoPatch, n, t.val[n])
      BY DEF Original
    <3> QED
      BY <3>1, <3>2 DEF With
  <2>2. CASE y = Unchanged(x, n)
    <3>1. /\ y.undoPatch = Without(x.undoPatch, {n}) /\ y.patch = Without(x.patch, {n})
          /\ y.updated = x.updated \ {n}
      BY <2>2 DEF Known, Parts, Unchanged
    <3> QED
      BY <3>1 DEF Without, Restrict
  <2> QED
    BY <2>1, <2>2
<1>4. ASSUME n \in (was.live \ away) PROVE n \notin x.inserted /\ Original(x, t, n)[n] = was.val[n]
  <2>1. n \notin x.inserted /\ FieldKnown(t, x, was, n)
    BY <1>4 DEF Known
  <2> QED
    BY <2>1 DEF FieldKnown, Original, With
<1>5. CASE y = Changed(x, t, n, v)
  <2>1. /\ y.undoPatch = Original(x, t, n)
        /\ n \in DOMAIN y.patch /\ n \in x.inserted \cup y.updated
        /\ y.updated \subseteq x.updated \cup {n}
    BY <1>5 DEF Known, Parts, Changed, With
  <2>2. ASSUME n \in (was.live \ away) PROVE FieldKnown(u, y, was, n)
    <3>1. n \in DOMAIN Original(x, t, n)
      BY <1>4, <2>2 DEF Original, With
    <3> QED
      BY <1>4, <2>1, <2>2, <3>1 DEF FieldKnown
  <2>3. \A m \in (u.live \cap was.live) \ away : FieldKnown(u, y, was, m)
    BY <1>3, <2>2 DEF Known, FieldKnown
  <2>4. y.updated \subseteq y.moved \cup DOMAIN y.patch
    BY <1>1, <1>3, <2>1 DEF Known
  <2>5. u.live \cap away \subseteq y.inserted \cup y.updated
    BY <1>1, <1>3, <2>1 DEF Known
  <2> QED
    BY <1>1, <1>2, <2>3, <2>4, <2>5 DEF Known
<1>6. CASE y = Unchanged(x, n) /\ (n \in x.inserted \/ v = Original(x, t, n)[n])
  <2>1. n \notin DOMAIN y.undoPatch /\ n \notin y.updated
    BY <1>6 DEF Known, Parts, Unchanged, Without, Restrict
  <2>2. ASSUME n \in (was.live \ away) PROVE FieldKnown(u, y, was, n)
    BY <1>4, <1>6, <2>1, <2>2 DEF FieldKnown
  <2>3. \A m \in (u.live \cap was.live) \ away : FieldKnown(u, y, was, m)
    BY <1>3, <2>2 DEF Known, FieldKnown
  <2>4. y.updated \subseteq y.moved \cup DOMAIN y.patch
    BY <1>1, <1>3, <2>1 DEF Known
  <2>5. u.live \cap away \subseteq y.inserted \cup y.updated
    BY <1>1, <1>3, <1>6 DEF Known
  <2> QED
    BY <1>1, <1>2, <2>3, <2>4, <2>5 DEF Known
<1> QED
  BY <1>5, <1>6

LEMMA KnownInit == Init => KnownInv
  BY DEF Init, KnownInv

LEMMA KnownBegin ==
  ASSUME NEW t, Shape(t)
  PROVE  Known(t, NoRecord, t, {})
  BY DEF Known, NoRecord, NoPatch, Parts, FieldKnown

(* A host's assignment and a peer's patch take a node out of what was        *)
(* changed only when it has the value it had at first.                       *)
LEMMA RecordSetCases ==
  ASSUME NEW x, NEW t, NEW n, NEW v
  PROVE  LET y == RecordSet(x, t, n, v) IN
         \/ y = Changed(x, t, n, v)
         \/ y = Unchanged(x, n) /\ (n \in x.inserted \/ v = Original(x, t, n)[n])
  BY DEF RecordSet, Original, With

LEMMA RecordPatchCases ==
  ASSUME NEW x, NEW t, NEW n, NEW v
  PROVE  LET y == RecordPatch(x, t, n, v) IN
         \/ y = Changed(x, t, n, v)
         \/ y = Unchanged(x, n) /\ (n \in x.inserted \/ v = Original(x, t, n)[n])
  BY DEF RecordPatch

(* What each kind of call leaves known.                                      *)

LEMMA InsertKnown ==
  ASSUME NEW t, Shape(t), NEW x, NEW was, NEW away, Known(t, x, was, away),
         NEW run, NEW p, NEW at, Under(t, run) \cap t.live = {}
  PROVE  LET y == RecordInsert(x, t, run, p, at) IN
         Known(InsertInto(t, run, p, at), y, was, away \cup y.deleted)
<1> DEFINE u == InsertInto(t, run, p, at)
<1>1. u.live = t.live \cup Under(t, run) /\ u.val = t.val
  BY InsertEffect
<1> HIDE DEF u
<1> QED
  BY <1>1, KnownInsert DEF u

LEMMA InsertIdsKnown ==
  ASSUME NEW s, Shape(s), NEW x, NEW was, NEW away, Known(s, x, was, away),
         NEW run, NEW p, NEW at, NEW t, t = Reborn(s, ToSet(run)),
         Under(t, run) \cap t.live = {}
  PROVE  LET y == RecordInsert(x, t, run, p, at) IN
         Known(InsertInto(t, run, p, at), y, was, away \cup y.deleted)
<1> DEFINE u == InsertInto(t, run, p, at)
<1>1. Shape(t) /\ t.live = s.live /\ \A m \in s.live \ ToSet(run) : t.val[m] = s.val[m]
  BY RebornEffect
<1>2. u.live = t.live \cup Under(t, run) /\ u.val = t.val
  BY <1>1, InsertEffect
<1> HIDE DEF u
<1>3. ToSet(run) \cap s.live = {}
  <2>1. \A n \in ToSet(run) : Contains(run, n)
    BY DEF ToSet, Contains
  <2> QED
    BY <1>1, <2>1 DEF Under, Shape
<1>4. \A m \in s.live : u.val[m] = s.val[m]
  BY <1>1, <1>2, <1>3
<1> QED
  BY <1>1, <1>2, <1>4, KnownInsert DEF u

LEMMA DeleteKnown ==
  ASSUME NEW t, Shape(t), NEW x, NEW was, NEW away, Known(t, x, was, away), NEW a, NEW b
  PROVE  LET y == RecordDelete(x, t, a, b) IN
         Known(DeleteRange(t, a, b), y, was, away \cup y.deleted)
<1> DEFINE u == DeleteRange(t, a, b)
<1>1. u.live = t.live \ Under(t, Run(t, a, b)) /\ u.val = t.val
  BY DeleteEffect
<1> HIDE DEF u
<1> QED
  BY <1>1, KnownDelete DEF u

LEMMA MoveKnown ==
  ASSUME NEW t, Shape(t), NEW x, NEW was, NEW away, Known(t, x, was, away),
         NEW a, NEW b, NEW p, NEW at
  PROVE  LET y == RecordMove(x, t, a, b, p, at) IN
         Known(MoveRange(t, a, b, p, at), y, was, away \cup y.deleted)
<1> DEFINE u == MoveRange(t, a, b, p, at)
<1>1. u.live = t.live /\ u.val = t.val
  BY MoveAlike DEF Alike
<1> HIDE DEF u
<1> QED
  BY <1>1, KnownMove DEF u

LEMMA WriteKnown ==
  ASSUME NEW t, Shape(t), NEW x, NEW was, NEW away, Known(t, x, was, away),
         NEW n \in t.live, NEW v, NEW y,
         ~(n \in away /\ v = Original(x, t, n)[n]),
         \/ y = Changed(x, t, n, v)
         \/ y = Unchanged(x, n) /\ (n \in x.inserted \/ v = Original(x, t, n)[n])
  PROVE  Known(SetField(t, n, v), y, was, away \cup y.deleted)
<1> DEFINE u == SetField(t, n, v)
<1>1. u.live = t.live /\ \A m \in t.live : u.val[m] = IF m = n THEN v ELSE t.val[m]
  BY SetEffect DEF Shape
<1> HIDE DEF u
<1> QED
  BY <1>1, KnownWrite DEF u

LEMMA SkippedKnown ==
  ASSUME "revive" \notin Faults, Shape(tree), NEW was, NEW away, Known(tree, tx, was, away),
         NEW n, InsertSkipped(n)
  PROVE  Known(Reborn(tree, {n}), tx, was, away \cup tx.deleted)
<1>1. PICK t : t = Reborn(tree, {n})
  OBVIOUS
<1>2. t.live = tree.live /\ \A m \in tree.live : t.val[m] = tree.val[m]
  BY <1>1, SkippedEffect
<1>3. Known(t, tx, was, away) /\ away \cup tx.deleted = away
  BY <1>2 DEF Known, FieldKnown
<1> QED
  BY <1>1, <1>3

LEMMA WriteAwayKnown ==
  ASSUME NEW t, Shape(t), NEW x, NEW was, NEW away, Known(t, x, was, away),
         NEW n \in Nodes \ t.live, NEW v
  PROVE  Known(SetField(t, n, v), x, was, away \cup x.deleted)
<1> DEFINE u == SetField(t, n, v)
<1>1. u.live = t.live /\ \A m \in t.live : u.val[m] = t.val[m]
  BY SetEffect DEF Shape
<1> HIDE DEF u
<1>2. Known(u, x, was, away) /\ away \cup x.deleted = away
  BY <1>1 DEF Known, FieldKnown
<1> QED
  BY <1>2 DEF u

LEMMA KnownNext ==
  ASSUME {"give back", "revive"} \cap Faults = {}, IndexInv, KnownInv, [Next]_vars
  PROVE  KnownInv'
<1>a. Shape(tree) /\ (stage = "update" => Known(tree, tx, base, gone))
  BY DEF IndexInv, KnownInv
<1>b. ASSUME NEW t, NEW x, Call(t, x), Known(t, x, base, gone \cup x.deleted), stage = "update"
      PROVE  KnownInv'
  BY <1>b DEF Call, KnownInv
<1>c. ASSUME NEW t, Close(t) PROVE KnownInv'
  BY <1>c DEF Close, KnownInv
<1>d. ASSUME stage' = "abort" PROVE KnownInv'
  BY <1>d DEF KnownInv
<1>1. CASE Begin
  BY <1>1, <1>a, KnownBegin DEF Begin, KnownInv
<1>2. CASE Commit
  BY <1>2, <1>c DEF Commit
<1>3. CASE Abort
  BY <1>3, <1>d DEF Abort, Rollback
<1>4. CASE Undo
  BY <1>4, <1>d DEF Undo
<1>5. CASE AbortDone
  BY <1>5, <1>c DEF AbortDone
<1>6. ASSUME NEW run, NEW p, NEW at, Insert(run, p, at) PROVE KnownInv'
  <2>1. /\ stage = "update" /\ Under(tree, run) \cap tree.live = {}
        /\ Call(InsertInto(tree, run, p, at), RecordInsert(tx, tree, run, p, at))
    BY <1>6 DEF Insert, Open, CanInsert
  <2> QED
    BY <1>a, <1>b, <2>1, InsertKnown
<1>7. ASSUME NEW o, InsertIds(o) PROVE KnownInv'
  <2>1. PICK t, at :
          /\ stage = "update" /\ t = Reborn(tree, ToSet(o.run))
          /\ Under(t, o.run) \cap t.live = {}
          /\ Call(InsertInto(t, o.run, o.parent, at), RecordInsert(tx, t, o.run, o.parent, at))
    BY <1>7 DEF InsertIds, Open, CanInsert
  <2> QED
    BY <1>a, <1>b, <2>1, InsertIdsKnown
<1>8. ASSUME NEW run, InsertRefused(run) PROVE KnownInv'
  BY <1>8, <1>d DEF InsertRefused, Rollback
<1>9. ASSUME NEW a, NEW b, Delete(a, b) PROVE KnownInv'
  BY <1>9, <1>a, <1>b, DeleteKnown DEF Delete, Open
<1>10. ASSUME NEW a, NEW b, NEW p, NEW at, Move(a, b, p, at) PROVE KnownInv'
  BY <1>10, <1>a, <1>b, MoveKnown DEF Move, Open
<1>e. ASSUME NEW n \in tree.live, NEW v, NEW y, stage = "update",
             Call(SetField(tree, n, v), y), Spared("give back", GivenBack(n, v)),
             \/ y = Changed(tx, tree, n, v)
             \/ /\ y = Unchanged(tx, n)
                /\ n \in tx.inserted \/ v = Original(tx, tree, n)[n]
      PROVE  KnownInv'
  <2>1. ~(n \in gone /\ v = Original(tx, tree, n)[n])
    BY <1>e DEF Spared, GivenBack
  <2> QED
    BY <1>a, <1>b, <1>e, <2>1, WriteKnown
<1>11. ASSUME NEW n \in Nodes, NEW v, Set(n, v) PROVE KnownInv'
  <2>1. stage = "update" /\ Spared("give back", GivenBack(n, v))
    BY <1>11 DEF Set, Open
  <2>2. CASE n \in tree.live
    <3>1. Call(SetField(tree, n, v), RecordSet(tx, tree, n, v))
      BY <1>11, <2>2 DEF Set
    <3> QED
      BY <1>e, <2>1, <2>2, <3>1, RecordSetCases
  <2>3. CASE n \notin tree.live
    <3>1. Call(SetField(tree, n, v), tx)
      BY <1>11, <2>3 DEF Set
    <3> QED
      BY <1>a, <1>b, <2>1, <2>3, <3>1, WriteAwayKnown
  <2> QED
    BY <2>2, <2>3
<1>12. ASSUME NEW n \in Nodes, NEW v, Patch(n, v) PROVE KnownInv'
  <2>1. /\ stage = "update" /\ Spared("give back", GivenBack(n, v)) /\ n \in tree.live
        /\ Call(SetField(tree, n, v), RecordPatch(tx, tree, n, v))
    BY <1>12 DEF Patch, Open
  <2> QED
    BY <1>e, <2>1, RecordPatchCases
<1>13. CASE UNCHANGED vars
  BY <1>13 DEF vars, KnownInv, Known, FieldKnown
<1>14. ASSUME NEW n \in Nodes, InsertSkipped(n) PROVE KnownInv'
  BY <1>14, <1>a, <1>b, SkippedKnown DEF InsertSkipped, Open
<1> QED
  BY <1>1, <1>2, <1>3, <1>4, <1>5, <1>6, <1>7, <1>8, <1>9, <1>10, <1>11, <1>12, <1>13, <1>14
     DEF Next, AnyCall

-----------------------------------------------------------------------------
(* Then the two checks of a commit find every reference it would leave.      *)

LEMMA CommitResolves ==
  ASSUME IndexInv, KnownInv, Commit
  PROVE  Dangling(tree') \subseteq Dangling(base)
<1> SUFFICES ASSUME NEW n \in tree.live, tree.val[n] \notin tree.live \cup {None}
             PROVE  n \in Dangling(base)
  BY DEF Commit, Close, Dangling
<1>1. Known(tree, tx, base, gone) /\ tree.index = References(tree, tree.live)
  BY DEF Commit, KnownInv, IndexInv, IndexExact
<1>2. CheckRefIntegrity(tree, tx)
  <2>1. CASE HasChanges(tx)
    BY <2>1 DEF Commit
  <2>2. CASE ~HasChanges(tx)
    <3>1. tx.inserted = {} /\ tx.deleted = {} /\ tx.moved = {} /\ DOMAIN tx.patch = {}
      BY <2>2 DEF HasChanges
    <3>2. tx.updated = {}
      BY <1>1, <3>1 DEF Known
    <3> QED
      BY <3>1, <3>2 DEF CheckRefIntegrity
  <2> QED
    BY <2>1, <2>2
<1>3. n \notin tx.inserted \cup tx.updated
  BY <1>2 DEF CheckRefIntegrity
<1>4. n \in base.live \ gone
  BY <1>1, <1>3 DEF Known
<1>5. base.val[n] = tree.val[n]
  BY <1>1, <1>3, <1>4 DEF Known, FieldKnown
<1>6. tree.val[n] \notin base.live
  <2> SUFFICES ASSUME tree.val[n] \in base.live PROVE FALSE
    OBVIOUS
  <2>1. tree.val[n] \in tx.deleted
    BY <1>1 DEF Known
  <2>2. <<tree.val[n], n>> \in tree.index
    BY <1>1 DEF References
  <2> QED
    BY <1>2, <2>1, <2>2 DEF CheckRefIntegrity
<1> QED
  BY <1>4, <1>5, <1>6 DEF Dangling

(* A commit leaves no reference that resolves to nothing and did not before,  *)
(* although only what the transaction recorded is checked                    *)
(* (_check_ref_integrity), as long as nobody gives a node that was deleted    *)
(* and inserted again the value it had, or inserts by id one that is there.   *)
THEOREM ReferencesResolve ==
  ASSUME {"give back", "revive"} \cap Faults = {}
  PROVE  Spec => RefsResolve
<1>1. Init => IndexInv /\ KnownInv
  BY IndexInit, KnownInit
<1>2. IndexInv /\ KnownInv /\ [Next]_vars => (IndexInv /\ KnownInv)'
  BY IndexNext, KnownNext
<1>3. IndexInv /\ KnownInv => [Commit => Dangling(tree') \subseteq Dangling(base)]_vars
  BY CommitResolves
<1> QED
  BY <1>1, <1>2, <1>3, PTL DEF Spec, RefsResolve

-----------------------------------------------------------------------------
(* What is recorded can be applied.                                          *)
LEMMA KeepIs ==
  ASSUME NEW s, NEW S, Len(s) \in Nat
  PROVE  Keep(s, S) \in Seq(S)
<1> DEFINE A == Nat \X Seq(S)
           grow(k, q) == IF s[k] \in S THEN Append(q, s[k]) ELSE q
           first == <<0, <<>>>>
           step == [w \in A |-> <<w[1] + 1, grow(w[1] + 1, w[2])>>]
<1>1. \A k, q : q \in Seq(S) => grow(k, q) \in Seq(S)
  <2> SUFFICES ASSUME NEW k, NEW q \in Seq(S) PROVE grow(k, q) \in Seq(S)
    OBVIOUS
  <2>1. CASE s[k] \in S
    BY <2>1, AppendProperties
  <2>2. CASE s[k] \notin S
    BY <2>2
  <2> QED
    BY <2>1, <2>2
<1>2. first \in A /\ step \in [A -> A]
  <2> HIDE DEF grow
  <2>1. first \in A
    BY EmptySeq
  <2>2. ASSUME NEW w \in A PROVE <<w[1] + 1, grow(w[1] + 1, w[2])>> \in A
    <3>1. w[1] + 1 \in Nat /\ w[2] \in Seq(S)
      OBVIOUS
    <3>2. grow(w[1] + 1, w[2]) \in Seq(S)
      BY <1>1, <3>1
    <3> QED
      BY <3>1, <3>2
  <2> QED
    BY <2>1, <2>2
<1>3. PICK F \in [Nat -> A] : F[0] = first /\ \A i \in Nat : F[i + 1] = step[F[i]]
  <2>1. PICK B, z, st : B = A /\ z = first /\ st = step
    OBVIOUS
  <2>2. z \in B /\ st \in [B -> B]
    BY <1>2, <2>1
  <2> HIDE DEF A, first, step, grow
  <2>3. \E f : f \in Iterated(B, z, st)
    BY <2>2, RecursionExists
  <2> QED
    BY <2>1, <2>3 DEF Iterated
<1> HIDE DEF grow
<1> DEFINE I == {i \in Nat : F[i][1] = i}
<1>4. Nat \subseteq I
  <2>1. 0 \in I
    BY <1>3
  <2>2. ASSUME NEW i \in Nat, i \in I PROVE i + 1 \in I
    <3>1. F[i] \in A /\ F[i + 1] = step[F[i]] /\ F[i][1] = i
      BY <1>3, <2>2
    <3>2. F[i + 1] = <<F[i][1] + 1, grow(F[i][1] + 1, F[i][2])>>
      BY <3>1
    <3> QED
      BY <3>1, <3>2
  <2> HIDE DEF I
  <2> QED
    BY <2>1, <2>2, Induction
<1> DEFINE G == [i \in Nat |-> F[i][2]]
<1>5. G \in [Nat -> Seq(S)] /\ G[0] = <<>> /\ \A i \in Nat : G[i + 1] = grow(i + 1, G[i])
  <2>1. \A i \in Nat : F[i] \in A /\ F[i][1] = i
    BY <1>3, <1>4
  <2>2. G[0] = <<>>
    BY <1>3
  <2>3. ASSUME NEW i \in Nat PROVE G[i + 1] = grow(i + 1, G[i])
    <3>1. F[i + 1] = <<F[i][1] + 1, grow(F[i][1] + 1, F[i][2])>>
      BY <1>3, <2>1
    <3>2. F[i + 1][2] = grow(i + 1, F[i][2])
      BY <2>1, <3>1
    <3> QED
      BY <3>2
  <2> QED
    BY <2>1, <2>2, <2>3
<1>6. G = [i \in Nat |-> IF i = 0 THEN <<>>
                         ELSE IF s[i] \in S THEN Append(G[i - 1], s[i]) ELSE G[i - 1]]
  <2> HIDE DEF G
  <2>1. ASSUME NEW i \in Nat
        PROVE  G[i] = IF i = 0 THEN <<>> ELSE IF s[i] \in S THEN Append(G[i - 1], s[i]) ELSE G[i - 1]
    <3>1. CASE i = 0
      BY <1>5, <3>1
    <3>2. CASE i # 0
      <4>1. PICK k \in Nat : k = i - 1 /\ i = k + 1
        BY <3>2
      <4>2. G[k + 1] = grow(k + 1, G[k])
        BY <1>5
      <4>3. G[k + 1] = IF s[k + 1] \in S THEN Append(G[k], s[k + 1]) ELSE G[k]
        BY <4>2 DEF grow
      <4> QED
        BY <3>2, <4>1, <4>3
    <3> QED
      BY <3>1, <3>2
  <2> QED
    BY <1>5, <2>1
<1> HIDE DEF G
<1> DEFINE K == CHOOSE f : f = [i \in Nat |-> IF i = 0 THEN <<>>
                         ELSE IF s[i] \in S THEN Append(f[i - 1], s[i]) ELSE f[i - 1]]
<1>8. K = [i \in Nat |-> IF i = 0 THEN <<>>
                         ELSE IF s[i] \in S THEN Append(K[i - 1], s[i]) ELSE K[i - 1]]
  BY <1>6
<1>9. Keep(s, S) = K[Len(s)]
  BY DEF Keep
<1> HIDE DEF K
<1>10. K[0] = <<>>
  BY <1>8
<1>11. ASSUME NEW i \in Nat PROVE K[i + 1] = grow(i + 1, K[i])
  <2>1. i + 1 \in Nat /\ i + 1 # 0 /\ (i + 1) - 1 = i
    OBVIOUS
  <2>2. K[i + 1] = IF s[i + 1] \in S THEN Append(K[(i + 1) - 1], s[i + 1]) ELSE K[(i + 1) - 1]
    BY <1>8, <2>1
  <2> QED
    BY <2>1, <2>2 DEF grow
<1> DEFINE J == {i \in Nat : K[i] \in Seq(S)}
<1>12. 0 \in J /\ \A i \in Nat : i \in J => i + 1 \in J
  <2>1. K[0] \in Seq(S)
    BY <1>10, EmptySeq
  <2>2. ASSUME NEW i \in Nat, i \in J PROVE i + 1 \in J
    <3>1. K[i] \in Seq(S)
      BY <2>2
    <3>2. grow(i + 1, K[i]) \in Seq(S)
      BY <1>1, <3>1
    <3>3. K[i + 1] = grow(i + 1, K[i])
      BY <1>11
    <3>4. K[i + 1] \in Seq(S) /\ i + 1 \in Nat
      BY <3>2, <3>3
    <3> QED
      BY <3>4
  <2> QED
    BY <2>1, <2>2
<1> HIDE DEF J
<1>13. Nat \subseteq J
  BY <1>12, Induction
<1> QED
  BY <1>9, <1>13 DEF J

(* Operations that put a run in have one.                                    *)
Puts(o) == o.op = "insert" => o.run \in Seq(Nodes) /\ o.run # <<>>
Sound(q) == \E S : q \in Seq(S) /\ \A o \in S : Puts(o)

LEMMA SoundEmpty == Sound(<<>>)
<1>1. PICK S : S = {}
  OBVIOUS
<1>2. <<>> \in Seq(S) /\ \A o \in S : Puts(o)
  BY <1>1, EmptySeq
<1> QED
  BY <1>2 DEF Sound

LEMMA SoundAppend ==
  ASSUME NEW q, Sound(q), NEW o, Puts(o)
  PROVE  Sound(Append(q, o))
<1>1. PICK S : q \in Seq(S) /\ \A p \in S : Puts(p)
  BY DEF Sound
<1>2. PICK T : T = S \cup {o}
  OBVIOUS
<1>3. S \subseteq T /\ o \in T /\ \A p \in T : Puts(p)
  BY <1>1, <1>2
<1>4. q \in Seq(T)
  BY <1>1, <1>3, SeqMonotonic
<1>5. Append(q, o) \in Seq(T)
  BY <1>3, <1>4, AppendProperties
<1> QED
  BY <1>3, <1>5 DEF Sound

LEMMA SoundConcat ==
  ASSUME NEW q, Sound(q), NEW r, Sound(r)
  PROVE  Sound(q \o r)
<1>1. PICK S : q \in Seq(S) /\ \A p \in S : Puts(p)
  BY DEF Sound
<1>2. PICK T : r \in Seq(T) /\ \A p \in T : Puts(p)
  BY DEF Sound
<1>3. PICK U : U = S \cup T
  OBVIOUS
<1>4. S \subseteq U /\ T \subseteq U /\ \A p \in U : Puts(p)
  BY <1>1, <1>2, <1>3
<1>5. q \in Seq(U) /\ r \in Seq(U)
  BY <1>1, <1>2, <1>4, SeqMonotonic
<1>6. q \o r \in Seq(U)
  BY <1>5, ConcatProperties
<1> QED
  BY <1>4, <1>6 DEF Sound

LEMMA SoundReverse ==
  ASSUME NEW q, Sound(q)
  PROVE  Sound(Reverse(q))
<1>1. PICK S : q \in Seq(S) /\ \A p \in S : Puts(p)
  BY DEF Sound
<1>2. Reverse(q) \in Seq(S)
  BY <1>1, ReverseIs
<1> QED
  BY <1>1, <1>2 DEF Sound

LEMMA SoundNext ==
  ASSUME NEW q, Sound(q), q # <<>>
  PROVE  Puts(Head(q)) /\ Sound(Tail(q))
<1>1. PICK S : q \in Seq(S) /\ \A p \in S : Puts(p)
  BY DEF Sound
<1>2. Head(q) \in S /\ Tail(q) \in Seq(S)
  BY <1>1, HeadTailIs
<1> QED
  BY <1>1, <1>2 DEF Sound

LEMMA SoundOver ==
  ASSUME NEW S, NEW s \in Seq(S), NEW f, f = [i \in DOMAIN s |-> f[i]], \A i \in DOMAIN s : Puts(f[i])
  PROVE  Sound(f)
<1>1. Len(s) \in Nat /\ DOMAIN s = 1..Len(s)
  BY SeqIs
<1>2. PICK T : T = {f[i] : i \in DOMAIN s}
  OBVIOUS
<1>3. f \in [1..Len(s) -> T]
  BY <1>1, <1>2
<1>4. f \in Seq(T)
  BY <1>1, <1>3, SeqDef
<1>5. \A o \in T : Puts(o)
  BY <1>2
<1> QED
  BY <1>4, <1>5 DEF Sound

LEMMA KidsType ==
  ASSUME NEW t, Typed(t), NEW n \in Nodes
  PROVE  Kids(t, n) \in Seq(Nodes)
<1>1. t.next \in [Nodes -> Values] /\ t.first[n] \in Values
  BY DEF Typed
<1> QED
  BY <1>1, ChainSound DEF Kids

-----------------------------------------------------------------------------
(* What a transaction has recorded can be applied.                           *)
Recorded(x) ==
  /\ DOMAIN x = Parts /\ Sound(x.inverse) /\ x.deleted \subseteq Nodes
  /\ \A n \in DOMAIN x.undoPatch : x.undoPatch[n] \in Values

LEMMA NothingRecorded == Recorded(NoRecord)
  BY SoundEmpty DEF Recorded, NoRecord, NoPatch, Parts

LEMMA InsertRecorded ==
  ASSUME NEW x, Recorded(x), NEW t, TreeType(t), NEW run \in Seq(Nodes), NEW p, NEW w
  PROVE  Recorded(RecordInsert(x, t, run, p, w))
<1>1. PICK y, lists, new, old :
         /\ y = RecordInsert(x, t, run, p, w)
         /\ lists = Lists(t, run) /\ new = x.inserted \cup (Under(t, run) \ x.deleted)
         /\ old = Keep(lists, {l \in ToSet(lists) : l.parent \notin new})
  OBVIOUS
<1>2. PICK heads : heads = Keep(PreOrder(t, run), {n \in Nodes : ~Contains(run, n) /\ t.prev[n] = None})
  OBVIOUS
<1>3. heads \in Seq({n \in Nodes : ~Contains(run, n) /\ t.prev[n] = None})
  <2>1. PreOrder(t, run) \in Seq(Nodes)
    BY TypedIs, PreOrderType
  <2>2. Len(PreOrder(t, run)) \in Nat
    BY <2>1, LenProperties
  <2> QED
    BY <1>2, <2>2, KeepIs
<1>4. Len(lists) \in Nat
  <2>1. lists = [i \in DOMAIN heads |-> [parent |-> t.parent[heads[i]],
                                         kids |-> Kids(t, t.parent[heads[i]])]]
    BY <1>1, <1>2 DEF Lists
  <2>2. Len(heads) \in Nat /\ DOMAIN heads = 1..Len(heads)
    BY <1>3, SeqIs
  <2>3. DOMAIN lists = 1..Len(heads)
    BY <2>1, <2>2
  <2>4. Len(lists) = Len(heads)
    BY <2>1, <2>2, <2>3
  <2> QED
    BY <2>2, <2>4
<1>5. old \in Seq({l \in ToSet(lists) : l.parent \notin new})
  BY <1>1, <1>4, KeepIs
<1>6. PICK back : back = [i \in DOMAIN old |-> DeleteOp(Head(old[i].kids), Last(old[i].kids))]
  OBVIOUS
<1>7. Sound(back)
  <2>1. \A i \in DOMAIN old : Puts(back[i])
    BY <1>6 DEF DeleteOp, Puts
  <2>2. back = [i \in DOMAIN old |-> back[i]]
    BY <1>6
  <2> QED
    BY <1>5, <2>1, <2>2, SoundOver
<1>8. Sound(IF p \in x.inserted THEN x.inverse ELSE Append(x.inverse, DeleteOp(Head(run), Last(run))))
  <2>1. PICK o, q : o = DeleteOp(Head(run), Last(run)) /\ q = x.inverse
    OBVIOUS
  <2>2. Puts(o) /\ Sound(q)
    BY <2>1 DEF DeleteOp, Puts, Recorded
  <2>3. Sound(Append(q, o))
    BY <2>2, SoundAppend
  <2> QED
    BY <2>1, <2>2, <2>3
<1>9. /\ DOMAIN y = Parts /\ y.undoPatch = x.undoPatch /\ y.deleted = x.deleted \ Under(t, run)
      /\ y.inverse = (IF p \in x.inserted THEN x.inverse
                      ELSE Append(x.inverse, DeleteOp(Head(run), Last(run)))) \o back
  BY <1>1, <1>6 DEF RecordInsert, Recorded, Parts
<1>10. Sound(y.inverse)
  BY <1>7, <1>8, <1>9, SoundConcat
<1> QED
  BY <1>1, <1>9, <1>10 DEF Recorded

LEMMA DeleteRecorded ==
  ASSUME NEW x, Recorded(x), NEW t, TreeType(t), NEW a, NEW b,
         Run(t, a, b) \in Seq(Nodes), Run(t, a, b) # <<>>
  PROVE  Recorded(RecordDelete(x, t, a, b))
<1>1. PICK run, y, parents :
         /\ run = Run(t, a, b) /\ y = RecordDelete(x, t, a, b)
         /\ parents = Keep(PreOrder(t, run), {n \in Nodes : Kids(t, n) # <<>>})
  OBVIOUS
<1>2. Typed(t) /\ run \in Seq(Nodes) /\ run # <<>> /\ t.val \in [Nodes -> Values]
  BY <1>1, TypedIs
<1>3. parents \in Seq({n \in Nodes : Kids(t, n) # <<>>})
  <2>1. PreOrder(t, run) \in Seq(Nodes)
    BY <1>2, PreOrderType
  <2>2. Len(PreOrder(t, run)) \in Nat
    BY <2>1, LenProperties
  <2> QED
    BY <1>1, <2>2, KeepIs
<1>4. PICK below : below = [i \in DOMAIN parents |-> InsertOp(Kids(t, parents[i]), parents[i], None, None)]
  OBVIOUS
<1>5. Sound(below)
  <2>1. ASSUME NEW i \in DOMAIN parents PROVE Puts(below[i])
    <3>1. parents[i] \in Nodes /\ Kids(t, parents[i]) # <<>>
      BY <1>3, SeqIs
    <3>2. Kids(t, parents[i]) \in Seq(Nodes)
      BY <1>2, <3>1, KidsType
    <3> QED
      BY <1>4, <3>1, <3>2 DEF InsertOp, Puts
  <2>2. below = [i \in DOMAIN parents |-> below[i]]
    BY <1>4
  <2> QED
    BY <1>3, <2>1, <2>2, SoundOver
<1>6. PICK top : top = InsertOp(run, t.parent[a], t.prev[a], t.next[b])
  OBVIOUS
<1>7. Sound(<<top>>)
  <2>1. Puts(top)
    BY <1>2, <1>6 DEF InsertOp, Puts
  <2>2. PICK S : S = {top}
    OBVIOUS
  <2>3. <<top>> \in Seq(S) /\ \A o \in S : Puts(o)
    BY <2>1, <2>2, OneIs
  <2> QED
    BY <2>3 DEF Sound
<1>8. Sound(x.inverse \o Reverse(<<top>> \o below))
  BY <1>5, <1>7, SoundConcat, SoundReverse DEF Recorded
<1>9. PICK state : state = DOMAIN x.undoPatch \cup {n \in Under(t, run) \ x.inserted : t.val[n] # None}
  OBVIOUS
<1>10. /\ DOMAIN y = Parts /\ y.deleted = x.deleted \cup (Under(t, run) \ x.inserted)
       /\ y.inverse = (IF t.parent[a] \in x.inserted THEN x.inverse
                       ELSE x.inverse \o Reverse(<<top>> \o below))
       /\ y.undoPatch = [n \in state |-> IF n \in DOMAIN x.undoPatch THEN x.undoPatch[n] ELSE t.val[n]]
  BY <1>1, <1>4, <1>6, <1>9 DEF RecordDelete, Recorded, Parts
<1>11. Sound(y.inverse)
  BY <1>8, <1>10 DEF Recorded
<1>12. \A n \in DOMAIN y.undoPatch : y.undoPatch[n] \in Values
  <2>1. Under(t, run) \subseteq Nodes
    BY DEF Under
  <2> QED
    BY <1>2, <1>9, <1>10, <2>1 DEF Recorded
<1>13. y.deleted \subseteq Nodes
  BY <1>10 DEF Recorded, Under
<1> QED
  BY <1>1, <1>10, <1>11, <1>12, <1>13 DEF Recorded

LEMMA MoveRecorded ==
  ASSUME NEW x, Recorded(x), NEW t, NEW a, NEW b, NEW p, NEW w
  PROVE  Recorded(RecordMove(x, t, a, b, p, w))
<1>1. PICK y, o : y = RecordMove(x, t, a, b, p, w) /\ o = MoveOp(a, b, t.parent[a], t.prev[a], t.next[b])
  OBVIOUS
<1>2. Puts(o)
  BY <1>1 DEF MoveOp, Puts
<1>3. DOMAIN y = Parts /\ y.inverse = Append(x.inverse, o) /\ y.deleted = x.deleted /\ y.undoPatch = x.undoPatch
  BY <1>1 DEF RecordMove, Recorded, Parts
<1> QED
  BY <1>1, <1>2, <1>3, SoundAppend DEF Recorded

LEMMA WriteRecorded ==
  ASSUME NEW x, Recorded(x), NEW t, TreeType(t), NEW n \in Nodes, NEW v, NEW y,
         y = Changed(x, t, n, v) \/ y = Unchanged(x, n)
  PROVE  Recorded(y)
<1>1. t.val[n] \in Values
  BY TypedIs
<1>2. PICK was : was = Original(x, t, n)
  OBVIOUS
<1>3. \A m \in DOMAIN was : was[m] \in Values
  BY <1>1, <1>2 DEF Original, With, Recorded
<1>4. CASE y = Changed(x, t, n, v)
  <2>1. DOMAIN y = Parts /\ y.inverse = x.inverse /\ y.deleted = x.deleted /\ y.undoPatch = was
    BY <1>2, <1>4 DEF Changed, Recorded, Parts
  <2> QED
    BY <1>3, <2>1 DEF Recorded
<1>5. CASE y = Unchanged(x, n)
  <2>1. /\ DOMAIN y = Parts /\ y.inverse = x.inverse /\ y.deleted = x.deleted
        /\ y.undoPatch = Without(x.undoPatch, {n})
    BY <1>5 DEF Unchanged, Recorded, Parts
  <2>2. \A m \in DOMAIN y.undoPatch : y.undoPatch[m] \in Values
    BY <2>1 DEF Without, Restrict, Recorded
  <2> QED
    BY <2>1, <2>2 DEF Recorded
<1> QED
  BY <1>4, <1>5

LEMMA RunType ==
  ASSUME NEW t, IsTree(t), NEW a, NEW b, IsRange(t, a, b), a # Root
  PROVE  Run(t, a, b) \in Seq(Nodes) /\ Run(t, a, b) # <<>>
<1>1. PICK later : Forest(t, t.live, {Root}, later)
  BY TreeIs
<1>2. a \in t.live \ {Root} /\ Contains(Chain(t.next, a), b) /\ t.live \subseteq Nodes
  BY RangeIs, TreeIs
<1>3. PICK S, T, run, R : /\ S = t.live /\ T = {Root} /\ run = Run(t, a, b)
                          /\ R = Between(S \ T, later, a, b)
  OBVIOUS
<1>4. Forest(t, S, T, later) /\ a \in S \ T /\ Contains(Chain(t.next, a), b) /\ run = Run(t, a, b)
  BY <1>1, <1>2, <1>3
<1>5. /\ InOrder(run, S \ T, later, Between(S \ T, later, a, b))
      /\ run \in Seq(Between(S \ T, later, a, b)) /\ a \in Between(S \ T, later, a, b)
  BY <1>4, RunIs
<1>6. R \subseteq Nodes
  BY <1>2, <1>3 DEF Between
<1>7. run \in Seq(Nodes)
  BY <1>3, <1>5, <1>6, SeqMonotonic
<1>8. a \in ToSet(run)
  BY <1>5 DEF InOrder
<1>9. run # <<>>
  BY <1>7, <1>8, SeqIs
<1> QED
  BY <1>3, <1>7, <1>9

LEMMA AppliedTree ==
  ASSUME NEW s, IsTree(s), NEW o, Puts(o), o.op = "insert" => ToSet(o.run) \cap s.live = {}
  PROVE  IsTree(Applied(s, o).tree)
<1>1. PICK t, a, b, p, at, r :
         /\ t = IF o.op = "insert" THEN Reborn(s, ToSet(o.run)) ELSE s
         /\ a = Head(o.run) /\ b = Last(o.run) /\ p = Parent(t, o) /\ at = Target(t, o)
         /\ r = Applied(s, o).tree
  OBVIOUS
<1>2. IsTree(t)
  BY <1>1, RebornTree
<1>3. \/ o.op = "insert" /\ CanInsert(t, o.run, p, at) /\ r = InsertInto(t, o.run, p, at)
      \/ CanDelete(t, a, b) /\ r = DeleteRange(t, a, b)
      \/ CanMove(t, a, b, p, at) /\ r = MoveRange(t, a, b, p, at)
      \/ r = t
  BY <1>1 DEF Applied
<1>4. CASE o.op = "insert" /\ CanInsert(t, o.run, p, at) /\ r = InsertInto(t, o.run, p, at)
  <2>1. o.run \in Seq(Nodes) /\ o.run # <<>> /\ t = Reborn(s, ToSet(o.run))
    BY <1>1, <1>4 DEF Puts
  <2> QED
    BY <1>1, <1>4, <2>1, InsertIdsTree
<1>5. CASE CanDelete(t, a, b) /\ r = DeleteRange(t, a, b)
  BY <1>1, <1>2, <1>5, DeleteTree
<1>6. CASE CanMove(t, a, b, p, at) /\ r = MoveRange(t, a, b, p, at)
  BY <1>1, <1>2, <1>6, MoveTree
<1> QED
  BY <1>1, <1>2, <1>3, <1>4, <1>5, <1>6

-----------------------------------------------------------------------------
(* The inductive invariant: the document is a tree, and what is recorded and *)
(* what is left to roll back can be applied.                                 *)
TreeInv == Pointers /\ Recorded(tx) /\ Sound(todo)

LEMMA TreeInit == Init => TreeInv
<1> SUFFICES ASSUME Init PROVE TreeInv
  OBVIOUS
<1>1. PICK t \in Starts : tree = WithIndex(t)
  BY DEF Init
<1>2. IsTree(tree)
  BY <1>1, DocumentAssumption, IndexTree
<1>3. TreeType(tree)
  BY <1>2, TreeIs
<1>4. TypeOK
  BY <1>3, DocumentAssumption DEF Init, TypeOK
<1> QED
  BY <1>2, <1>4, NothingRecorded, SoundEmpty DEF Init, TreeInv, Pointers

LEMMA CallTree ==
  ASSUME TreeInv, Open, NEW t, NEW x, Call(t, x), IsTree(t), Recorded(x)
  PROVE  TreeInv'
<1>1. TreeType(t) /\ x.deleted \subseteq Nodes
  BY TreeIs DEF Recorded
<1>2. calls + 1 \in 0..MaxCalls
  BY DocumentAssumption DEF Open, TreeInv, Pointers, TypeOK
<1>3. TypeOK'
  BY <1>1, <1>2 DEF Call, Open, TreeInv, Pointers, TypeOK
<1> QED
  BY <1>3 DEF Call, TreeInv, Pointers, IsTree, Recorded

LEMMA CloseTree ==
  ASSUME TreeInv, NEW t, Close(t), IsTree(t)
  PROVE  TreeInv'
<1>1. TreeType(t)
  BY TreeIs
<1>2. TypeOK'
  BY <1>1, DocumentAssumption DEF Close, TreeInv, Pointers, TypeOK
<1>3. Recorded(tx') /\ Sound(todo')
  BY NothingRecorded, SoundEmpty DEF Close
<1> QED
  BY <1>2, <1>3 DEF Close, TreeInv, Pointers

LEMMA RollbackTree ==
  ASSUME TreeInv, NEW t, Rollback(t), IsTree(t)
  PROVE  TreeInv'
<1>1. TreeType(t)
  BY TreeIs
<1>2. TypeOK'
  BY <1>1 DEF Rollback, TreeInv, Pointers, TypeOK
<1>3. Sound(todo') /\ Recorded(tx')
  BY SoundReverse DEF Rollback, TreeInv, Recorded
<1> QED
  BY <1>2, <1>3 DEF Rollback, TreeInv, Pointers

LEMMA RunsAre ==
  ASSUME NEW run \in Runs
  PROVE  run \in Seq(Nodes) /\ run # <<>>
<1>1. CASE run \in Singles
  <2>1. PICK n \in Nodes : run = <<n>>
    BY <1>1 DEF Singles
  <2> QED
    BY <2>1
<1>2. CASE run \notin Singles
  <2>1. PICK n, m : n \in Nodes /\ m \in Nodes /\ run = <<n, m>>
    BY <1>2 DEF Runs
  <2> QED
    BY <2>1
<1> QED
  BY <1>1, <1>2

LEMMA CallsTree ==
  ASSUME {"stale", "revive"} \cap Faults = {}, TreeInv, AnyCall
  PROVE  TreeInv'
<1>1. IsTree(tree) /\ TreeType(tree) /\ Recorded(tx)
  BY TreeIs DEF TreeInv, Pointers
<1>2. ASSUME NEW run \in Runs, NEW p \in Nodes, NEW at \in Values, Insert(run, p, at) PROVE TreeInv'
  <2>1. run \in Seq(Nodes) /\ run # <<>>
    BY RunsAre
  <2>2. Open /\ CanInsert(tree, run, p, at) /\ \A n \in Under(tree, run) : Agree(tree, n)
    BY <1>2 DEF Insert, Spared, Stale
  <2>3. Call(InsertInto(tree, run, p, at), RecordInsert(tx, tree, run, p, at))
    BY <1>2 DEF Insert
  <2>4. IsTree(InsertInto(tree, run, p, at))
    BY <1>1, <2>1, <2>2, InsertTree
  <2>5. Recorded(RecordInsert(tx, tree, run, p, at))
    BY <1>1, <2>1, InsertRecorded
  <2> QED
    BY <2>2, <2>3, <2>4, <2>5, CallTree
<1>3. ASSUME NEW o \in InsertsOf(Runs), InsertIds(o) PROVE TreeInv'
  <2>1. o.run \in Runs
    BY DEF InsertsOf, InsertOp
  <2>2. o.run \in Seq(Nodes) /\ o.run # <<>>
    BY <2>1, RunsAre
  <2>3. PICK t, at : t = Reborn(tree, ToSet(o.run)) /\ at = Target(t, o)
    OBVIOUS
  <2>4. /\ Open /\ CanInsert(t, o.run, o.parent, at)
        /\ Call(InsertInto(t, o.run, o.parent, at), RecordInsert(tx, t, o.run, o.parent, at))
    BY <1>3, <2>3 DEF InsertIds
  <2>5. IsTree(InsertInto(t, o.run, o.parent, at))
    BY <1>1, <2>2, <2>3, <2>4, InsertIdsTree
  <2>6. TreeType(t)
    BY <1>1, <2>3, RebornIs
  <2>7. Recorded(RecordInsert(tx, t, o.run, o.parent, at))
    BY <1>1, <2>2, <2>6, InsertRecorded
  <2> QED
    BY <2>4, <2>5, <2>7, CallTree
<1>4. ASSUME NEW a \in Nodes, NEW b \in Nodes, Delete(a, b) PROVE TreeInv'
  <2>1. Open /\ CanDelete(tree, a, b) /\ Call(DeleteRange(tree, a, b), RecordDelete(tx, tree, a, b))
    BY <1>4 DEF Delete
  <2>2. IsTree(DeleteRange(tree, a, b))
    BY <1>1, <2>1, DeleteTree
  <2>3. Run(tree, a, b) \in Seq(Nodes) /\ Run(tree, a, b) # <<>>
    BY <1>1, <2>1, RunType DEF CanDelete
  <2>4. Recorded(RecordDelete(tx, tree, a, b))
    BY <1>1, <2>3, DeleteRecorded
  <2> QED
    BY <2>1, <2>2, <2>4, CallTree
<1>5. ASSUME NEW a \in Nodes, NEW b \in Nodes, NEW p \in Nodes, NEW at \in Values, Move(a, b, p, at)
      PROVE  TreeInv'
  <2>1. /\ Open /\ CanMove(tree, a, b, p, at)
        /\ Call(MoveRange(tree, a, b, p, at), RecordMove(tx, tree, a, b, p, at))
    BY <1>5 DEF Move
  <2>2. IsTree(MoveRange(tree, a, b, p, at))
    BY <1>1, <2>1, MoveTree
  <2>3. Recorded(RecordMove(tx, tree, a, b, p, at))
    BY <1>1, MoveRecorded
  <2> QED
    BY <2>1, <2>2, <2>3, CallTree
<1>6. ASSUME NEW n \in Nodes, NEW v \in Values, Set(n, v) PROVE TreeInv'
  <2>1. PICK y : y = IF n \in tree.live THEN RecordSet(tx, tree, n, v) ELSE tx
    OBVIOUS
  <2>2. Open /\ Call(SetField(tree, n, v), y)
    BY <1>6, <2>1 DEF Set
  <2>3. IsTree(SetField(tree, n, v))
    BY <1>1, SetTree
  <2>4. Recorded(y)
    <3>1. y = tx \/ y = Changed(tx, tree, n, v) \/ y = Unchanged(tx, n)
      BY <2>1, RecordSetCases
    <3> QED
      BY <1>1, <3>1, WriteRecorded
  <2> QED
    BY <2>2, <2>3, <2>4, CallTree
<1>7. ASSUME NEW n \in Nodes, NEW v \in Values, Patch(n, v) PROVE TreeInv'
  <2>1. PICK y : y = RecordPatch(tx, tree, n, v)
    OBVIOUS
  <2>2. Open /\ Call(SetField(tree, n, v), y)
    BY <1>7, <2>1 DEF Patch
  <2>3. IsTree(SetField(tree, n, v))
    BY <1>1, SetTree
  <2>4. Recorded(y)
    <3>1. y = Changed(tx, tree, n, v) \/ y = Unchanged(tx, n)
      BY <2>1, RecordPatchCases
    <3> QED
      BY <1>1, <3>1, WriteRecorded
  <2> QED
    BY <2>2, <2>3, <2>4, CallTree
<1>8. ASSUME NEW n \in Nodes, InsertSkipped(n) PROVE TreeInv'
  <2>1. Open /\ Call(Reborn(tree, {n}), tx) /\ {n} \cap tree.live \cap tree.grave = {}
    BY <1>8 DEF InsertSkipped, Spared
  <2>2. IsTree(Reborn(tree, {n}))
    BY <1>1, <2>1, RebornTree
  <2> QED
    BY <1>1, <2>1, <2>2, CallTree
<1> QED
  BY <1>2, <1>3, <1>4, <1>5, <1>6, <1>7, <1>8 DEF AnyCall

LEMMA TreeSame ==
  ASSUME TreeInv, tree' = tree, tx' = tx, todo' = todo, base' = base, gone' = gone, calls' = calls,
         commits' \in 0..MaxCommits, stage' \in {"idle", "update", "abort"}, stage' = "idle" => tx = NoRecord
  PROVE  TreeInv'
<1>1. TypeOK'
  BY DEF TreeInv, Pointers, TypeOK
<1> QED
  BY <1>1 DEF TreeInv, Pointers, Recorded

LEMMA BeginTree ==
  ASSUME TreeInv, Begin
  PROVE  TreeInv'
<1>1. commits' \in 0..MaxCommits
  BY DocumentAssumption DEF Begin, TreeInv, Pointers, TypeOK
<1> QED
  BY <1>1, TreeSame DEF Begin

LEMMA CommitTree ==
  ASSUME TreeInv, Commit
  PROVE  TreeInv'
  BY CloseTree DEF Commit, TreeInv, Pointers

LEMMA TreeNext ==
  ASSUME {"stale", "revive"} \cap Faults = {}, TreeInv, PutsBackAbsent, [Next]_vars
  PROVE  TreeInv'
<1>1. IsTree(tree) /\ Recorded(tx) /\ Sound(todo)
  BY DEF TreeInv, Pointers
<1>2. CASE AnyCall
  BY <1>2, CallsTree
<1>3. CASE Abort
  BY <1>1, <1>3, RollbackTree DEF Abort
<1>4. ASSUME NEW run, InsertRefused(run) PROVE TreeInv'
  <2>1. PICK t : t = Reborn(tree, ToSet(run))
    OBVIOUS
  <2>2. Rollback(t) /\ ToSet(run) \cap tree.live \cap tree.grave = {}
    BY <1>4, <2>1 DEF InsertRefused, Spared
  <2>3. IsTree(t)
    BY <1>1, <2>1, <2>2, RebornTree
  <2> QED
    BY <2>2, <2>3, RollbackTree
<1>5. ASSUME stage = "abort", todo # <<>>
      PROVE  IsTree(Applied(tree, Head(todo)).tree) /\ Sound(Tail(todo))
  <2>1. Puts(Head(todo)) /\ Sound(Tail(todo))
    BY <1>1, <1>5, SoundNext
  <2>2. Head(todo).op = "insert" => ToSet(Head(todo).run) \cap tree.live = {}
    BY <1>5 DEF PutsBackAbsent
  <2> QED
    BY <1>1, <2>1, <2>2, AppliedTree
<1>6. CASE Undo
  <2>1. IsTree(tree') /\ Sound(todo')
    BY <1>5, <1>6 DEF Undo
  <2>2. TreeType(tree')
    BY <2>1, TreeIs
  <2>3. TypeOK'
    BY <1>6, <2>2 DEF Undo, TreeInv, Pointers, TypeOK
  <2> QED
    BY <1>6, <2>1, <2>3 DEF Undo, TreeInv, Pointers, Recorded
<1>7. CASE AbortDone
  <2>1. PICK t : Close(WithIndex(t)) /\ IsTree(t)
    <3>1. CASE todo = <<>> /\ Close(WithIndex(WithFields(tree, tx.undoPatch)))
      <4>1. IsTree(WithFields(tree, tx.undoPatch))
        BY <1>1, FieldsTree DEF Recorded
      <4> QED
        BY <3>1, <4>1
    <3>2. CASE todo # <<>> /\ Close(WithIndex(Applied(tree, Head(todo)).tree))
      BY <1>5, <1>7, <3>2 DEF AbortDone
    <3> QED
      BY <1>7, <3>1, <3>2 DEF AbortDone
  <2>2. IsTree(WithIndex(t))
    BY <2>1, IndexTree
  <2> QED
    BY <2>1, <2>2, CloseTree
<1>8. CASE UNCHANGED vars
  BY <1>8, TreeSame DEF vars, TreeInv, Pointers, TypeOK
<1> QED
  BY <1>2, <1>3, <1>4, <1>6, <1>7, <1>8, BeginTree, CommitTree DEF Next

(* Whatever calls are made, in whatever transactions, the document is a tree: *)
(* its node map has exactly what its pointers lead to, and they agree. *)
THEOREM CallsKeepTree ==
  ASSUME {"stale", "revive"} \cap Faults = {}
  PROVE  Init /\ [][Begin \/ AnyCall \/ Commit]_vars => []Pointers
<1>1. TreeInv /\ [Begin \/ AnyCall \/ Commit]_vars => TreeInv'
  <2> SUFFICES ASSUME TreeInv, [Begin \/ AnyCall \/ Commit]_vars PROVE TreeInv'
    OBVIOUS
  <2>1. CASE UNCHANGED vars
    BY <2>1, TreeSame DEF vars, TreeInv, Pointers, TypeOK
  <2> QED
    BY <2>1, CallsTree, BeginTree, CommitTree
<1>2. TreeInv => Pointers
  BY DEF TreeInv
<1> QED
  BY TreeInit, <1>1, <1>2, PTL

(* So it is half way through a rollback and after it (abort), as long as no   *)
(* inverse operation inserts again what is still in the document.            *)
THEOREM RollbacksKeepTree ==
  ASSUME {"stale", "revive"} \cap Faults = {}
  PROVE  Spec /\ []PutsBackAbsent => []Pointers
<1>1. TreeInv /\ PutsBackAbsent /\ [Next]_vars => TreeInv'
  BY TreeNext
<1>2. TreeInv => Pointers
  BY DEF TreeInv
<1> QED
  BY TreeInit, <1>1, <1>2, PTL DEF Spec
=============================================================================
