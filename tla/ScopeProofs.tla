----------------------------- MODULE ScopeProofs -----------------------------
(* What holds of the partial replica of every document: for any nodes, any   *)
(* scopes, any number of calls and commits.                                  *)
EXTENDS Scope, DocumentProofs

-----------------------------------------------------------------------------
(* The way up from a node.                                                   *)

Path(q, to, n) ==
  /\ q \in Seq(Nodes) /\ Len(q) \in Nat /\ Len(q) >= 1 /\ q[1] = n
  /\ \A i \in 1..Len(q) : q[i] \in Nodes
  /\ \A i \in 1..(Len(q) - 1) : q[i + 1] = to[q[i]]
  /\ to[q[Len(q)]] = None

LEMMA PathOn ==
  ASSUME NEW q, NEW f, NEW n, Path(q, f, n), NEW r, NEW g, Path(r, g, n),
         \A i \in 1..Len(q) : g[q[i]] = f[q[i]]
  PROVE  \A i \in Nat : 1 <= i /\ i <= Len(q) => i <= Len(r) /\ r[i] = q[i]
<1> DEFINE T == {i \in Nat : 1 <= i /\ i <= Len(q) => i <= Len(r) /\ r[i] = q[i]}
<1>1. 0 \in T
  OBVIOUS
<1>2. ASSUME NEW i \in Nat, i \in T PROVE i + 1 \in T
  <2> SUFFICES ASSUME i + 1 <= Len(q) PROVE i + 1 <= Len(r) /\ r[i + 1] = q[i + 1]
    OBVIOUS
  <2>1. CASE i = 0
    BY <2>1 DEF Path
  <2>2. CASE i # 0
    <3>1. /\ Len(q) \in Nat /\ Len(r) \in Nat /\ i \in 1..(Len(q) - 1) /\ i \in 1..Len(q)
          /\ i + 1 \in 1..Len(q)
      BY <2>2 DEF Path
    <3>2. i <= Len(r) /\ r[i] = q[i]
      BY <1>2, <3>1
    <3>3. g[r[i]] = q[i + 1] /\ q[i + 1] # None
      <4>1. q[i + 1] = f[q[i]] /\ q[i + 1] \in Nodes
        BY <3>1 DEF Path
      <4> QED
        BY <3>1, <3>2, <4>1, DocumentTreeAssumption
    <3>4. i # Len(r)
      BY <3>3 DEF Path
    <3>5. i \in 1..(Len(r) - 1)
      BY <3>1, <3>2, <3>4
    <3>6. r[i + 1] = g[r[i]]
      BY <3>5 DEF Path
    <3> QED
      BY <3>1, <3>3, <3>5, <3>6
  <2> QED
    BY <2>1, <2>2
<1> HIDE DEF T
<1>3. Nat \subseteq T
  BY <1>1, <1>2, Induction
<1> QED
  BY <1>3 DEF T

(* Where the pointers agree all the way, the ways are the same.              *)
LEMMA PathSame ==
  ASSUME NEW q, NEW f, NEW n, Path(q, f, n), NEW r, NEW g, Path(r, g, n),
         \A i \in 1..Len(q) : g[q[i]] = f[q[i]]
  PROVE  r = q
<1>1. Len(q) \in Nat /\ Len(q) >= 1 /\ Len(r) \in Nat /\ q \in Seq(Nodes) /\ r \in Seq(Nodes)
  BY DEF Path
<1>2. \A i \in 1..Len(q) : i <= Len(r) /\ r[i] = q[i]
  BY <1>1, PathOn
<1>3. Len(r) = Len(q)
  <2> SUFFICES ASSUME Len(r) # Len(q) PROVE FALSE
    OBVIOUS
  <2>1. Len(q) \in 1..Len(q) /\ Len(q) \in 1..(Len(r) - 1) /\ Len(q) + 1 \in 1..Len(r)
    BY <1>1, <1>2
  <2>2. r[Len(q) + 1] = g[q[Len(q)]] /\ r[Len(q) + 1] \in Nodes
    BY <1>2, <2>1 DEF Path
  <2>3. g[q[Len(q)]] = None
    BY <2>1 DEF Path
  <2> QED
    BY <2>2, <2>3, DocumentTreeAssumption
<1>4. /\ q \in [1..Len(q) -> Nodes] /\ r \in [1..Len(r) -> Nodes]
  BY <1>1, SeqIs
<1> QED
  BY <1>2, <1>3, <1>4

LEMMA UpIs ==
  ASSUME NEW t, IsTree(t), NEW n \in t.live
  PROVE  /\ Path(Up(t, n), t.parent, n)
         /\ DOMAIN Up(t, n) = 1..Len(Up(t, n))
         /\ ToSet(Up(t, n)) \subseteq t.live
         /\ \A x : x \in ToSet(Up(t, n)) <=> \E i \in 1..Len(Up(t, n)) : Up(t, n)[i] = x
         /\ \A i \in 1..Len(Up(t, n)) : Up(t, n)[i] \in t.live
<1>1. PICK above : Climbs(t.parent, t.live, above)
  BY ParentClimbs
<1>2. t.parent \in [Nodes -> Values] /\ t.live \subseteq Nodes
  BY TreeIs DEF Typed
<1>3. PICK q : q = Up(t, n)
  OBVIOUS
<1>4. Way(q, t.parent, t.live, above, n)
  BY <1>1, <1>2, <1>3, ChainIs DEF Up
<1>5. /\ q \in Seq(t.live) /\ q # <<>> /\ q[1] = n /\ t.parent[q[Len(q)]] = None
      /\ \A j \in 1..(Len(q) - 1) : q[j + 1] = t.parent[q[j]]
  BY <1>4 DEF Way
<1>6. /\ Len(q) \in Nat /\ DOMAIN q = 1..Len(q) /\ Len(q) # 0
      /\ \A i \in 1..Len(q) : q[i] \in t.live
      /\ ToSet(q) \subseteq t.live
      /\ \A x : x \in ToSet(q) <=> \E i \in 1..Len(q) : q[i] = x
  BY <1>5, SeqIs
<1>7. q \in Seq(Nodes) /\ \A i \in 1..Len(q) : q[i] \in Nodes
  BY <1>2, <1>5, <1>6
<1> QED
  BY <1>3, <1>5, <1>6, <1>7 DEF Path

(* From further up the way is the rest of it.                                *)
LEMMA UpFrom ==
  ASSUME NEW t, IsTree(t), NEW n \in t.live, NEW i \in 1..Len(Up(t, n))
  PROVE  LET q == Up(t, n)   r == Up(t, q[i]) IN
         Len(r) = Len(q) - i + 1 /\ \A k \in i..Len(q) : k - i + 1 \in 1..Len(r) /\ r[k - i + 1] = q[k]
<1>1. PICK q : q = Up(t, n)
  OBVIOUS
<1>2. Path(q, t.parent, n) /\ q[i] \in t.live
  BY <1>1, UpIs
<1>3. PICK r : r = Up(t, q[i])
  OBVIOUS
<1>4. Path(r, t.parent, q[i])
  BY <1>2, <1>3, UpIs
<1>5. /\ q \in Seq(Nodes) /\ Len(q) \in Nat /\ i \in 1..Len(q) /\ \A k \in 1..Len(q) : q[k] \in Nodes
      /\ \A k \in 1..(Len(q) - 1) : q[k + 1] = t.parent[q[k]]
      /\ t.parent[q[Len(q)]] = None
  BY <1>1, <1>2 DEF Path
<1>6. PICK m \in Nat : m = Len(q) - i + 1
  BY <1>5
<1>7. PICK s : s = [k \in 1..m |-> q[k + i - 1]]
  OBVIOUS
<1>8. s \in Seq(Nodes) /\ Len(s) = m
  <2>1. \A k \in 1..m : k + i - 1 \in 1..Len(q)
    BY <1>5, <1>6
  <2>2. s \in [1..m -> Nodes]
    BY <1>5, <1>7, <2>1
  <2> QED
    BY <2>2, SeqDef, LenProperties
<1>9. Path(s, t.parent, q[i])
  <2>1. m >= 1 /\ s[1] = q[i]
    BY <1>5, <1>6, <1>7
  <2>2. \A k \in 1..m : s[k] \in Nodes
    BY <1>5, <1>6, <1>7
  <2>3. ASSUME NEW k \in 1..(m - 1) PROVE s[k + 1] = t.parent[s[k]]
    <3>1. k + i - 1 \in 1..(Len(q) - 1) /\ k \in 1..m /\ k + 1 \in 1..m
      BY <1>5, <1>6
    <3>2. s[k + 1] = q[(k + i - 1) + 1] /\ s[k] = q[k + i - 1]
      BY <1>5, <1>6, <1>7, <3>1
    <3> QED
      BY <1>5, <3>1, <3>2
  <2>4. s[m] = q[Len(q)]
    BY <1>5, <1>6, <1>7, <2>1
  <2> QED
    BY <1>5, <1>8, <2>1, <2>2, <2>3, <2>4 DEF Path
<1>10. s = r
  BY <1>4, <1>9, PathSame
<1>11. \A k \in i..Len(q) : k - i + 1 \in 1..m /\ s[k - i + 1] = q[k]
  BY <1>5, <1>6, <1>7
<1> QED
  BY <1>1, <1>3, <1>6, <1>8, <1>10, <1>11

(* The way up is the same in two trees if the pointers on it are.            *)
LEMMA UpSame ==
  ASSUME NEW t, IsTree(t), NEW u, IsTree(u), NEW n \in t.live \cap u.live,
         \A m \in ToSet(Up(t, n)) : u.parent[m] = t.parent[m]
  PROVE  Up(u, n) = Up(t, n)
<1>1. Path(Up(t, n), t.parent, n) /\ Path(Up(u, n), u.parent, n)
  BY UpIs
<1>2. \A i \in 1..Len(Up(t, n)) : u.parent[Up(t, n)[i]] = t.parent[Up(t, n)[i]]
  BY UpIs
<1> QED
  BY <1>1, <1>2, PathSame

(* What is below a node has it on its way up.                                *)
LEMMA BelowIs ==
  ASSUME NEW t, IsTree(t), NEW n \in t.live, NEW m \in ToSet(Up(t, n))
  PROVE  n \in Under(t, <<m>>)
<1>1. PICK S, T, later : S = t.live /\ T = {Root} /\ Forest(t, S, T, later)
  BY TreeIs
<1>2. n \in S /\ m \in S /\ S \subseteq Nodes
  BY <1>1, UpIs, TreeIs
<1>3. CASE m = Root
  <2>1. <<Root>> \in Seq(Nodes) /\ Typed(t)
    BY DocumentTreeAssumption, OneIs, TreeIs
  <2>2. PICK all : all = PreOrder(t, <<Root>>)
    OBVIOUS
  <2>3. all \in Seq(Nodes) /\ ToSet(all) = S
    BY <1>1, <2>1, <2>2, PreOrderType DEF IsTree
  <2>4. Contains(all, n)
    BY <1>2, <2>3, SeqIs
  <2> QED
    BY <1>2, <1>3, <2>2, <2>4 DEF Under
<1>4. CASE m # Root
  <2>1. PICK R, p : R = {m} /\ p = t.parent[m]
    OBVIOUS
  <2>2. p \in S
    BY <1>1, <1>2, <1>4, <2>1 DEF Forest
  <2>3. R # {} /\ R \subseteq S \ T /\ \A r \in R : t.parent[r] = p
    BY <1>1, <1>2, <1>4, <2>1
  <2>4. PICK D, above : BoughOf(t, S, T, R, D, p, above)
    <3>1. Forest(t, S, T, later) /\ p \in S /\ R # {} /\ R \subseteq S \ T /\ \A r \in R : t.parent[r] = p
      BY <1>1, <2>2, <2>3
    <3> QED
      BY <3>1, BoughExists
  <2>5. \A k \in S : UpIn(t, S, T)[k] = t.parent[k]
    BY <1>1, TreeIs DEF UpIn, Alone
  <2>6. Climbs(t.parent, S, above)
    BY <2>4, <2>5 DEF BoughOf, Climbs
  <2>7. m \in {n} \cup above[n]
    BY <1>1, <2>6, UpToRoot DEF Up
  <2>8. n \in D
    BY <1>2, <2>1, <2>4, <2>7 DEF BoughOf
  <2>9. PICK run : run = <<m>>
    OBVIOUS
  <2>12. run \in Seq(R) /\ IsInjective(run) /\ ToSet(run) = R
    BY <2>1, <2>9, OneIs
  <2>10. R \subseteq D /\ D \subseteq S /\ Closed(t, S, T, D) /\ Tops(D, R, t, T)
    BY <2>4 DEF BoughOf, Bough
  <2>11. Under(t, run) = D
    BY <1>1, <2>10, <2>12, UnderIs
  <2> QED
    BY <2>8, <2>9, <2>11
<1> QED
  BY <1>3, <1>4

-----------------------------------------------------------------------------
(* What a scope says of the nodes of a tree.                                 *)

IsScope(A) == DOMAIN A \subseteq Nodes /\ A \in [DOMAIN A -> Nat]

FullIn(t, A) == {n \in t.live : IsFull(t, A, n)}
SomeIn(t, A) ==
  {n \in t.live : AtBound(t, A, n)} \cup AnchorAncestors(t, A) \cup {Root}
  \cup ({t.val[n] : n \in FullIn(t, A)} \cap t.live)

LEMMA ComputeIs ==
  ASSUME NEW t, NEW A, NEW n \in Nodes
  PROVE  /\ ComputeAll(t, A)[n] = IF n \in FullIn(t, A) THEN "full"
                                  ELSE IF n \in SomeIn(t, A) THEN "stub" ELSE "none"
         /\ ComputeAll(t, A) \in [Nodes -> {"full", "stub", "none"}]
<1>1. \A m \in Nodes :
        ComputeAll(t, A)[m] = IF m \in FullIn(t, A) THEN "full"
                              ELSE IF m \in SomeIn(t, A) THEN "stub" ELSE "none"
  BY DEF ComputeAll, FullIn, SomeIn
<1>2. ComputeAll(t, A) = [m \in Nodes |-> ComputeAll(t, A)[m]]
  BY DEF ComputeAll
<1> QED
  BY <1>1, <1>2

LEMMA FullIs ==
  ASSUME NEW t, IsTree(t), NEW A, IsScope(A), NEW n \in t.live
  PROVE  IsFull(t, A, n) <=>
           \E i \in 1..Len(Up(t, n)) : Up(t, n)[i] \in DOMAIN A /\ i - 1 - A[Up(t, n)[i]] <= 0
<1>1. DOMAIN Up(t, n) = 1..Len(Up(t, n))
  BY UpIs
<1> QED
  BY <1>1 DEF IsFull, Beyond

LEMMA AncestorIs ==
  ASSUME NEW t, IsTree(t), NEW a \in t.live, NEW n
  PROVE  n \in ToSet(Tail(Up(t, a))) <=> \E i \in 2..Len(Up(t, a)) : Up(t, a)[i] = n
<1>1. PICK q : q = Up(t, a)
  OBVIOUS
<1>2. q \in Seq(Nodes) /\ Len(q) \in Nat /\ Len(q) >= 1
  BY <1>1, UpIs DEF Path
<1>3. q # <<>>
  BY <1>2, SeqIs
<1>4. /\ Tail(q) \in Seq(Nodes) /\ Len(q) = Len(Tail(q)) + 1
      /\ \A i \in 1..Len(Tail(q)) : q[i + 1] = Tail(q)[i]
  BY <1>2, <1>3, HeadTailIs
<1>5. /\ Len(Tail(q)) \in Nat
      /\ n \in ToSet(Tail(q)) <=> \E i \in 1..Len(Tail(q)) : Tail(q)[i] = n
  BY <1>4, SeqIs
<1>6. ASSUME NEW i \in 1..Len(Tail(q)), Tail(q)[i] = n PROVE \E j \in 2..Len(q) : q[j] = n
  <2>1. i + 1 \in 2..Len(q) /\ q[i + 1] = n
    BY <1>2, <1>4, <1>5, <1>6
  <2> QED
    BY <2>1
<1>7. ASSUME NEW j \in 2..Len(q), q[j] = n PROVE \E i \in 1..Len(Tail(q)) : Tail(q)[i] = n
  <2>1. j - 1 \in 1..Len(Tail(q)) /\ (j - 1) + 1 = j
    BY <1>2, <1>4, <1>5
  <2>2. Tail(q)[j - 1] = q[(j - 1) + 1]
    BY <1>4, <2>1
  <2> QED
    BY <1>7, <2>1, <2>2
<1> QED
  BY <1>1, <1>5, <1>6, <1>7

LEMMA AnchorsAbove ==
  ASSUME NEW t, IsTree(t), NEW A, NEW n
  PROVE  /\ n \in AnchorAncestors(t, A) <=> \E a \in DOMAIN A \cap t.live : n \in ToSet(Tail(Up(t, a)))
         /\ n \in AnchorAncestors(t, A) => n \in t.live
<1>1. n \in AnchorAncestors(t, A) <=> \E a \in DOMAIN A \cap t.live : n \in ToSet(Tail(Up(t, a)))
  BY DEF AnchorAncestors
<1>2. ASSUME NEW a \in DOMAIN A \cap t.live, n \in ToSet(Tail(Up(t, a))) PROVE n \in t.live
  <2>1. PICK i \in 2..Len(Up(t, a)) : Up(t, a)[i] = n
    BY <1>2, AncestorIs
  <2>2. i \in 1..Len(Up(t, a))
    OBVIOUS
  <2> QED
    BY <2>1, <2>2, UpIs
<1> QED
  BY <1>1, <1>2

(* One node at a time or all at once, from the index or from the fields.     *)
LEMMA ClassifyIs ==
  ASSUME NEW t, IsTree(t), Indexed(t), NEW A, NEW n \in Nodes
  PROVE  Classify(t, A, n) = ComputeAll(t, A)[n]
<1>1. Root \in t.live /\ t.live \subseteq Nodes /\ None \notin t.live
  BY TreeIs
<1>2. n \in AnchorAncestors(t, A) => n \in t.live
  BY AnchorsAbove
<1>3. CASE n \notin t.live
  <2>1. n \notin FullIn(t, A) /\ n \notin SomeIn(t, A)
    BY <1>1, <1>2, <1>3 DEF FullIn, SomeIn
  <2>2. Classify(t, A, n) = "none"
    BY <1>3 DEF Classify
  <2> QED
    BY <2>1, <2>2, ComputeIs
<1>4. CASE n \in t.live
  <2>1. (\E e \in t.index : e[1] = n /\ e[2] \in t.live /\ IsFull(t, A, e[2]))
          <=> \E m \in FullIn(t, A) : t.val[m] = n
    <3>1. t.index = {<<t.val[m], m>> : m \in {k \in t.live : t.val[k] # None}}
      BY DEF Indexed, References
    <3>2. ASSUME NEW e \in t.index, e[1] = n, e[2] \in t.live, IsFull(t, A, e[2])
          PROVE  \E m \in FullIn(t, A) : t.val[m] = n
      BY <3>1, <3>2 DEF FullIn
    <3>3. ASSUME NEW m \in FullIn(t, A), t.val[m] = n
          PROVE  \E e \in t.index : e[1] = n /\ e[2] \in t.live /\ IsFull(t, A, e[2])
      <4>1. <<t.val[m], m>> \in t.index
        BY <1>1, <1>4, <3>1, <3>3 DEF FullIn
      <4> QED
        BY <3>3, <4>1 DEF FullIn
    <3> QED
      BY <3>2, <3>3
  <2>2. n \in FullIn(t, A) <=> IsFull(t, A, n)
    BY <1>4 DEF FullIn
  <2>3. n \in SomeIn(t, A) <=> \/ AtBound(t, A, n) \/ n \in AnchorAncestors(t, A) \/ n = Root
                               \/ \E m \in FullIn(t, A) : t.val[m] = n
    BY <1>4 DEF SomeIn
  <2>4. CASE n \in FullIn(t, A)
    <3>1. Classify(t, A, n) = "full"
      BY <1>4, <2>2, <2>4 DEF Classify
    <3> QED
      BY <2>4, <3>1, ComputeIs
  <2>5. CASE n \notin FullIn(t, A) /\ n \in SomeIn(t, A)
    <3>1. Classify(t, A, n) = "stub"
      BY <1>4, <2>1, <2>2, <2>3, <2>5 DEF Classify
    <3> QED
      BY <2>5, <3>1, ComputeIs
  <2>6. CASE n \notin FullIn(t, A) /\ n \notin SomeIn(t, A)
    <3>1. Classify(t, A, n) = "none"
      BY <1>4, <2>1, <2>2, <2>3, <2>6 DEF Classify
    <3> QED
      BY <2>6, <3>1, ComputeIs
  <2> QED
    BY <2>4, <2>5, <2>6
<1> QED
  BY <1>3, <1>4

(* What is held in full has everything above it held.                        *)
LEMMA FullPlaced ==
  ASSUME NEW t, IsTree(t), NEW A, IsScope(A), NEW n \in FullIn(t, A)
  PROVE  ToSet(Up(t, n)) \subseteq FullIn(t, A) \cup SomeIn(t, A)
<1>1. n \in t.live /\ IsFull(t, A, n)
  BY DEF FullIn
<1>2. PICK q : q = Up(t, n)
  OBVIOUS
<1>3. PICK i \in 1..Len(q) : q[i] \in DOMAIN A /\ i - 1 - A[q[i]] <= 0
  BY <1>1, <1>2, FullIs
<1>4. Len(q) \in Nat /\ \A k \in 1..Len(q) : q[k] \in t.live
  BY <1>1, <1>2, UpIs DEF Path
<1>5. A[q[i]] \in Nat
  BY <1>3 DEF IsScope
<1>6. ASSUME NEW k \in 1..Len(q) PROVE q[k] \in FullIn(t, A) \cup SomeIn(t, A)
  <2>1. CASE k <= i
    <3>1. PICK r : r = Up(t, q[k])
      OBVIOUS
    <3>2. i - k + 1 \in 1..Len(r) /\ r[i - k + 1] = q[i]
      BY <1>1, <1>2, <2>1, <3>1, UpFrom
    <3>3. (i - k + 1) - 1 - A[q[i]] <= 0
      BY <1>3, <1>4, <1>5, <2>1
    <3>4. IsFull(t, A, q[k])
      BY <1>3, <1>4, <3>1, <3>2, <3>3, FullIs
    <3> QED
      BY <1>4, <3>4 DEF FullIn
  <2>2. CASE k > i
    <3>1. PICK r : r = Up(t, q[i])
      OBVIOUS
    <3>2. k - i + 1 \in 1..Len(r) /\ r[k - i + 1] = q[k]
      BY <1>1, <1>2, <2>2, <3>1, UpFrom
    <3>3. k - i + 1 \in 2..Len(r)
      BY <1>4, <2>2, <3>2
    <3>4. q[k] \in ToSet(Tail(r))
      BY <1>4, <3>1, <3>2, <3>3, AncestorIs
    <3>5. q[k] \in AnchorAncestors(t, A)
      BY <1>3, <1>4, <3>1, <3>4, AnchorsAbove
    <3> QED
      BY <3>5 DEF SomeIn
  <2> QED
    BY <1>4, <2>1, <2>2
<1> QED
  BY <1>1, <1>2, <1>6, UpIs

-----------------------------------------------------------------------------
(* What a transaction leaves alone, the view need not look at again.         *)

(* x knows how t came of b: what is where it was, with the field it had, if  *)
(* x does not say otherwise.                                                 *)
Placement(t, x, b) ==
  \A n \in t.live \ (x.inserted \cup x.moved) : n \in b.live /\ t.parent[n] = b.parent[n]

Follows(t, x, b) ==
  /\ IsTree(t) /\ IsTree(b) /\ Indexed(t) /\ Placement(t, x, b)
  /\ \A n \in t.live \ (x.inserted \cup x.updated) : t.val[n] = b.val[n]
  /\ b.live \ t.live \subseteq x.deleted

Touched(t, x) == Below(t, (x.inserted \cup x.moved) \cap t.live)

LEMMA UntouchedUp ==
  ASSUME NEW t, NEW x, NEW b, Follows(t, x, b), NEW n \in t.live, n \notin Touched(t, x)
  PROVE  n \in b.live /\ n \notin x.inserted /\ Up(t, n) = Up(b, n)
<1>1. IsTree(t) /\ IsTree(b) /\ Placement(t, x, b)
  BY DEF Follows
<1>2. ASSUME NEW m \in ToSet(Up(t, n)) PROVE m \in t.live \ (x.inserted \cup x.moved)
  <2>1. m \in t.live /\ n \in Under(t, <<m>>)
    BY <1>1, BelowIs, UpIs
  <2> QED
    BY <2>1 DEF Touched, Below
<1>3. n \in ToSet(Up(t, n))
  BY <1>1, UpIs DEF Path
<1>4. n \in b.live /\ n \notin x.inserted
  BY <1>1, <1>2, <1>3 DEF Placement
<1>5. \A m \in ToSet(Up(t, n)) : b.parent[m] = t.parent[m]
  BY <1>1, <1>2 DEF Placement
<1> QED
  BY <1>1, <1>4, <1>5, UpSame

LEMMA UntouchedSame ==
  ASSUME NEW t, NEW x, NEW b, Follows(t, x, b), NEW A, NEW n \in t.live, n \notin Touched(t, x)
  PROVE  /\ n \in FullIn(t, A) <=> n \in FullIn(b, A)
         /\ AtBound(t, A, n) <=> AtBound(b, A, n)
<1>1. n \in b.live /\ Up(t, n) = Up(b, n)
  BY UntouchedUp
<1>2. Beyond(t, A, n) = Beyond(b, A, n)
  BY <1>1 DEF Beyond
<1> QED
  BY <1>1, <1>2 DEF FullIn, IsFull, AtBound

(* What a commit looks at again: what it touched and wrote, what is above an *)
(* anchor that it touched, and what the nodes of these refer to.             *)
Looked(t, x, A, seen) ==
  /\ Touched(t, x) \cap t.live \subseteq seen
  /\ \A a \in Touched(t, x) \cap DOMAIN A \cap t.live : ToSet(Up(t, a)) \subseteq seen
  /\ \A n \in (Touched(t, x) \cup x.updated) \cap t.live : t.val[n] \in t.live => t.val[n] \in seen

(* What is not looked at again and not a stub is what it was.                *)
LEMMA UnseenSame ==
  ASSUME NEW t, NEW x, NEW b, Follows(t, x, b), NEW A, NEW seen, Looked(t, x, A, seen),
         NEW n \in t.live, n \notin seen, ComputeAll(b, A)[n] # "stub"
  PROVE  n \in b.live /\ ComputeAll(t, A)[n] = ComputeAll(b, A)[n]
<1>1. n \notin Touched(t, x) /\ n \in Nodes
  BY TreeIs DEF Looked, Follows
<1>2. n \in b.live /\ (n \in FullIn(t, A) <=> n \in FullIn(b, A)) /\ (AtBound(t, A, n) <=> AtBound(b, A, n))
  BY <1>1, UntouchedUp, UntouchedSame
<1>3. CASE n \in FullIn(t, A)
  BY <1>1, <1>2, <1>3, ComputeIs
<1>4. CASE n \notin FullIn(t, A)
  <2>1. n \notin FullIn(b, A) /\ n \notin SomeIn(b, A)
    BY <1>1, <1>2, <1>4, ComputeIs
  <2>2. n \notin AnchorAncestors(t, A)
    <3> SUFFICES ASSUME n \in AnchorAncestors(t, A) PROVE FALSE
      OBVIOUS
    <3>1. IsTree(t) /\ IsTree(b)
      BY DEF Follows
    <3>2. PICK a \in DOMAIN A \cap t.live : n \in ToSet(Tail(Up(t, a)))
      BY <3>1, AnchorsAbove
    <3>3. PICK i \in 2..Len(Up(t, a)) : Up(t, a)[i] = n
      BY <3>1, <3>2, AncestorIs
    <3>4. n \in ToSet(Up(t, a))
      BY <3>1, <3>3, UpIs
    <3>5. a \notin Touched(t, x)
      BY <3>4 DEF Looked
    <3>6. a \in b.live /\ Up(t, a) = Up(b, a)
      BY <3>5, UntouchedUp
    <3>7. n \in AnchorAncestors(b, A)
      BY <3>1, <3>2, <3>6, AnchorsAbove
    <3> QED
      BY <2>1, <3>7 DEF SomeIn
  <2>3. ASSUME NEW m \in FullIn(t, A), n = t.val[m] PROVE FALSE
    <3>1. m \in t.live /\ n # None
      BY TreeIs DEF FullIn, Follows
    <3>2. m \notin Touched(t, x) /\ m \notin x.updated
      BY <2>3, <3>1 DEF Looked
    <3>3. m \in FullIn(b, A) /\ m \notin x.inserted
      BY <3>1, <3>2, UntouchedUp, UntouchedSame
    <3>4. b.val[m] = n
      BY <2>3, <3>1, <3>2, <3>3 DEF Follows
    <3>5. n \in SomeIn(b, A)
      BY <1>2, <3>3, <3>4 DEF SomeIn
    <3> QED
      BY <2>1, <3>5
  <2>4. n # Root /\ ~AtBound(t, A, n)
    BY <1>2, <2>1 DEF SomeIn
  <2>5. n \notin SomeIn(t, A)
    BY <2>2, <2>3, <2>4 DEF SomeIn
  <2> QED
    BY <1>1, <1>2, <1>4, <2>1, <2>5, ComputeIs
<1> QED
  BY <1>3, <1>4

-----------------------------------------------------------------------------
(* Every call records whom it gave another parent.                           *)

LEMMA LinkParents ==
  ASSUME NEW t, DOMAIN t = Fields, NEW p, NEW v, NEW w, NEW run, NEW n \in Nodes, ~Contains(run, n)
  PROVE  /\ Link(t, p, v, w, run).parent[n] = t.parent[n]
         /\ Link(t, p, v, w, run).live = t.live /\ DOMAIN Link(t, p, v, w, run) = Fields
  BY DEF Link, Fields

LEMMA DetachParents ==
  ASSUME NEW t, DOMAIN t = Fields, NEW a, NEW b
  PROVE  /\ Detach(t, a, b).parent = t.parent /\ Detach(t, a, b).live = t.live
         /\ DOMAIN Detach(t, a, b) = Fields
  BY DEF Detach, Fields

LEMMA PlacementKept ==
  ASSUME NEW t, NEW x, NEW b, Placement(t, x, b), NEW u, NEW y,
         \A n \in u.live \ (y.inserted \cup y.moved) :
           n \in t.live \ (x.inserted \cup x.moved) /\ u.parent[n] = t.parent[n]
  PROVE  Placement(u, y, b)
  BY DEF Placement

(* s is the tree before, t has the fields of the ids in the run reset.       *)
LEMMA InsertPlaces ==
  ASSUME NEW s, NEW t, DOMAIN t = Fields, NEW x, DOMAIN x = Parts, NEW b, Placement(s, x, b),
         t.live = s.live, t.live \subseteq Nodes,
         NEW run, \A n \in Nodes : ~Contains(run, n) => t.parent[n] = s.parent[n], NEW p, NEW at
  PROVE  Placement(InsertInto(t, run, p, at), RecordInsert(x, t, run, p, at), b)
<1>1. PICK u, all : u = InsertInto(t, run, p, at) /\ all = Under(t, run)
  OBVIOUS
<1>2. PICK l : l = Link(t, p, Before(t, p, at), at, run)
  OBVIOUS
<1>3. u.live = t.live \cup all /\ u.parent = l.parent
  <2>1. l.live = t.live /\ DOMAIN l = Fields
    BY <1>2 DEF Link, Fields
  <2>2. u = [l EXCEPT !.live = @ \cup all, !.index = @ \cup References(l, all)]
    BY <1>1, <1>2 DEF InsertInto
  <2> QED
    BY <2>1, <2>2 DEF Fields
<1>4. all \subseteq Nodes /\ \A n \in Nodes : Contains(run, n) => n \in all
  BY <1>1 DEF Under
<1>5. PICK y : y = RecordInsert(x, t, run, p, at)
  OBVIOUS
<1>6. /\ y.inserted = x.inserted \cup (all \ x.deleted)
      /\ y.moved = x.moved \cup (all \cap x.deleted)
  BY <1>1, <1>5 DEF RecordInsert, Parts
<1>7. ASSUME NEW n \in u.live \ (y.inserted \cup y.moved)
      PROVE  n \in s.live \ (x.inserted \cup x.moved) /\ u.parent[n] = s.parent[n]
  <2>1. n \notin all /\ n \in s.live /\ n \in Nodes /\ n \notin x.inserted \cup x.moved
    BY <1>3, <1>6, <1>7
  <2>2. ~Contains(run, n)
    BY <1>4, <2>1
  <2>3. l.parent[n] = s.parent[n]
    BY <1>2, <2>1, <2>2, LinkParents
  <2> QED
    BY <1>3, <2>1, <2>3
<1> QED
  BY <1>1, <1>5, <1>7, PlacementKept

LEMMA DeletePlaces ==
  ASSUME NEW t, DOMAIN t = Fields, NEW x, DOMAIN x = Parts, NEW b, Placement(t, x, b), NEW a, NEW e
  PROVE  Placement(DeleteRange(t, a, e), RecordDelete(x, t, a, e), b)
<1>1. PICK u, all : u = DeleteRange(t, a, e) /\ all = Under(t, Run(t, a, e))
  OBVIOUS
<1>2. u.live = t.live \ all /\ u.parent = t.parent
  BY <1>1, DetachParents DEF DeleteRange, Fields
<1>3. PICK y : y = RecordDelete(x, t, a, e)
  OBVIOUS
<1>4. y.inserted = x.inserted \ all /\ y.moved = x.moved \ (all \cap x.inserted)
  BY <1>1, <1>3 DEF RecordDelete, Parts
<1>5. ASSUME NEW n \in u.live \ (y.inserted \cup y.moved)
      PROVE  n \in t.live \ (x.inserted \cup x.moved) /\ u.parent[n] = t.parent[n]
  BY <1>2, <1>4, <1>5
<1> QED
  BY <1>1, <1>3, <1>5, PlacementKept

LEMMA MovePlaces ==
  ASSUME NEW t, DOMAIN t = Fields, t.live \subseteq Nodes, NEW x, DOMAIN x = Parts, NEW b, Placement(t, x, b),
         NEW a, NEW e, NEW p, NEW at
  PROVE  Placement(MoveRange(t, a, e, p, at), RecordMove(x, t, a, e, p, at), b)
<1>1. PICK u, d, run : u = MoveRange(t, a, e, p, at) /\ d = Detach(t, a, e) /\ run = Run(t, a, e)
  OBVIOUS
<1>2. DOMAIN d = Fields /\ d.parent = t.parent /\ d.live = t.live
  BY <1>1, DetachParents
<1>3. u = Link(d, p, Before(t, p, at), at, run)
  BY <1>1 DEF MoveRange
<1>4. u.live = t.live
  BY <1>2, <1>3 DEF Link, Fields
<1>5. PICK y : y = RecordMove(x, t, a, e, p, at)
  OBVIOUS
<1>6. y.inserted = x.inserted /\ y.moved = x.moved \cup (ToSet(run) \ x.inserted)
  BY <1>1, <1>5 DEF RecordMove, Parts
<1>7. ASSUME NEW n \in u.live \ (y.inserted \cup y.moved)
      PROVE  n \in t.live \ (x.inserted \cup x.moved) /\ u.parent[n] = t.parent[n]
  <2>1. n \in t.live /\ n \in Nodes /\ n \notin x.inserted \cup x.moved /\ n \notin ToSet(run)
    BY <1>4, <1>6, <1>7
  <2>2. ~Contains(run, n)
    BY <2>1 DEF Contains, ToSet
  <2> QED
    BY <1>2, <1>3, <2>1, <2>2, LinkParents
<1> QED
  BY <1>1, <1>5, <1>7, PlacementKept

LEMMA WritePlaces ==
  ASSUME NEW t, DOMAIN t = Fields, NEW x, DOMAIN x = Parts, NEW b, Placement(t, x, b), NEW n, NEW v, NEW y,
         y = x \/ y = Changed(x, t, n, v) \/ y = Unchanged(x, n)
  PROVE  Placement(SetField(t, n, v), y, b)
<1>1. PICK u : u = SetField(t, n, v)
  OBVIOUS
<1>2. u.live = t.live /\ u.parent = t.parent
  BY <1>1 DEF SetField, Fields
<1>3. y.inserted = x.inserted /\ y.moved = x.moved
  BY DEF Changed, Unchanged, Parts
<1> QED
  BY <1>1, <1>2, <1>3 DEF Placement

LEMMA CallsPlace ==
  ASSUME "revive" \notin Faults, TreeInv, AnyCall, DOMAIN tx = Parts, Placement(tree, tx, base)
  PROVE  Placement(tree', tx', base')
<1>1. IsTree(tree) /\ TreeType(tree) /\ DOMAIN tree = Fields /\ tree.live \subseteq Nodes
  BY TreeIs DEF TreeInv, Pointers
<1>2. ASSUME NEW t, NEW x, Call(t, x), Placement(t, x, base) PROVE Placement(tree', tx', base')
  BY <1>2 DEF Call
<1>3. ASSUME NEW run \in Runs, NEW p \in Nodes, NEW at \in Values, Insert(run, p, at)
      PROVE  Placement(tree', tx', base')
  <2>1. Call(InsertInto(tree, run, p, at), RecordInsert(tx, tree, run, p, at))
    BY <1>3 DEF Insert
  <2>2. Placement(InsertInto(tree, run, p, at), RecordInsert(tx, tree, run, p, at), base)
    BY <1>1, InsertPlaces
  <2> QED
    BY <1>2, <2>1, <2>2
<1>4. ASSUME NEW o \in InsertsOf(Runs), InsertIds(o) PROVE Placement(tree', tx', base')
  <2>1. o.run \in Runs
    BY DEF InsertsOf, InsertOp
  <2>2. o.run \in Seq(Nodes)
    BY <2>1, RunsAre
  <2>3. PICK t, at : t = Reborn(tree, ToSet(o.run)) /\ at = Target(t, o)
    OBVIOUS
  <2>4. Call(InsertInto(t, o.run, o.parent, at), RecordInsert(tx, t, o.run, o.parent, at))
    BY <1>4, <2>3 DEF InsertIds
  <2>5. /\ TreeType(t) /\ t.live = tree.live
        /\ \A n \in Nodes : n \notin ToSet(o.run) => t.parent[n] = tree.parent[n]
    BY <1>1, <2>3, RebornIs
  <2>6. \A n \in Nodes : ~Contains(o.run, n) => t.parent[n] = tree.parent[n]
    BY <2>2, <2>5, SeqIs
  <2>7. DOMAIN t = Fields
    BY <2>5 DEF TreeType, Fields
  <2>8. Placement(InsertInto(t, o.run, o.parent, at), RecordInsert(tx, t, o.run, o.parent, at), base)
    BY <1>1, <2>5, <2>6, <2>7, InsertPlaces
  <2> QED
    BY <1>2, <2>4, <2>8
<1>5. ASSUME NEW a \in Nodes, NEW b \in Nodes, Delete(a, b) PROVE Placement(tree', tx', base')
  BY <1>1, <1>2, <1>5, DeletePlaces DEF Delete
<1>6. ASSUME NEW a \in Nodes, NEW b \in Nodes, NEW p \in Nodes, NEW at \in Values, Move(a, b, p, at)
      PROVE  Placement(tree', tx', base')
  BY <1>1, <1>2, <1>6, MovePlaces DEF Move
<1>7. ASSUME NEW n \in Nodes, NEW v \in Values, Set(n, v) PROVE Placement(tree', tx', base')
  <2>1. PICK y : y = IF n \in tree.live THEN RecordSet(tx, tree, n, v) ELSE tx
    OBVIOUS
  <2>2. y = tx \/ y = Changed(tx, tree, n, v) \/ y = Unchanged(tx, n)
    BY <2>1, RecordSetCases
  <2>3. Call(SetField(tree, n, v), y)
    BY <1>7, <2>1 DEF Set
  <2> QED
    BY <1>1, <1>2, <2>2, <2>3, WritePlaces
<1>8. ASSUME NEW n \in Nodes, NEW v \in Values, Patch(n, v) PROVE Placement(tree', tx', base')
  <2>1. PICK y : y = RecordPatch(tx, tree, n, v)
    OBVIOUS
  <2>2. y = Changed(tx, tree, n, v) \/ y = Unchanged(tx, n)
    BY <2>1, RecordPatchCases
  <2>3. Call(SetField(tree, n, v), y)
    BY <1>8, <2>1 DEF Patch
  <2> QED
    BY <1>1, <1>2, <2>2, <2>3, WritePlaces
<1>9. ASSUME NEW n \in Nodes, InsertSkipped(n) PROVE Placement(tree', tx', base')
  <2>1. PICK t : t = Reborn(tree, {n})
    OBVIOUS
  <2>2. Call(t, tx) /\ n \notin tree.live
    BY <1>9, <2>1 DEF InsertSkipped, Spared
  <2>3. t.live = tree.live /\ \A m \in tree.live : t.parent[m] = tree.parent[m]
    BY <1>1, <2>1, <2>2, RebornIs
  <2>4. Placement(t, tx, base)
    BY <2>3 DEF Placement
  <2> QED
    BY <1>2, <2>2, <2>4
<1> QED
  BY <1>3, <1>4, <1>5, <1>6, <1>7, <1>8, <1>9 DEF AnyCall

-----------------------------------------------------------------------------
(* A commit brings the view up to date.                                      *)

Exact(t, A) == held = ComputeAll(t, A) /\ placed = InTree(t, held, Nodes)

LEMMA HeldIs ==
  ASSUME NEW t, NEW A, NEW n \in Nodes
  PROVE  /\ n \in HeldIn(ComputeAll(t, A)) <=> n \in FullIn(t, A) \cup SomeIn(t, A)
         /\ n \in StubsIn(ComputeAll(t, A)) <=> ComputeAll(t, A)[n] = "stub"
<1>1. n \in HeldIn(ComputeAll(t, A)) <=> ComputeAll(t, A)[n] # "none"
  BY DEF HeldIn
<1>2. n \in StubsIn(ComputeAll(t, A)) <=> ComputeAll(t, A)[n] = "stub"
  BY DEF StubsIn
<1>3. CASE n \in FullIn(t, A)
  BY <1>1, <1>2, <1>3, ComputeIs
<1>4. CASE n \notin FullIn(t, A)
  BY <1>1, <1>2, <1>4, ComputeIs
<1> QED
  BY <1>3, <1>4

LEMMA NotLive ==
  ASSUME NEW t, IsTree(t), NEW A, NEW n \in Nodes, n \notin t.live
  PROVE  ComputeAll(t, A)[n] = "none" /\ n \notin InTree(t, ComputeAll(t, A), Nodes)
<1>1. n \notin FullIn(t, A) /\ n \notin SomeIn(t, A)
  BY TreeIs, AnchorsAbove DEF FullIn, SomeIn
<1> QED
  BY <1>1, ComputeIs DEF InTree

(* What is in the client's tree is what is held with all above it.           *)
LEMMA InTreeIs ==
  ASSUME NEW t, IsTree(t), NEW A, IsScope(A), NEW n \in t.live
  PROVE  LET h == ComputeAll(t, A) IN
         /\ n \in InTree(t, h, Nodes) => n \in HeldIn(h)
         /\ n \in FullIn(t, A) => n \in InTree(t, h, Nodes)
         /\ n \in InTree(t, h, Nodes) => n \in FullIn(t, A) \/ h[n] = "stub"
<1>1. PICK h : h = ComputeAll(t, A)
  OBVIOUS
<1>2. n \in Nodes /\ ToSet(Up(t, n)) \subseteq Nodes /\ n \in ToSet(Up(t, n))
  BY TreeIs, UpIs DEF Path
<1>3. n \in InTree(t, h, Nodes) <=> ToSet(Up(t, n)) \subseteq HeldIn(h)
  BY <1>2 DEF InTree
<1>4. n \in InTree(t, h, Nodes) => n \in HeldIn(h)
  BY <1>2, <1>3
<1>5. n \in FullIn(t, A) => ToSet(Up(t, n)) \subseteq HeldIn(h)
  BY <1>1, <1>2, FullPlaced, HeldIs
<1>6. n \in HeldIn(h) => n \in FullIn(t, A) \/ h[n] = "stub"
  BY <1>1, <1>2, HeldIs, ComputeIs
<1> QED
  BY <1>1, <1>3, <1>4, <1>5, <1>6

Emitted(e, t, x, seen, deleted) ==
  /\ e.tree = t /\ e.seen = seen /\ e.deleted = deleted /\ e.placed = placed
  /\ deleted = Below(t, x.deleted) /\ seen \cap deleted = {}
  /\ \A n \in Nodes : e.after[n] = IF n \in seen THEN Classify(t, anchors, n) ELSE held[n]

LEMMA ProjectIs ==
  ASSUME NEW t, IsTree(t), NEW x, DOMAIN held = Nodes
  PROVE  \E seen, deleted :
           /\ Emitted(Project(t, x), t, x, seen, deleted)
           /\ StubsIn(held) \subseteq seen \cup deleted
           /\ deleted \cap t.live = {} => Looked(t, x, anchors, seen)
<1>1. PICK deleted, touched : deleted = Below(t, x.deleted) /\ touched = Touched(t, x)
  OBVIOUS
<1>2. PICK above : above = UNION {ToSet(Up(t, n)) : n \in touched \cap DOMAIN anchors}
  OBVIOUS
<1>3. PICK changed : changed = touched \cup above \cup x.updated
  OBVIOUS
<1>4. PICK targets : targets = {t.val[n] : n \in (changed \cap t.live) \cup deleted}
                               \cup {x.undoPatch[n] : n \in DOMAIN x.undoPatch \cap t.live}
  OBVIOUS
<1>5. PICK seen : seen = ((changed \cup targets \cup StubsIn(held)) \ {None}) \ deleted
  OBVIOUS
<1>6. PICK e : e = Project(t, x)
  OBVIOUS
<1>7. e = [tree |-> t, held |-> held, placed |-> placed, deleted |-> deleted, moved |-> x.moved,
           seen |-> seen,
           after |-> [n \in Nodes |-> IF n \in seen THEN Classify(t, anchors, n) ELSE held[n]]]
  BY <1>1, <1>2, <1>3, <1>4, <1>5, <1>6 DEF Project, Touched
<1>8. \A n \in Nodes : e.after[n] = IF n \in seen THEN Classify(t, anchors, n) ELSE held[n]
  BY <1>7
<1>9. Emitted(e, t, x, seen, deleted)
  BY <1>1, <1>5, <1>7, <1>8 DEF Emitted
<1>10. t.live \subseteq Nodes /\ None \notin Nodes
  BY TreeIs, DocumentTreeAssumption
<1>11. StubsIn(held) \subseteq seen \cup deleted
  BY <1>5, <1>10 DEF StubsIn
<1>12. ASSUME deleted \cap t.live = {} PROVE Looked(t, x, anchors, seen)
  <2>1. (changed \cup targets) \cap t.live \subseteq seen
    BY <1>5, <1>10, <1>12
  <2>2. ASSUME NEW a \in touched \cap DOMAIN anchors \cap t.live PROVE ToSet(Up(t, a)) \subseteq seen
    <3>1. ToSet(Up(t, a)) \subseteq t.live
      BY UpIs
    <3>2. ToSet(Up(t, a)) \subseteq changed
      BY <1>2, <1>3
    <3> QED
      BY <2>1, <3>1, <3>2
  <2>3. ASSUME NEW n \in (touched \cup x.updated) \cap t.live, t.val[n] \in t.live PROVE t.val[n] \in seen
    <3>1. t.val[n] \in targets
      BY <1>3, <1>4
    <3> QED
      BY <2>1, <2>3, <3>1
  <2>4. touched \cap t.live \subseteq seen
    BY <1>3, <2>1
  <2> QED
    BY <1>1, <2>2, <2>3, <2>4 DEF Looked
<1>13. deleted \cap t.live = {} => Looked(t, x, anchors, seen)
  BY <1>12
<1> QED
  BY <1>6, <1>9, <1>11, <1>13

LEMMA ProjectExact ==
  ASSUME NEW t, NEW x, NEW b, Follows(t, x, b), IsScope(anchors), Exact(b, anchors),
         NEW e, e = Project(t, x), e.deleted \cap t.live = {}
  PROVE  HeldAfter(e) = ComputeAll(t, anchors) /\ PlacedNext(e) = InTree(t, HeldAfter(e), Nodes)
<1>1. PICK A, h : A = anchors /\ h = ComputeAll(t, A)
  OBVIOUS
<1>2. IsTree(t) /\ IsTree(b) /\ Indexed(t) /\ t.live \subseteq Nodes /\ b.live \subseteq Nodes
  BY TreeIs DEF Follows
<1>3. DOMAIN held = Nodes /\ held = ComputeAll(b, A) /\ h \in [Nodes -> {"full", "stub", "none"}]
  <2>1. PICK n \in Nodes : TRUE
    BY DocumentTreeAssumption
  <2> QED
    BY <1>1, <2>1, ComputeIs DEF Exact
<1>4. PICK seen, deleted : /\ Emitted(e, t, x, seen, deleted)
                           /\ StubsIn(held) \subseteq seen \cup deleted
                           /\ deleted \cap t.live = {} => Looked(t, x, anchors, seen)
  BY <1>2, <1>3, ProjectIs
<1>5. /\ e.tree = t /\ e.seen = seen /\ e.deleted = deleted /\ e.placed = placed
      /\ deleted = Below(t, x.deleted) /\ seen \cap deleted = {} /\ deleted \cap t.live = {}
      /\ \A n \in Nodes : e.after[n] = IF n \in seen THEN Classify(t, A, n) ELSE held[n]
  BY <1>1, <1>4 DEF Emitted
<1>6. Looked(t, x, A, seen)
  BY <1>1, <1>4, <1>5
<1>7. b.live \ t.live \subseteq deleted
  <2>1. ASSUME NEW n \in b.live \ t.live PROVE n \in Under(t, <<n>>)
    <3>1. Contains(<<n>>, n)
      BY <2>1 DEF Contains
    <3> QED
      BY <1>2, <2>1, <3>1 DEF Under
  <2> QED
    BY <1>5, <2>1 DEF Follows, Below
<1>8. ASSUME NEW n \in Nodes, n \notin t.live PROVE h[n] = "none" /\ n \notin InTree(t, h, Nodes)
  BY <1>1, <1>2, <1>8, NotLive
<1>9. ASSUME NEW n \in Nodes, n \notin b.live PROVE held[n] = "none" /\ n \notin placed
  BY <1>2, <1>3, <1>9, NotLive DEF Exact
<1>10. ASSUME NEW n \in t.live, n \notin seen
       PROVE  n \in b.live /\ h[n] = held[n] /\ h[n] # "stub"
  <2>1. n \in Nodes /\ n \notin deleted
    BY <1>2, <1>5
  <2>2. held[n] # "stub"
    BY <1>4, <1>10, <2>1 DEF StubsIn
  <2> QED
    BY <1>1, <1>3, <1>6, <1>10, <2>2, UnseenSame
<1>11. ASSUME NEW n \in Nodes PROVE HeldAfter(e)[n] = h[n]
  <2>1. HeldAfter(e)[n] = IF n \in deleted THEN "none" ELSE e.after[n]
    BY <1>5 DEF HeldAfter
  <2>2. CASE n \in deleted
    BY <1>5, <1>8, <2>1, <2>2
  <2>3. CASE n \notin deleted /\ n \in seen
    BY <1>1, <1>2, <1>5, <2>1, <2>3, ClassifyIs
  <2>4. CASE n \notin deleted /\ n \notin seen /\ n \in t.live
    BY <1>5, <1>10, <2>1, <2>4
  <2>5. CASE n \notin deleted /\ n \notin seen /\ n \notin t.live
    BY <1>5, <1>7, <1>8, <1>9, <2>1, <2>5
  <2> QED
    BY <2>2, <2>3, <2>4, <2>5
<1>12. HeldAfter(e) = h
  <2>1. HeldAfter(e) = [n \in Nodes |-> HeldAfter(e)[n]]
    BY DEF HeldAfter
  <2> QED
    BY <1>3, <1>11, <2>1
<1>13. PICK again, in : again = seen \cup deleted /\ in = InTree(t, h, Nodes)
  OBVIOUS
<1>14. PlacedNext(e) = (placed \ again) \cup InTree(t, h, again)
  BY <1>5, <1>12, <1>13 DEF PlacedNext
<1>15. in \subseteq t.live /\ InTree(t, h, again) = in \cap again
  BY <1>2, <1>13 DEF InTree
<1>16. placed \subseteq b.live
  BY <1>3 DEF Exact, InTree
<1>17. ASSUME NEW n \in Nodes, n \notin again PROVE n \in placed <=> n \in in
  <2>1. CASE n \notin t.live
    BY <1>7, <1>9, <1>13, <1>15, <1>17, <2>1
  <2>2. CASE n \in t.live
    <3>1. n \in b.live /\ h[n] = held[n] /\ h[n] # "stub"
      BY <1>10, <1>13, <1>17, <2>2
    <3>2. n \in in <=> h[n] = "full"
      BY <1>1, <1>2, <1>13, <2>2, <3>1, InTreeIs, ComputeIs
    <3>3. n \in placed <=> held[n] = "full"
      BY <1>1, <1>2, <1>3, <3>1, InTreeIs, ComputeIs DEF Exact
    <3> QED
      BY <3>1, <3>2, <3>3
  <2> QED
    BY <2>1, <2>2
<1>18. PlacedNext(e) = in
  BY <1>2, <1>14, <1>15, <1>16, <1>17
<1> QED
  BY <1>1, <1>12, <1>13, <1>18

(* A transaction that recorded no change changed nothing that is shown.      *)
LEMMA NothingSame ==
  ASSUME NEW t, NEW x, NEW b, Follows(t, x, b), NEW A,
         x.inserted = {}, x.deleted = {}, x.moved = {}, x.updated = {}
  PROVE  ComputeAll(t, A) = ComputeAll(b, A) /\ \A h : InTree(t, h, Nodes) = InTree(b, h, Nodes)
<1>1. IsTree(t) /\ IsTree(b) /\ t.live \subseteq Nodes /\ t.live = b.live
  BY TreeIs DEF Follows, Placement
<1>2. \A n \in t.live : n \notin Touched(t, x)
  BY DEF Touched, Below
<1>3. \A n \in t.live : Up(t, n) = Up(b, n) /\ t.val[n] = b.val[n]
  BY <1>2, UntouchedUp DEF Follows
<1>4. \A n \in t.live : Beyond(t, A, n) = Beyond(b, A, n)
  BY <1>3 DEF Beyond
<1>5. FullIn(t, A) = FullIn(b, A)
  <2>1. \A n \in t.live : IsFull(t, A, n) <=> IsFull(b, A, n)
    BY <1>4 DEF IsFull
  <2> QED
    BY <1>1, <2>1 DEF FullIn
<1>6. AnchorAncestors(t, A) = AnchorAncestors(b, A)
  <2>1. \A n : n \in AnchorAncestors(t, A) <=> \E a \in DOMAIN A \cap t.live : n \in ToSet(Tail(Up(t, a)))
    BY <1>1, AnchorsAbove
  <2>2. \A n : n \in AnchorAncestors(b, A) <=> \E a \in DOMAIN A \cap t.live : n \in ToSet(Tail(Up(b, a)))
    BY <1>1, AnchorsAbove
  <2> QED
    BY <1>3, <2>1, <2>2
<1>7. SomeIn(t, A) = SomeIn(b, A)
  <2> SUFFICES ASSUME NEW n PROVE n \in SomeIn(t, A) <=> n \in SomeIn(b, A)
    OBVIOUS
  <2>1. n \in t.live => (AtBound(t, A, n) <=> AtBound(b, A, n))
    BY <1>4 DEF AtBound
  <2>2. \A m \in FullIn(t, A) : t.val[m] = b.val[m]
    BY <1>3 DEF FullIn
  <2>3. n \in {t.val[m] : m \in FullIn(t, A)} <=> n \in {b.val[m] : m \in FullIn(b, A)}
    BY <1>5, <2>2
  <2>4. n \in {m \in t.live : AtBound(t, A, m)} <=> n \in {m \in b.live : AtBound(b, A, m)}
    BY <1>1, <2>1
  <2> QED
    BY <1>1, <1>6, <2>3, <2>4 DEF SomeIn
<1>8. ComputeAll(t, A) = ComputeAll(b, A)
  <2>1. \A n \in Nodes : ComputeAll(t, A)[n] = ComputeAll(b, A)[n]
    BY <1>5, <1>7, ComputeIs
  <2>2. PICK n \in Nodes : TRUE
    BY DocumentTreeAssumption
  <2> QED
    BY <2>1, <2>2, ComputeIs
<1>9. ASSUME NEW h PROVE InTree(t, h, Nodes) = InTree(b, h, Nodes)
  BY <1>1, <1>3 DEF InTree
<1> QED
  BY <1>8, <1>9

-----------------------------------------------------------------------------
(* The inductive invariant: the view is that of the document which the open  *)
(* transaction began with, and the transaction knows whom it gave a parent.  *)
ViewInv ==
  /\ TreeInv /\ IndexInv /\ KnownInv
  /\ anchors \in Scopes /\ stage \in {"idle", "update"}
  /\ IsTree(base) /\ Exact(base, anchors)
  /\ stage = "update" => Placement(tree, tx, base)

LEMMA ViewInit == ScopeInit => ViewInv
<1> SUFFICES ASSUME ScopeInit PROVE ViewInv
  OBVIOUS
<1>1. TreeInv /\ IndexInv /\ KnownInv
  BY TreeInit, IndexInit, KnownInit DEF ScopeInit
<1>2. stage = "idle" /\ base = tree
  BY DEF ScopeInit, Init
<1>3. Exact(base, anchors)
  BY <1>2 DEF ScopeInit, Exact
<1> QED
  BY <1>1, <1>2, <1>3 DEF ViewInv, ScopeInit, TreeInv, Pointers

LEMMA CommitFollows ==
  ASSUME ViewInv, stage = "update"
  PROVE  Follows(tree, tx, base)
<1>1. IsTree(tree) /\ IsTree(base) /\ Indexed(tree) /\ Placement(tree, tx, base)
  BY DEF ViewInv, TreeInv, Pointers, IndexInv, IndexExact, Indexed
<1>2. Known(tree, tx, base, gone)
  BY DEF ViewInv, KnownInv
<1>3. ASSUME NEW n \in tree.live \ (tx.inserted \cup tx.updated) PROVE tree.val[n] = base.val[n]
  <2>1. n \in (tree.live \cap base.live) \ gone
    BY <1>2, <1>3 DEF Known
  <2> QED
    BY <1>2, <1>3, <2>1 DEF Known, FieldKnown
<1>4. base.live \ tree.live \subseteq tx.deleted
  BY <1>2 DEF Known
<1> QED
  BY <1>1, <1>3, <1>4 DEF Follows

LEMMA CommitExact ==
  ASSUME "revived" \notin Faults, ViewInv, ScopeCommit
  PROVE  Exact(base, anchors)'
<1>1. stage = "update" /\ base' = tree /\ anchors' = anchors
  BY DEF ScopeCommit, Commit, Close
<1>2. Follows(tree, tx, base) /\ Exact(base, anchors) /\ IsScope(anchors)
  BY <1>1, CommitFollows, ScopeAssumption DEF ViewInv, IsScope
<1>3. CASE HasChanges(tx)
  <2>1. PICK e : e = Project(tree, tx) /\ Careful(e) /\ Deliver(e, tx.patch)
    BY <1>3 DEF ScopeCommit
  <2>2. e.tree = tree
    BY <2>1 DEF Project
  <2>3. e.deleted \cap tree.live = {}
    BY <2>1, <2>2 DEF Careful, Spared
  <2>4. held' = HeldAfter(e) /\ placed' = PlacedNext(e)
    BY <2>1 DEF Deliver
  <2>5. HeldAfter(e) = ComputeAll(tree, anchors) /\ PlacedNext(e) = InTree(tree, HeldAfter(e), Nodes)
    BY <1>2, <2>1, <2>3, ProjectExact
  <2> QED
    BY <1>1, <2>4, <2>5 DEF Exact
<1>4. CASE ~HasChanges(tx)
  <2>1. tx.inserted = {} /\ tx.deleted = {} /\ tx.moved = {} /\ DOMAIN tx.patch = {}
    BY <1>4 DEF HasChanges
  <2>2. tx.updated = {}
    BY <1>1, <2>1 DEF ViewInv, KnownInv, Known
  <2>3. /\ ComputeAll(tree, anchors) = ComputeAll(base, anchors)
        /\ \A h : InTree(tree, h, Nodes) = InTree(base, h, Nodes)
    BY <1>2, <2>1, <2>2, NothingSame
  <2>4. UNCHANGED <<held, placed>>
    BY <1>4 DEF ScopeCommit
  <2> QED
    BY <1>1, <1>2, <2>3, <2>4 DEF Exact
<1> QED
  BY <1>3, <1>4

LEMMA RescopeExact ==
  ASSUME NEW t, IsTree(t), Exact(t, anchors), NEW A, NEW e, e = Rescope(t, A)
  PROVE  HeldAfter(e) = ComputeAll(t, A) /\ PlacedNext(e) = InTree(t, HeldAfter(e), Nodes)
<1>1. PICK all : all = ComputeAll(t, A)
  OBVIOUS
<1>2. /\ e.tree = t /\ e.placed = placed /\ e.deleted = {} /\ e.after = all
      /\ e.seen = HeldIn(held) \cup HeldIn(all)
  BY <1>1 DEF Rescope
<1>3. all \in [Nodes -> {"full", "stub", "none"}]
  <2>1. PICK n \in Nodes : TRUE
    BY DocumentTreeAssumption
  <2> QED
    BY <1>1, <2>1, ComputeIs
<1>4. HeldAfter(e) = all
  BY <1>2, <1>3 DEF HeldAfter
<1>5. ASSUME NEW h, NEW n \in InTree(t, h, Nodes) PROVE n \in Nodes /\ n \in HeldIn(h)
  BY UpIs DEF InTree, Path
<1>6. placed \subseteq e.seen
  BY <1>2, <1>5 DEF Exact
<1>7. InTree(t, all, Nodes) = InTree(t, all, e.seen)
  <2>1. InTree(t, all, Nodes) \subseteq e.seen /\ e.seen \subseteq Nodes
    BY <1>2, <1>5 DEF HeldIn
  <2> QED
    BY <2>1 DEF InTree
<1>8. PlacedNext(e) = InTree(t, all, e.seen)
  BY <1>2, <1>4, <1>6 DEF PlacedNext
<1> QED
  BY <1>1, <1>4, <1>7, <1>8

LEMMA ViewNext ==
  ASSUME {"stale", "give back", "revive", "revived"} \cap Faults = {}, ViewInv, [ScopeNext]_scopeVars
  PROVE  ViewInv'
<1>1. TreeInv /\ IndexInv /\ KnownInv
  BY DEF ViewInv
<1>2. [Begin \/ AnyCall \/ Commit]_vars
  BY DEF ScopeNext, ScopeCommit, ChangeScope, scopeVars
<1>3. TreeInv'
  <2>1. CASE UNCHANGED vars
    BY <1>1, <2>1, TreeSame DEF vars, TreeInv, Pointers, TypeOK
  <2> QED
    BY <1>1, <1>2, <2>1, CallsTree, BeginTree, CommitTree
<1>4. [Next]_vars
  BY <1>2 DEF Next
<1>5. IndexInv' /\ KnownInv'
  BY <1>1, <1>4, IndexNext, KnownNext
<1>6. CASE Begin /\ UNCHANGED <<view, client>>
  <2>1. /\ stage = "idle" /\ stage' = "update" /\ base' = base /\ tree' = tree /\ tx' = tx
        /\ UNCHANGED <<anchors, held, placed>>
    BY <1>6 DEF Begin, view
  <2>2. base = tree /\ tx = NoRecord
    BY <1>1, <2>1 DEF KnownInv
  <2>3. Placement(tree', tx', base')
    BY <2>1, <2>2 DEF Placement
  <2> QED
    BY <1>3, <1>5, <2>1, <2>3 DEF ViewInv, Exact
<1>7. CASE AnyCall /\ UNCHANGED <<view, client>>
  <2>1. stage = "update" /\ UNCHANGED <<stage, base>>
    BY <1>7 DEF AnyCall, Insert, InsertIds, InsertSkipped, Delete, Move, Set, Patch, Open, Call
  <2>2. UNCHANGED <<anchors, held, placed>>
    BY <1>7 DEF view
  <2>3. DOMAIN tx = Parts /\ Placement(tree, tx, base)
    BY <1>1, <2>1 DEF ViewInv, KnownInv, Known
  <2>4. Placement(tree', tx', base')
    BY <1>1, <1>7, <2>3, CallsPlace
  <2> QED
    BY <1>3, <1>5, <2>1, <2>2, <2>4 DEF ViewInv, Exact
<1>8. CASE ScopeCommit
  <2>1. Exact(base, anchors)'
    BY <1>8, CommitExact
  <2>2. stage' = "idle" /\ base' = tree /\ anchors' = anchors
    BY <1>8 DEF ScopeCommit, Commit, Close
  <2> QED
    BY <1>1, <1>3, <1>5, <2>1, <2>2 DEF ViewInv, TreeInv, Pointers, Exact
<1>9. ASSUME NEW A \in Scopes, ChangeScope(A) PROVE ViewInv'
  <2>1. stage = "idle" /\ stage' = stage /\ base' = base /\ tree' = tree /\ anchors' = A
    BY <1>9 DEF ChangeScope, vars
  <2>2. PICK e : e = Rescope(tree, A) /\ Deliver(e, <<>>)
    BY <1>9 DEF ChangeScope
  <2>3. held' = HeldAfter(e) /\ placed' = PlacedNext(e)
    BY <2>2 DEF Deliver
  <2>4. base = tree /\ IsTree(tree) /\ Exact(tree, anchors)
    BY <1>1, <2>1 DEF ViewInv, KnownInv, TreeInv, Pointers
  <2>5. Exact(base, anchors)'
    BY <2>1, <2>2, <2>3, <2>4, RescopeExact DEF Exact
  <2> QED
    BY <1>3, <1>5, <2>1, <2>4, <2>5 DEF ViewInv, Exact
<1>10. CASE UNCHANGED scopeVars
  BY <1>3, <1>5, <1>10 DEF scopeVars, vars, view, ViewInv, Exact
<1> QED
  BY <1>6, <1>7, <1>8, <1>9, <1>10 DEF ScopeNext

LEMMA ViewShown == ViewInv => ViewExact
<1> SUFFICES ASSUME ViewInv PROVE ViewExact
  OBVIOUS
<1>1. IsTree(base) /\ Exact(base, anchors) /\ anchors \in Scopes
  BY DEF ViewInv
<1>2. held \in [Nodes -> {"full", "stub", "none"}]
  <2>1. PICK n \in Nodes : TRUE
    BY DocumentTreeAssumption
  <2> QED
    BY <1>1, <2>1, ComputeIs DEF Exact
<1>3. placed \subseteq HeldIn(held)
  BY <1>1, UpIs DEF Exact, InTree, Path
<1>4. stage = "idle" => base = tree
  BY DEF ViewInv, KnownInv
<1> QED
  BY <1>1, <1>2, <1>3, <1>4 DEF ViewExact, ViewTypeOK, Exact

(* After every commit and every change of scope the view is what it would be *)
(* if it were computed from the whole document: which nodes the client holds *)
(* in full, as stubs or not at all, and which of them are in its tree,       *)
(* although a commit looks only at what it touched and wrote, at the stubs   *)
(* and at what these refer to (ClientView.project). That nodes which went    *)
(* with a deleted node do not come back in its transaction is needed.        *)
THEOREM ViewIsExact ==
  ASSUME {"stale", "give back", "revive", "revived"} \cap Faults = {}
  PROVE  ScopeSpec => []ViewExact
<1>1. ViewInv /\ [ScopeNext]_scopeVars => ViewInv'
  BY ViewNext
<1> QED
  BY ViewInit, <1>1, ViewShown, PTL DEF ScopeSpec
=============================================================================
