------------------------------ MODULE MerkleProofs ------------------------------
(***************************************************************************)
(* Proofs about the tree of merkle.py, for lists of any length.            *)
(*                                                                         *)
(* The tree and the proofs are recursive functions whose values the        *)
(* provers do not see, and the induction theorems of the library cannot be *)
(* used, so each one has a lemma that some function satisfies its equation *)
(* (...Exist: take the least bound for which none does) and one that its   *)
(* values therefore do.  Every other induction is such a least             *)
(* counterexample too (LeastOf).                                           *)
(*                                                                         *)
(* The argument: a level above is shorter, so the levels end in one node   *)
(* (TreeIs).  Climbing from a leaf, the proof so far computes the node     *)
(* that has been reached (ClimbsAlong), at last the root; and what a proof *)
(* computes it computes of one leaf only (ComputedApart).  The stream has, *)
(* after k items, hashed their pairs, and remembers the first item with    *)
(* the key and its sibling (ReadHashes, ReadSees): at the end it has the   *)
(* second level of the tree and the first step of the proof, and the tree  *)
(* over the second level is the rest of the tree (ProofFromFirst).         *)
(*                                                                         *)
(* Last, the roots.  Hash(d, lo, hi) is RFC 6962's hash of a part of a     *)
(* list.  The levels hold the hashes of its blocks (LevelsCover); root_at  *)
(* and the builder fold the blocks of the bits of a size from the smallest *)
(* up, and carry the hash of the leaves so far (CarryOn).                  *)
(***************************************************************************)
EXTENDS MerkleBuilder, SequenceTheorems, WellFoundedInduction, TLAPS

\* The least element of a set of numbers.
LEMMA LeastOf ==
    ASSUME NEW T, T \subseteq Nat, T # {}
    PROVE  \E k \in T : \A i \in T : k <= i
<1> DEFINE R == OpToRel(<, Nat)
<1>1. IsWellFoundedOn(R, Nat)
  BY NatLessThanWellFounded
<1>2. PICK k \in T : \A i \in T : <<i, k>> \notin R
  <2> HIDE DEF R
  <2> QED
    BY <1>1, WFMin
<1>3. \A i \in T : ~(i < k)
  BY <1>2 DEF OpToRel
<1> HIDE DEF R
<1> QED
  BY <1>3

\* The levels over a first one, as many as one likes.
LevelsTo(nodes, n, levels) ==
    levels = [h \in 0 .. n |-> IF h = 0 THEN nodes ELSE Up(levels[h - 1])]

\* There are such levels, and LevelsOver chooses among them.
LEMMA LevelsExist ==
    ASSUME NEW nodes
    PROVE  \A n \in Nat : \E levels : LevelsTo(nodes, n, levels)
<1> DEFINE T == {n \in Nat : ~ \E levels : LevelsTo(nodes, n, levels)}
<1> SUFFICES ASSUME T # {} PROVE FALSE
  OBVIOUS
<1>1. PICK n \in T : \A m \in T : n <= m
  BY LeastOf
<1>2. n # 0
  <2>1. LevelsTo(nodes, 0, [h \in 0 .. 0 |-> nodes])
    BY DEF LevelsTo
  <2> QED
    BY <2>1
<1>3. n \in Nat /\ n - 1 \in Nat /\ ~(n <= n - 1)
  BY <1>2
<1>4. PICK below : LevelsTo(nodes, n - 1, below)
  BY <1>1, <1>3
<1> DEFINE levels == [h \in 0 .. n |-> IF h < n THEN below[h] ELSE Up(below[n - 1])]
<1>5. DOMAIN levels = 0 .. n
  OBVIOUS
<1>6. ASSUME NEW h \in 0 .. n
      PROVE  levels[h] = IF h = 0 THEN nodes ELSE Up(levels[h - 1])
  <2>1. CASE h = 0
    <3>1. below[0] = nodes
      BY <1>3, <1>4 DEF LevelsTo
    <3> QED
      BY <1>3, <2>1, <3>1
  <2>2. CASE h # 0 /\ h < n
    <3>1. h - 1 \in 0 .. n /\ h - 1 < n /\ h \in 0 .. n - 1
      BY <1>3, <2>2
    <3>2. below[h] = Up(below[h - 1])
      BY <1>4, <2>2, <3>1 DEF LevelsTo
    <3>3. levels[h] = below[h] /\ levels[h - 1] = below[h - 1]
      BY <2>2, <3>1
    <3> QED
      BY <2>2, <3>2, <3>3
  <2>3. CASE h = n
    <3>1. levels[h - 1] = below[h - 1]
      BY <1>3, <2>3
    <3> QED
      BY <1>3, <2>3, <3>1
  <2> QED
    BY <1>3, <2>1, <2>2, <2>3
<1>7. LevelsTo(nodes, n, levels)
  <2> HIDE DEF levels
  <2>1. levels = [h \in 0 .. n |-> levels[h]]
    BY <1>5 DEF levels
  <2> QED
    BY <1>6, <2>1 DEF LevelsTo
<1> QED
  BY <1>7

LEMMA LevelsAre ==
    ASSUME NEW nodes, NEW n \in Nat, n = Len(nodes)
    PROVE  \E levels :
             /\ LevelsTo(nodes, n, levels)
             /\ LevelsOver(nodes) =
                  LET top == CHOOSE h \in 0 .. n :
                               Len(levels[h]) = 1 /\ \A g \in 0 .. h - 1 : Len(levels[g]) > 1
                  IN  [h \in 0 .. top |-> levels[h]]
<1> DEFINE levels == CHOOSE f : f = [h \in 0 .. n |-> IF h = 0 THEN nodes ELSE Up(f[h - 1])]
<1>1. LevelsOver(nodes) =
        LET top == CHOOSE h \in 0 .. n :
                     Len(levels[h]) = 1 /\ \A g \in 0 .. h - 1 : Len(levels[g]) > 1
        IN  [h \in 0 .. top |-> levels[h]]
  BY DEF LevelsOver
<1>2. LevelsTo(nodes, n, levels)
  <2>1. PICK f : LevelsTo(nodes, n, f)
    BY LevelsExist
  <2>2. f = [h \in 0 .. n |-> IF h = 0 THEN nodes ELSE Up(f[h - 1])]
    BY <2>1 DEF LevelsTo
  <2> QED
    BY <2>2 DEF LevelsTo
<1> QED
  BY <1>1, <1>2

\* A level of a tree: a list of at least one node.
Row(level) == Len(level) \in Nat \ {0} /\ DOMAIN level = 1 .. Len(level)

\* A level of other than one node has more.
LEMMA MoreThanOne ==
    ASSUME NEW level, Row(level), Len(level) # 1
    PROVE  Len(level) > 1
<1>1. PICK l \in Nat \ {0} : l = Len(level)
  BY DEF Row
<1>2. l > 1
  BY <1>1
<1> QED
  BY <1>1, <1>2

\* The length of a list that is given by its elements.
LEMMA ListIs ==
    ASSUME NEW n \in Nat, NEW s, DOMAIN s = 1 .. n, s = [i \in 1 .. n |-> s[i]]
    PROVE  Len(s) = n
<1> DEFINE S == {s[i] : i \in 1 .. n}
<1>1. s \in [1 .. n -> S]
  OBVIOUS
<1>2. s \in Seq(S)
  <2>1. [1 .. n -> S] \subseteq Seq(S)
    OBVIOUS
  <2> QED
    BY <1>1, <2>1
<1> HIDE DEF S
<1> QED
  BY <1>2, LenProperties

\* The level above, node by node.
LEMMA UpIs ==
    ASSUME NEW level, Row(level)
    PROVE  /\ Row(Up(level)) /\ Len(Up(level)) = (Len(level) + 1) \div 2
           /\ \A i \in 1 .. Len(Up(level)) :
                Up(level)[i] = IF 2 * i <= Len(level) THEN NodeHash(level[2 * i - 1], level[2 * i])
                               ELSE level[Len(level)]
<1> DEFINE n == Len(level)
<1>1. PICK m \in Nat : m = (n + 1) \div 2
  BY DEF Row
<1>2. m \in Nat \ {0}
  BY <1>1 DEF Row
<1> DEFINE u == Up(level)
<1>3. u = [i \in 1 .. m |-> IF 2 * i <= n THEN NodeHash(level[2 * i - 1], level[2 * i])
                            ELSE level[n]]
  BY <1>1 DEF Up
<1>4. DOMAIN u = 1 .. m /\ u = [i \in 1 .. m |-> u[i]]
  <2> HIDE DEF u, n
  <2> QED
    BY <1>3
<1>5. Len(u) = m
  <2> HIDE DEF u
  <2> QED
    BY <1>2, <1>4, ListIs
<1> HIDE DEF u
<1> QED
  BY <1>1, <1>2, <1>3, <1>4, <1>5 DEF Row, u

\* The levels of a tree, from the leaves to the root.
Tree(levels, top) ==
    /\ top \in Nat /\ DOMAIN levels = 0 .. top
    /\ \A h \in 0 .. top : Row(levels[h])
    /\ Len(levels[top]) = 1
    /\ \A h \in 0 .. top - 1 : Len(levels[h]) > 1 /\ levels[h + 1] = Up(levels[h])

\* A level has one node, or fewer nodes than the level below.
LEMMA LevelsShrink ==
    ASSUME NEW nodes, Row(nodes), NEW n \in Nat, n = Len(nodes),
           NEW levels, LevelsTo(nodes, n, levels)
    PROVE  \A h \in 0 .. n :
             Row(levels[h]) /\ (Len(levels[h]) = 1 \/ Len(levels[h]) <= n - h)
<1> DEFINE Shrunk(h) == Row(levels[h]) /\ (Len(levels[h]) = 1 \/ Len(levels[h]) <= n - h)
           T == {h \in 0 .. n : ~Shrunk(h)}
<1> SUFFICES ASSUME T # {} PROVE FALSE
  OBVIOUS
<1>1. PICK h \in T : \A g \in T : h <= g
  <2>1. T \subseteq Nat
    OBVIOUS
  <2> HIDE DEF T
  <2> QED
    BY <2>1, LeastOf
<1>2. h \in 0 .. n /\ ~Shrunk(h)
  OBVIOUS
<1> HIDE DEF Shrunk
<1>3. h # 0
  <2>1. levels[0] = nodes
    BY DEF LevelsTo
  <2>2. Shrunk(0)
    BY <2>1 DEF Shrunk
  <2> QED
    BY <1>2, <2>2
<1>4. PICK g \in 0 .. n : g = h - 1
  BY <1>2, <1>3
<1>5. Shrunk(g)
  <2>1. ~(h <= g)
    BY <1>4
  <2> QED
    BY <1>1, <2>1
<1>6. levels[h] = Up(levels[g])
  BY <1>2, <1>3, <1>4 DEF LevelsTo
<1>7. Row(levels[h]) /\ Len(levels[h]) = (Len(levels[g]) + 1) \div 2
  BY <1>5, <1>6, UpIs DEF Shrunk
<1>8. Len(levels[h]) = 1 \/ Len(levels[h]) <= n - h
  <2>1. PICK l \in Nat \ {0} : l = Len(levels[g])
    BY <1>5 DEF Shrunk, Row
  <2>2. l = 1 \/ l <= n - g
    BY <1>5, <2>1 DEF Shrunk
  <2>3. (l + 1) \div 2 = 1 \/ (l + 1) \div 2 <= n - h
    BY <1>2, <1>4, <2>2
  <2> QED
    BY <1>7, <2>1, <2>3
<1> QED
  BY <1>2, <1>7, <1>8 DEF Shrunk

\* LevelsOver is a tree.
LEMMA TreeIs ==
    ASSUME NEW nodes, Row(nodes)
    PROVE  \E top \in Nat : Tree(LevelsOver(nodes), top) /\ LevelsOver(nodes)[0] = nodes
<1>1. PICK n \in Nat : n = Len(nodes)
  BY DEF Row
<1>2. PICK levels :
        /\ LevelsTo(nodes, n, levels)
        /\ LevelsOver(nodes) =
             LET top == CHOOSE h \in 0 .. n :
                          Len(levels[h]) = 1 /\ \A g \in 0 .. h - 1 : Len(levels[g]) > 1
             IN  [h \in 0 .. top |-> levels[h]]
  BY <1>1, LevelsAre
<1>3. \A h \in 0 .. n : Row(levels[h]) /\ (Len(levels[h]) = 1 \/ Len(levels[h]) <= n - h)
  BY <1>1, <1>2, LevelsShrink
<1> DEFINE T == {h \in 0 .. n : Len(levels[h]) = 1}
<1>4. n \in T
  <2>1. n \in 0 .. n /\ ~(Len(levels[n]) <= 0)
    BY <1>3 DEF Row
  <2> QED
    BY <1>3, <2>1
<1>5. PICK k \in 0 .. n : k \in T /\ \A h \in T : k <= h
  <2>1. T \subseteq Nat /\ T # {} /\ T \subseteq 0 .. n
    BY <1>4
  <2> HIDE DEF T
  <2> QED
    BY <2>1, LeastOf
<1> DEFINE IsTop(h) == Len(levels[h]) = 1 /\ \A g \in 0 .. h - 1 : Len(levels[g]) > 1
<1>6. k \in 0 .. n /\ IsTop(k)
  <2>1. ASSUME NEW g \in 0 .. k - 1 PROVE Len(levels[g]) > 1
    <3>1. g \in 0 .. n /\ ~(k <= g)
      OBVIOUS
    <3>2. Len(levels[g]) # 1
      BY <1>5, <3>1
    <3>3. Row(levels[g])
      BY <1>3, <3>1
    <3> QED
      BY <3>2, <3>3, MoreThanOne
  <2> QED
    BY <1>5, <2>1
<1> DEFINE top == CHOOSE h \in 0 .. n : IsTop(h)
<1>7. top \in 0 .. n /\ IsTop(top)
  <2> HIDE DEF IsTop
  <2> QED
    BY <1>6
<1>8. LevelsOver(nodes) = [h \in 0 .. top |-> levels[h]]
  BY <1>2
<1> HIDE DEF top, T
<1> DEFINE all == LevelsOver(nodes)
<1>9. DOMAIN all = 0 .. top /\ \A h \in 0 .. top : all[h] = levels[h] /\ h \in 0 .. n
  BY <1>7, <1>8
<1>10. all[0] = nodes
  <2>1. 0 \in 0 .. top /\ 0 \in 0 .. n
    BY <1>7
  <2>2. levels[0] = nodes
    BY <1>2, <2>1 DEF LevelsTo
  <2> QED
    BY <1>9, <2>1, <2>2
<1>11. ASSUME NEW h \in 0 .. top - 1 PROVE Len(all[h]) > 1 /\ all[h + 1] = Up(all[h])
  <2>1. h \in 0 .. top /\ h + 1 \in 0 .. top /\ h + 1 \in 0 .. n /\ h + 1 # 0 /\ (h + 1) - 1 = h
    BY <1>7
  <2>2. levels[h + 1] = Up(levels[h])
    BY <1>2, <2>1 DEF LevelsTo
  <2> QED
    BY <1>7, <1>9, <2>1, <2>2
<1> HIDE DEF all
<1>12. top \in Nat /\ top \in 0 .. top
  BY <1>7
<1>13. Tree(all, top)
  BY <1>3, <1>7, <1>9, <1>11, <1>12 DEF Tree
<1> QED
  BY <1>10, <1>12, <1>13 DEF all

\* A tree's top.
LEMMA TopOf ==
    ASSUME NEW levels, NEW top \in Nat, DOMAIN levels = 0 .. top
    PROVE  Top(levels) = top
<1>1. \A h \in 0 .. top : (\A g \in 0 .. top : g <= h) <=> h = top
  OBVIOUS
<1>2. top \in 0 .. top
  OBVIOUS
<1> QED
  BY <1>1, <1>2 DEF Top

-------------------------------------------------------------------------------
(* Verifying a proof.                                                       *)

ComputedTo(leaf, proof, n, computed) ==
    computed = [k \in 0 .. n |-> IF k = 0 THEN LeafHash(leaf)
                                 ELSE WithSibling(computed[k - 1], proof[k])]

LEMMA ComputedExist ==
    ASSUME NEW leaf, NEW proof
    PROVE  \A n \in Nat : \E computed : ComputedTo(leaf, proof, n, computed)
<1> DEFINE T == {n \in Nat : ~ \E computed : ComputedTo(leaf, proof, n, computed)}
<1> SUFFICES ASSUME T # {} PROVE FALSE
  OBVIOUS
<1>1. PICK n \in T : \A m \in T : n <= m
  BY LeastOf
<1>2. n # 0
  <2>1. ComputedTo(leaf, proof, 0, [k \in 0 .. 0 |-> LeafHash(leaf)])
    BY DEF ComputedTo
  <2> QED
    BY <2>1
<1>3. n \in Nat /\ n - 1 \in Nat /\ ~(n <= n - 1)
  BY <1>2
<1>4. PICK below : ComputedTo(leaf, proof, n - 1, below)
  BY <1>1, <1>3
<1> DEFINE computed == [k \in 0 .. n |-> IF k < n THEN below[k]
                                         ELSE WithSibling(below[n - 1], proof[n])]
<1>5. DOMAIN computed = 0 .. n
  OBVIOUS
<1>6. ASSUME NEW k \in 0 .. n
      PROVE  computed[k] = IF k = 0 THEN LeafHash(leaf)
                           ELSE WithSibling(computed[k - 1], proof[k])
  <2>1. CASE k = 0
    <3>1. below[0] = LeafHash(leaf)
      BY <1>3, <1>4 DEF ComputedTo
    <3> QED
      BY <1>3, <2>1, <3>1
  <2>2. CASE k # 0 /\ k < n
    <3>1. k - 1 \in 0 .. n /\ k - 1 < n /\ k \in 0 .. n - 1
      BY <1>3, <2>2
    <3>2. below[k] = WithSibling(below[k - 1], proof[k])
      BY <1>4, <2>2, <3>1 DEF ComputedTo
    <3>3. computed[k] = below[k] /\ computed[k - 1] = below[k - 1]
      BY <2>2, <3>1
    <3> QED
      BY <2>2, <3>2, <3>3
  <2>3. CASE k = n
    <3>1. computed[k - 1] = below[k - 1]
      BY <1>3, <2>3
    <3> QED
      BY <1>3, <2>3, <3>1
  <2> QED
    BY <1>3, <2>1, <2>2, <2>3
<1>7. ComputedTo(leaf, proof, n, computed)
  <2> HIDE DEF computed
  <2>1. computed = [k \in 0 .. n |-> computed[k]]
    BY <1>5 DEF computed
  <2> QED
    BY <1>6, <2>1 DEF ComputedTo
<1> QED
  BY <1>7

LEMMA ComputedIs ==
    ASSUME NEW leaf, NEW proof, NEW n \in Nat, n = Len(proof)
    PROVE  \E computed : ComputedTo(leaf, proof, n, computed) /\ Computed(leaf, proof) = computed[n]
<1> DEFINE c == CHOOSE f : f = [k \in 0 .. n |-> IF k = 0 THEN LeafHash(leaf)
                                                 ELSE WithSibling(f[k - 1], proof[k])]
<1>1. Computed(leaf, proof) = c[n]
  BY DEF Computed
<1>2. ComputedTo(leaf, proof, n, c)
  <2>1. PICK f : ComputedTo(leaf, proof, n, f)
    BY ComputedExist
  <2>2. f = [k \in 0 .. n |-> IF k = 0 THEN LeafHash(leaf) ELSE WithSibling(f[k - 1], proof[k])]
    BY <2>1 DEF ComputedTo
  <2> QED
    BY <2>2 DEF ComputedTo
<1> QED
  BY <1>1, <1>2

LEMMA ComputedValues ==
    ASSUME NEW leaf, NEW proof, NEW n \in Nat, NEW c, ComputedTo(leaf, proof, n, c)
    PROVE  /\ c[0] = LeafHash(leaf)
           /\ \A k \in 1 .. n : c[k] = WithSibling(c[k - 1], proof[k])
<1>1. 0 \in 0 .. n /\ \A k \in 1 .. n : k \in 0 .. n /\ k # 0
  OBVIOUS
<1> QED
  BY <1>1 DEF ComputedTo

\* Two proofs that begin alike compute alike.
LEMMA ComputedAlong ==
    ASSUME NEW leaf, NEW p, NEW q, NEW n \in Nat, NEW m \in Nat, n <= m,
           \A k \in 1 .. n : p[k] = q[k],
           NEW c, ComputedTo(leaf, p, n, c), NEW d, ComputedTo(leaf, q, m, d)
    PROVE  c[n] = d[n]
<1>1. /\ c[0] = LeafHash(leaf) /\ d[0] = LeafHash(leaf)
      /\ \A k \in 1 .. n : c[k] = WithSibling(c[k - 1], p[k])
      /\ \A k \in 1 .. m : d[k] = WithSibling(d[k - 1], q[k])
  BY ComputedValues
<1> DEFINE T == {k \in 0 .. n : c[k] # d[k]}
<1> SUFFICES ASSUME T # {} PROVE FALSE
  OBVIOUS
<1>2. PICK k \in 0 .. n : k \in T /\ \A j \in T : k <= j
  <2>1. T \subseteq Nat /\ T \subseteq 0 .. n
    OBVIOUS
  <2> HIDE DEF T
  <2> QED
    BY <2>1, LeastOf
<1>3. c[k] # d[k]
  BY <1>2
<1>4. k # 0
  BY <1>1, <1>3
<1>5. k \in 1 .. n /\ k \in 1 .. m /\ k - 1 \in 0 .. n /\ ~(k <= k - 1)
  BY <1>4
<1>6. c[k - 1] = d[k - 1]
  BY <1>2, <1>5
<1> QED
  BY <1>1, <1>3, <1>5, <1>6

\* What the empty proof computes.
LEMMA ComputedEmpty ==
    ASSUME NEW leaf
    PROVE  Computed(leaf, <<>>) = LeafHash(leaf)
<1>1. Len(<<>>) = 0 /\ 0 \in Nat
  OBVIOUS
<1>2. PICK c : ComputedTo(leaf, <<>>, 0, c) /\ Computed(leaf, <<>>) = c[0]
  BY <1>1, ComputedIs
<1>3. c[0] = LeafHash(leaf)
  BY <1>1, <1>2, ComputedValues
<1> QED
  BY <1>2, <1>3

\* What a proof computes with its last step.
LEMMA ComputedLast ==
    ASSUME NEW x, NEW q, NEW m \in Nat, 1 <= m, NEW d, ComputedTo(x, q, m, d)
    PROVE  d[m] = WithSibling(d[m - 1], q[m])
<1>1. d[0] = LeafHash(x) /\ \A k \in 1 .. m : d[k] = WithSibling(d[k - 1], q[k])
  BY ComputedValues
<1>2. m \in 1 .. m
  OBVIOUS
<1> QED
  BY <1>1, <1>2

LEMMA ComputedAppend ==
    ASSUME NEW leaf, NEW S, NEW proof \in Seq(S), NEW step \in S
    PROVE  Computed(leaf, Append(proof, step)) = WithSibling(Computed(leaf, proof), step)
<1> DEFINE q == Append(proof, step)
<1>1. PICK n \in Nat : n = Len(proof)
  BY LenProperties
<1>2. PICK m \in Nat : m = n + 1
  OBVIOUS
<1>3. Len(q) = m /\ (\A k \in 1 .. n : q[k] = proof[k]) /\ q[m] = step
  BY <1>1, <1>2, AppendProperties
<1> HIDE DEF q
<1>4. PICK c : ComputedTo(leaf, proof, n, c) /\ Computed(leaf, proof) = c[n]
  BY <1>1, ComputedIs
<1>5. PICK d : ComputedTo(leaf, q, m, d) /\ Computed(leaf, q) = d[m]
  BY <1>3, ComputedIs
<1>6. \A k \in 1 .. n : proof[k] = q[k]
  BY <1>3
<1>7. n <= m
  BY <1>2
<1>8. c[n] = d[n]
  BY <1>4, <1>5, <1>6, <1>7, ComputedAlong
<1>9. d[m] = WithSibling(d[m - 1], q[m])
  <2>1. 1 <= m
    BY <1>2
  <2> QED
    BY <1>5, <2>1, ComputedLast
<1>10. m - 1 = n
  BY <1>2
<1> QED
  BY <1>3, <1>4, <1>5, <1>8, <1>9, <1>10 DEF q

\* Hashes are the terms they were computed from.
LEMMA HashesDiffer ==
    /\ \A x, y : LeafHash(x) = LeafHash(y) <=> x = y
    /\ \A u, v, x, y : NodeHash(u, v) = NodeHash(x, y) <=> u = x /\ v = y
    /\ \A x : LeafHash(x) # NoNode
    /\ \A x, y : NodeHash(x, y) # NoNode
BY DEF LeafHash, NodeHash, NoNode

\* A proof computes the same of no two leaves.
LEMMA ComputedApart ==
    ASSUME NEW x, NEW y, x # y, NEW proof, Len(proof) \in Nat
    PROVE  Computed(x, proof) # Computed(y, proof)
<1>1. PICK n \in Nat : n = Len(proof)
  OBVIOUS
<1>2. PICK c : ComputedTo(x, proof, n, c) /\ Computed(x, proof) = c[n]
  BY <1>1, ComputedIs
<1>3. PICK d : ComputedTo(y, proof, n, d) /\ Computed(y, proof) = d[n]
  BY <1>1, ComputedIs
<1>4. /\ c[0] = LeafHash(x) /\ d[0] = LeafHash(y)
      /\ \A k \in 1 .. n : c[k] = WithSibling(c[k - 1], proof[k])
      /\ \A k \in 1 .. n : d[k] = WithSibling(d[k - 1], proof[k])
  BY <1>2, <1>3, ComputedValues
<1> DEFINE T == {k \in 0 .. n : c[k] = d[k]}
<1> SUFFICES ASSUME n \in T PROVE FALSE
  BY <1>2, <1>3
<1>5. PICK k \in 0 .. n : k \in T /\ \A j \in T : k <= j
  <2>1. T \subseteq Nat /\ T \subseteq 0 .. n /\ T # {}
    OBVIOUS
  <2> HIDE DEF T
  <2> QED
    BY <2>1, LeastOf
<1>6. c[k] = d[k]
  BY <1>5
<1>7. k # 0
  BY <1>4, <1>6, HashesDiffer
<1>8. k \in 1 .. n /\ k - 1 \in 0 .. n /\ ~(k <= k - 1)
  BY <1>7
<1>9. WithSibling(c[k - 1], proof[k]) = WithSibling(d[k - 1], proof[k])
  BY <1>4, <1>6, <1>8
<1>10. c[k - 1] = d[k - 1]
  BY <1>9, HashesDiffer DEF WithSibling
<1> QED
  BY <1>5, <1>8, <1>10

-------------------------------------------------------------------------------
(* The proof of a leaf.                                                     *)

ClimbedTo(levels, start, n, climbed) ==
    climbed = [h \in 0 .. n |-> IF h = 0 THEN start ELSE Climb(climbed[h - 1], levels[h - 1])]

LEMMA ClimbedExist ==
    ASSUME NEW levels, NEW start
    PROVE  \A n \in Nat : \E climbed : ClimbedTo(levels, start, n, climbed)
<1> DEFINE T == {n \in Nat : ~ \E climbed : ClimbedTo(levels, start, n, climbed)}
<1> SUFFICES ASSUME T # {} PROVE FALSE
  OBVIOUS
<1>1. PICK n \in T : \A m \in T : n <= m
  BY LeastOf
<1>2. n # 0
  <2>1. ClimbedTo(levels, start, 0, [h \in 0 .. 0 |-> start])
    BY DEF ClimbedTo
  <2> QED
    BY <2>1
<1>3. n \in Nat /\ n - 1 \in Nat /\ ~(n <= n - 1)
  BY <1>2
<1>4. PICK below : ClimbedTo(levels, start, n - 1, below)
  BY <1>1, <1>3
<1> DEFINE climbed == [h \in 0 .. n |-> IF h < n THEN below[h]
                                        ELSE Climb(below[n - 1], levels[n - 1])]
<1>5. DOMAIN climbed = 0 .. n
  OBVIOUS
<1>6. ASSUME NEW h \in 0 .. n
      PROVE  climbed[h] = IF h = 0 THEN start ELSE Climb(climbed[h - 1], levels[h - 1])
  <2>1. CASE h = 0
    <3>1. below[0] = start
      BY <1>3, <1>4 DEF ClimbedTo
    <3> QED
      BY <1>3, <2>1, <3>1
  <2>2. CASE h # 0 /\ h < n
    <3>1. h - 1 \in 0 .. n /\ h - 1 < n /\ h \in 0 .. n - 1
      BY <1>3, <2>2
    <3>2. below[h] = Climb(below[h - 1], levels[h - 1])
      BY <1>4, <2>2, <3>1 DEF ClimbedTo
    <3>3. climbed[h] = below[h] /\ climbed[h - 1] = below[h - 1]
      BY <2>2, <3>1
    <3> QED
      BY <2>2, <3>2, <3>3
  <2>3. CASE h = n
    <3>1. climbed[h - 1] = below[h - 1]
      BY <1>3, <2>3
    <3> QED
      BY <1>3, <2>3, <3>1
  <2> QED
    BY <1>3, <2>1, <2>2, <2>3
<1>7. ClimbedTo(levels, start, n, climbed)
  <2> HIDE DEF climbed
  <2>1. climbed = [h \in 0 .. n |-> climbed[h]]
    BY <1>5 DEF climbed
  <2> QED
    BY <1>6, <2>1 DEF ClimbedTo
<1> QED
  BY <1>7

Start(index) == [index |-> index, proof |-> <<>>]

LEMMA ClimbedIs ==
    ASSUME NEW levels, NEW top \in Nat, Top(levels) = top, NEW index
    PROVE  \E climbed : /\ ClimbedTo(levels, Start(index), top, climbed)
                        /\ ProofOver(levels, index) = climbed[top].proof
<1> DEFINE c == CHOOSE f : f = [h \in 0 .. top |-> IF h = 0 THEN [index |-> index, proof |-> <<>>]
                                                   ELSE Climb(f[h - 1], levels[h - 1])]
<1>1. ProofOver(levels, index) = c[top].proof
  BY DEF ProofOver
<1>2. ClimbedTo(levels, Start(index), top, c)
  <2>1. PICK f : ClimbedTo(levels, Start(index), top, f)
    BY ClimbedExist
  <2>2. f = [h \in 0 .. top |-> IF h = 0 THEN [index |-> index, proof |-> <<>>]
                                ELSE Climb(f[h - 1], levels[h - 1])]
    BY <2>1 DEF ClimbedTo, Start
  <2> QED
    BY <2>2 DEF ClimbedTo, Start
<1> QED
  BY <1>1, <1>2

LEMMA ClimbedValues ==
    ASSUME NEW levels, NEW start, NEW n \in Nat, NEW c, ClimbedTo(levels, start, n, c)
    PROVE  /\ c[0] = start
           /\ \A h \in 1 .. n : c[h] = Climb(c[h - 1], levels[h - 1])
<1>1. 0 \in 0 .. n /\ \A h \in 1 .. n : h \in 0 .. n /\ h # 0
  OBVIOUS
<1> QED
  BY <1>1 DEF ClimbedTo

LEMMA ClimbedFirst ==
    ASSUME NEW levels, NEW start, NEW n \in Nat, NEW c, ClimbedTo(levels, start, n, c)
    PROVE  c[0] = start
<1>1. c[0] = start /\ \A h \in 1 .. n : c[h] = Climb(c[h - 1], levels[h - 1])
  BY ONLY n \in Nat, ClimbedTo(levels, start, n, c), ClimbedValues
<1> QED
  BY ONLY <1>1

LEMMA ClimbedStep ==
    ASSUME NEW levels, NEW start, NEW n \in Nat, NEW c, ClimbedTo(levels, start, n, c),
           NEW h \in 1 .. n
    PROVE  c[h] = Climb(c[h - 1], levels[h - 1])
<1>1. c[0] = start /\ \A g \in 1 .. n : c[g] = Climb(c[g - 1], levels[g - 1])
  BY ONLY n \in Nat, ClimbedTo(levels, start, n, c), ClimbedValues
<1> QED
  BY ONLY <1>1, h \in 1 .. n

Steps(nodes) == [sibling : nodes, is_left : BOOLEAN]

\* A level over known nodes, and a place in it with a proof of known nodes.
RowOf(level, nodes) == Row(level) /\ \A j \in 1 .. Len(level) : level[j] \in nodes
At(level, place, nodes) ==
    place.index \in 0 .. Len(level) - 1 /\ place.proof \in Seq(Steps(nodes))
Computes(x, level, place) == Computed(x, place.proof) = level[place.index + 1]

\* One level of climbing: the proof computes the node above.
LEMMA ClimbIs ==
    ASSUME NEW level, NEW nodes, RowOf(level, nodes), NEW below, At(level, below, nodes),
           NEW above, above = Climb(below, level)
    PROVE  /\ At(Up(level), above, nodes) /\ above.index = below.index \div 2
           /\ \A x : Computes(x, level, below) => Computes(x, Up(level), above)
           /\ Len(level) = 2 => Len(above.proof) = Len(below.proof) + 1
<1>0. /\ Row(level) /\ \A j \in 1 .. Len(level) : level[j] \in nodes
      /\ below.index \in 0 .. Len(level) - 1 /\ below.proof \in Seq(Steps(nodes))
  BY DEF RowOf, At
<1> DEFINE index == below.index
           proof == below.proof
<1>1. PICK n \in Nat \ {0} : n = Len(level)
  BY <1>0 DEF Row
<1>2. index \in Nat /\ index < n
  BY <1>0, <1>1
<1>3. PICK i \in Nat : i = index \div 2
  BY <1>2
<1>4. above.index = i
  BY <1>3 DEF Climb
<1>5. /\ Len(Up(level)) = (n + 1) \div 2
      /\ \A j \in 1 .. (n + 1) \div 2 :
           Up(level)[j] = IF 2 * j <= n THEN NodeHash(level[2 * j - 1], level[2 * j]) ELSE level[n]
  BY <1>0, <1>1, UpIs
<1>6. i + 1 \in 1 .. (n + 1) \div 2 /\ i \in 0 .. (n + 1) \div 2 - 1
  BY <1>2, <1>3
<1>7. Len(proof) \in Nat
  BY <1>0, LenProperties
<1>8. CASE index % 2 = 1
  <2> DEFINE step == [sibling |-> level[index], is_left |-> TRUE]
  <2>1. index = 2 * i + 1 /\ 2 * (i + 1) <= n /\ 2 * (i + 1) - 1 = index /\ index \in 1 .. n
    BY <1>2, <1>3, <1>8
  <2>2. above.proof = Append(proof, step)
    <3>1. index - 1 < n /\ (index - 1) + 1 = index
      BY <1>2
    <3> QED
      BY <1>1, <1>8, <3>1 DEF Climb
  <2>3. step \in Steps(nodes)
    BY <1>0, <1>1, <2>1 DEF Steps
  <2>4. Up(level)[i + 1] = NodeHash(level[index], level[index + 1])
    <3>1. 2 * (i + 1) = index + 1
      BY <2>1
    <3>2. Up(level)[i + 1] = NodeHash(level[2 * (i + 1) - 1], level[2 * (i + 1)])
      BY <1>5, <1>6, <2>1
    <3> QED
      BY <2>1, <3>1, <3>2
  <2>5. \A leaf : Computed(leaf, Append(proof, step)) = NodeHash(level[index], Computed(leaf, proof))
    BY <1>0, <2>3, ComputedAppend DEF WithSibling
  <2>6. Append(proof, step) \in Seq(Steps(nodes)) /\ Len(Append(proof, step)) = Len(proof) + 1
    BY <1>0, <2>3, AppendProperties
  <2> HIDE DEF step
  <2>7. above.index \in 0 .. Len(Up(level)) - 1 /\ above.proof \in Seq(Steps(nodes))
    BY <1>4, <1>5, <1>6, <2>2, <2>6
  <2>8. ASSUME NEW x, Computes(x, level, below) PROVE Computes(x, Up(level), above)
    <3>1. Computed(x, proof) = level[index + 1]
      BY <2>8 DEF Computes
    <3>2. Computed(x, above.proof) = Up(level)[above.index + 1]
      BY <1>4, <2>2, <2>4, <2>5, <3>1
    <3> QED
      BY <3>2 DEF Computes
  <2> QED
    BY <1>3, <1>4, <2>2, <2>6, <2>7, <2>8 DEF At
<1>9. CASE index % 2 # 1 /\ index + 1 < n
  <2> DEFINE step == [sibling |-> level[index + 2], is_left |-> FALSE]
  <2>1. index = 2 * i /\ 2 * (i + 1) <= n /\ index + 2 \in 1 .. n
    BY <1>2, <1>3, <1>9
  <2>2. above.proof = Append(proof, step)
    <3>1. (index + 1) + 1 = index + 2 /\ (index % 2 = 1) = FALSE
      BY <1>2, <1>9
    <3> QED
      BY <1>1, <1>9, <3>1 DEF Climb
  <2>3. step \in Steps(nodes)
    BY <1>0, <1>1, <2>1 DEF Steps
  <2>4. Up(level)[i + 1] = NodeHash(level[index + 1], level[index + 2])
    <3>1. 2 * (i + 1) = index + 2 /\ 2 * (i + 1) - 1 = index + 1
      BY <2>1
    <3>2. Up(level)[i + 1] = NodeHash(level[2 * (i + 1) - 1], level[2 * (i + 1)])
      BY <1>5, <1>6, <2>1
    <3> QED
      BY <3>1, <3>2
  <2>5. \A leaf : Computed(leaf, Append(proof, step)) = NodeHash(Computed(leaf, proof), level[index + 2])
    BY <1>0, <2>3, ComputedAppend DEF WithSibling
  <2>6. Append(proof, step) \in Seq(Steps(nodes)) /\ Len(Append(proof, step)) = Len(proof) + 1
    BY <1>0, <2>3, AppendProperties
  <2> HIDE DEF step
  <2>7. above.index \in 0 .. Len(Up(level)) - 1 /\ above.proof \in Seq(Steps(nodes))
    BY <1>4, <1>5, <1>6, <2>2, <2>6
  <2>8. ASSUME NEW x, Computes(x, level, below) PROVE Computes(x, Up(level), above)
    <3>1. Computed(x, proof) = level[index + 1]
      BY <2>8 DEF Computes
    <3>2. Computed(x, above.proof) = Up(level)[above.index + 1]
      BY <1>4, <2>2, <2>4, <2>5, <3>1
    <3> QED
      BY <3>2 DEF Computes
  <2> QED
    BY <1>3, <1>4, <2>2, <2>6, <2>7, <2>8 DEF At
<1>10. CASE index % 2 # 1 /\ ~(index + 1 < n)
  <2>1. index = 2 * i /\ ~(2 * (i + 1) <= n) /\ index + 1 = n /\ n # 2
    BY <1>2, <1>3, <1>10
  <2>2. above.proof = proof
    BY <1>1, <1>10 DEF Climb
  <2>3. Up(level)[i + 1] = level[index + 1]
    BY <1>5, <1>6, <2>1
  <2>4. above.index \in 0 .. Len(Up(level)) - 1 /\ above.proof \in Seq(Steps(nodes))
    BY <1>0, <1>4, <1>5, <1>6, <2>2
  <2>5. ASSUME NEW x, Computes(x, level, below) PROVE Computes(x, Up(level), above)
    <3>1. Computed(x, proof) = level[index + 1]
      BY <2>5 DEF Computes
    <3>2. Computed(x, above.proof) = Up(level)[above.index + 1]
      BY <1>4, <2>2, <2>3, <3>1
    <3> QED
      BY <3>2 DEF Computes
  <2>6. Len(level) # 2
    BY <1>1, <2>1
  <2> QED
    BY <1>3, <1>4, <2>4, <2>5, <2>6 DEF At
<1> QED
  BY <1>8, <1>9, <1>10

\* The nodes of a tree.
Nodes(levels) == UNION {{levels[h][j] : j \in DOMAIN levels[h]} : h \in DOMAIN levels}

\* A tree's levels are over its nodes.
LEMMA NodesOf ==
    ASSUME NEW levels, NEW top, Tree(levels, top), NEW h \in 0 .. top
    PROVE  RowOf(levels[h], Nodes(levels))
<1>1. h \in DOMAIN levels /\ DOMAIN levels[h] = 1 .. Len(levels[h]) /\ Row(levels[h])
  BY DEF Tree, Row
<1>2. {levels[h][j] : j \in DOMAIN levels[h]} \subseteq Nodes(levels)
  BY <1>1 DEF Nodes
<1>3. ASSUME NEW j \in 1 .. Len(levels[h]) PROVE levels[h][j] \in Nodes(levels)
  BY <1>1, <1>2
<1> QED
  BY <1>1, <1>3 DEF RowOf

\* From a leaf up, the proof computes the nodes on the way; near the top it grows.
LEMMA ClimbsAlong ==
    ASSUME NEW levels, NEW top, Tree(levels, top), NEW index \in 0 .. Len(levels[0]) - 1,
           NEW climbed, ClimbedTo(levels, Start(index), top, climbed)
    PROVE  \A h \in 0 .. top :
             /\ At(levels[h], climbed[h], Nodes(levels))
             /\ \A x : LeafHash(x) = levels[0][index + 1] => Computes(x, levels[h], climbed[h])
<1> DEFINE Along(h) ==
             /\ At(levels[h], climbed[h], Nodes(levels))
             /\ \A x : LeafHash(x) = levels[0][index + 1] => Computes(x, levels[h], climbed[h])
           T == {h \in 0 .. top : ~Along(h)}
<1> SUFFICES ASSUME T # {} PROVE FALSE
  OBVIOUS
<1>0. top \in Nat
  BY DEF Tree
<1>1. PICK h \in 0 .. top : h \in T /\ \A g \in T : h <= g
  <2>1. T \subseteq Nat /\ T \subseteq 0 .. top
    BY <1>0
  <2> HIDE DEF T
  <2> QED
    BY <2>1, LeastOf
<1>2. ~Along(h)
  BY <1>1
<1>3. /\ climbed[0] = Start(index)
      /\ \A g \in 1 .. top : climbed[g] = Climb(climbed[g - 1], levels[g - 1])
  BY <1>0, ClimbedValues
<1>4. h # 0
  <2>1. climbed[0].index = index /\ climbed[0].proof = <<>>
    BY <1>3 DEF Start
  <2>2. <<>> \in Seq(Steps(Nodes(levels)))
    OBVIOUS
  <2>3. At(levels[0], climbed[0], Nodes(levels))
    BY <2>1, <2>2 DEF At
  <2>4. \A x : LeafHash(x) = levels[0][index + 1] => Computes(x, levels[0], climbed[0])
    BY <2>1, ComputedEmpty DEF Computes
  <2>5. Along(0)
    BY <2>3, <2>4
  <2> QED
    BY <1>2, <2>5
<1>5. PICK g \in 0 .. top - 1 : g = h - 1
  BY <1>0, <1>4
<1>6. g \in 0 .. top /\ ~(h <= g) /\ g + 1 = h /\ h \in 1 .. top
  BY <1>0, <1>4, <1>5
<1>7. Along(g)
  BY <1>1, <1>6
<1>8. levels[h] = Up(levels[g])
  BY <1>6 DEF Tree
<1>9. RowOf(levels[g], Nodes(levels))
  BY <1>6, NodesOf
<1>10. climbed[h] = Climb(climbed[g], levels[g])
  BY <1>3, <1>5, <1>6
<1> HIDE DEF T
<1>11. At(levels[g], climbed[g], Nodes(levels))
  BY <1>7
<1>12. /\ At(Up(levels[g]), climbed[h], Nodes(levels))
       /\ \A x : Computes(x, levels[g], climbed[g]) => Computes(x, Up(levels[g]), climbed[h])
  BY <1>9, <1>10, <1>11, ClimbIs
<1> QED
  BY <1>2, <1>7, <1>8, <1>12

\* The proof of a node, from the first level to the root.
LEMMA ProofOverIs ==
    ASSUME NEW nodes, Row(nodes), NEW index \in 0 .. Len(nodes) - 1
    PROVE  LET levels == LevelsOver(nodes)
               proof  == ProofOver(levels, index)
           IN  /\ proof \in Seq(Steps(Nodes(levels)))
               /\ \A x : LeafHash(x) = nodes[index + 1] => Computed(x, proof) = RootOf(levels)
               /\ Len(nodes) > 1 => proof # <<>>
<1> DEFINE levels == LevelsOver(nodes)
<1>1. PICK top \in Nat : Tree(levels, top) /\ levels[0] = nodes
  BY TreeIs
<1> HIDE DEF levels
<1>2. Top(levels) = top
  BY <1>1, TopOf DEF Tree
<1>3. PICK c : ClimbedTo(levels, Start(index), top, c) /\ ProofOver(levels, index) = c[top].proof
  BY <1>2, ClimbedIs
<1>4. \A h \in 0 .. top :
             /\ At(levels[h], c[h], Nodes(levels))
             /\ \A x : LeafHash(x) = levels[0][index + 1] => Computes(x, levels[h], c[h])
  BY <1>1, <1>3, ClimbsAlong
<1>5. top \in 0 .. top
  OBVIOUS
<1>6. Len(levels[top]) = 1 /\ RootOf(levels) = levels[top][1]
  BY <1>1, <1>2 DEF Tree, RootOf
<1>7. c[top].index = 0 /\ c[top].proof \in Seq(Steps(Nodes(levels)))
  <2>1. c[top].index \in 0 .. 1 - 1 /\ c[top].proof \in Seq(Steps(Nodes(levels)))
    BY <1>4, <1>5, <1>6 DEF At
  <2> QED
    BY <2>1
<1>8. \A x : LeafHash(x) = nodes[index + 1] => Computed(x, c[top].proof) = RootOf(levels)
  BY <1>1, <1>4, <1>5, <1>6, <1>7 DEF Computes
<1>9. ASSUME Len(nodes) > 1 PROVE c[top].proof # <<>>
  <2>1. top # 0
    <3>1. Len(nodes) # 1
      BY <1>9 DEF Row
    <3> QED
      BY <1>1, <1>6, <3>1
  <2>2. PICK g \in 0 .. top - 1 : g = top - 1
    BY <2>1
  <2>3. g \in 0 .. top /\ g + 1 = top /\ top \in 1 .. top
    BY <2>1, <2>2
  <2>4. Row(levels[g]) /\ levels[top] = Up(levels[g]) /\ Len(levels[g]) > 1
    BY <1>1, <2>3 DEF Tree
  <2>5. Len(levels[g]) = 2
    <3>1. PICK l \in Nat : l = Len(levels[g])
      BY <2>4 DEF Row
    <3>2. Len(Up(levels[g])) = (l + 1) \div 2
      BY <2>4, <3>1, UpIs
    <3>3. (l + 1) \div 2 = 1 /\ l > 1
      BY <1>6, <2>4, <3>1, <3>2
    <3>4. l = 2
      BY <3>3
    <3> QED
      BY <3>1, <3>4
  <2>6. c[top] = Climb(c[g], levels[g])
    <3>1. ClimbedTo(levels, Start(index), top, c)
      BY <1>3
    <3>2. /\ c[0] = Start(index)
          /\ \A k \in 1 .. top : c[k] = Climb(c[k - 1], levels[k - 1])
      BY <3>1, ClimbedValues
    <3> QED
      BY <2>2, <2>3, <3>2
  <2>7. RowOf(levels[g], Nodes(levels))
    BY <1>1, <2>3, NodesOf
  <2>8. At(levels[g], c[g], Nodes(levels))
    BY <1>4, <2>3
  <2>9. Len(levels[g]) = 2 => Len(c[top].proof) = Len(c[g].proof) + 1
    BY <2>6, <2>7, <2>8, ClimbIs
  <2>10. Len(c[g].proof) \in Nat /\ Len(<<>>) = 0
    BY <2>8, LenProperties DEF At
  <2> QED
    BY <2>5, <2>9, <2>10
<1> QED
  BY <1>3, <1>7, <1>8, <1>9 DEF levels

\* The first level, of hashed leaves.
LEMMA LeavesRow ==
    ASSUME NEW S, NEW leaves \in Seq(S), leaves # <<>>
    PROVE  /\ Row(HashedLeaves(leaves)) /\ Len(HashedLeaves(leaves)) = Len(leaves)
           /\ \A i \in 1 .. Len(leaves) : HashedLeaves(leaves)[i] = LeafHash(leaves[i])
<1>1. PICK n \in Nat : n = Len(leaves)
  BY LenProperties
<1>2. n # 0
  BY <1>1, EmptySeq
<1> DEFINE nodes == HashedLeaves(leaves)
<1>3. nodes = [i \in 1 .. n |-> LeafHash(leaves[i])]
  BY <1>1 DEF HashedLeaves
<1>4. DOMAIN nodes = 1 .. n /\ nodes = [i \in 1 .. n |-> nodes[i]]
  <2> HIDE DEF nodes
  <2> QED
    BY <1>3
<1>5. Len(nodes) = n
  <2> HIDE DEF nodes
  <2> QED
    BY <1>4, ListIs
<1> HIDE DEF nodes
<1> QED
  BY <1>1, <1>2, <1>3, <1>4, <1>5 DEF Row, nodes

\* Of a list of any length: a leaf's proof (MerkleTree.get_proof) verifies against
\* the tree's root, no other leaf passes at its place, and a proof in a tree of more
\* than one leaf is never empty.
THEOREM ProofsVerify ==
    ASSUME NEW S, NEW leaves \in Seq(S), leaves # <<>>, NEW index \in 0 .. Len(leaves) - 1
    PROVE  /\ \A leaf : VerifyProof(leaf, GetProof(leaves, index), Root(leaves))
                          <=> leaf = leaves[index + 1]
           /\ Len(leaves) > 1 => GetProof(leaves, index) # <<>>
<1> DEFINE nodes  == HashedLeaves(leaves)
           levels == LevelsOver(nodes)
           proof  == ProofOver(levels, index)
<1>1. /\ Row(nodes) /\ Len(nodes) = Len(leaves)
      /\ \A i \in 1 .. Len(leaves) : nodes[i] = LeafHash(leaves[i])
  BY LeavesRow
<1>2. index \in 0 .. Len(nodes) - 1
  BY <1>1
<1>3. GetProof(leaves, index) = proof /\ Root(leaves) = RootOf(levels)
  BY DEF GetProof, Root, Levels
<1> HIDE DEF nodes
<1>4. /\ proof \in Seq(Steps(Nodes(levels)))
      /\ \A leaf : LeafHash(leaf) = nodes[index + 1] => Computed(leaf, proof) = RootOf(levels)
      /\ Len(nodes) > 1 => proof # <<>>
  BY <1>1, <1>2, ProofOverIs
<1> HIDE DEF levels, proof
<1>5. nodes[index + 1] = LeafHash(leaves[index + 1])
  <2>1. Len(leaves) \in Nat
    BY LenProperties
  <2>2. index + 1 \in 1 .. Len(leaves)
    BY <2>1
  <2> QED
    BY <1>1, <2>2
<1>6. Computed(leaves[index + 1], proof) = RootOf(levels)
  BY <1>4, <1>5
<1>7. Len(proof) \in Nat
  BY <1>4, LenProperties
<1>8. \A leaf : Computed(leaf, proof) = RootOf(levels) <=> leaf = leaves[index + 1]
  BY <1>6, <1>7, ComputedApart
<1> QED
  BY <1>1, <1>3, <1>4, <1>8 DEF VerifyProof
-------------------------------------------------------------------------------
(* The streamed proof.                                                      *)

\* There is one tree over a first level.
LEMMA TreesAgree ==
    ASSUME NEW A, NEW m, Tree(A, m), NEW B, NEW n, Tree(B, n), A[0] = B[0]
    PROVE  m = n /\ \A h \in 0 .. m : A[h] = B[h]
<1>0. m \in Nat /\ n \in Nat
  BY DEF Tree
<1> DEFINE T == {h \in Nat : h <= m /\ h <= n /\ A[h] # B[h]}
<1>1. T = {}
  <2> SUFFICES ASSUME T # {} PROVE FALSE
    OBVIOUS
  <2>1. PICK h \in Nat : h \in T /\ \A g \in T : h <= g
    <3>1. T \subseteq Nat
      OBVIOUS
    <3> HIDE DEF T
    <3> QED
      BY <3>1, LeastOf
  <2>2. h <= m /\ h <= n /\ A[h] # B[h]
    BY <2>1
  <2>3. h # 0
    BY <2>2
  <2>4. PICK g \in Nat : g + 1 = h
    BY <2>3
  <2>5. g <= m /\ g <= n /\ ~(h <= g) /\ g \in 0 .. m - 1 /\ g \in 0 .. n - 1
    BY <1>0, <2>2, <2>4
  <2>6. A[g] = B[g]
    BY <2>1, <2>5
  <2>7. A[g + 1] = Up(A[g]) /\ B[g + 1] = Up(B[g])
    BY <2>5 DEF Tree
  <2> QED
    BY <2>2, <2>4, <2>6, <2>7
<1>2. \A h \in Nat : h <= m /\ h <= n => A[h] = B[h]
  BY <1>1
<1> HIDE DEF T
<1>3. ASSUME m < n PROVE FALSE
  <2>1. m \in 0 .. n - 1 /\ m <= n /\ m <= m
    BY <1>0, <1>3
  <2>2. Len(A[m]) = 1 /\ Len(B[m]) > 1 /\ A[m] = B[m]
    BY <1>0, <1>2, <2>1 DEF Tree
  <2>3. Len(B[m]) = 1
    BY <2>2
  <2> QED
    BY <2>2, <2>3
<1>4. ASSUME n < m PROVE FALSE
  <2>1. n \in 0 .. m - 1 /\ n <= m /\ n <= n
    BY <1>0, <1>4
  <2>2. Len(B[n]) = 1 /\ Len(A[n]) > 1 /\ A[n] = B[n]
    BY <1>0, <1>2, <2>1 DEF Tree
  <2>3. Len(A[n]) = 1
    BY <2>2
  <2>4. 1 > 1
    BY <2>2, <2>3
  <2> QED
    BY <2>4
<1>5. m = n
  BY <1>0, <1>3, <1>4
<1>6. \A h \in 0 .. m : h \in Nat /\ h <= m /\ h <= n
  BY <1>0, <1>5
<1> QED
  BY <1>2, <1>5, <1>6

\* The levels above the first are the levels over the second.
LEMMA LevelsAbove ==
    ASSUME NEW nodes, Row(nodes), Len(nodes) > 1
    PROVE  LET all   == LevelsOver(nodes)
               upper == LevelsOver(Up(nodes))
           IN  \E top \in Nat : /\ Tree(all, top + 1) /\ all[0] = nodes /\ Tree(upper, top)
                                /\ \A h \in 0 .. top : all[h + 1] = upper[h]
<1> DEFINE all   == LevelsOver(nodes)
           upper == LevelsOver(Up(nodes))
<1>1. PICK t \in Nat : Tree(all, t) /\ all[0] = nodes
  BY TreeIs
<1>2. Row(Up(nodes))
  BY UpIs
<1>3. PICK top \in Nat : Tree(upper, top) /\ upper[0] = Up(nodes)
  BY <1>2, TreeIs
<1> HIDE DEF all, upper
<1>4. t # 0
  <2>1. Len(nodes) # 1
    BY DEF Row
  <2>2. Len(all[t]) = 1
    BY <1>1 DEF Tree
  <2> QED
    BY <1>1, <2>1, <2>2
<1>5. PICK s \in Nat : s + 1 = t
  BY <1>4
<1> DEFINE above == [h \in 0 .. s |-> all[h + 1]]
<1>6. /\ DOMAIN above = 0 .. s
      /\ \A h \in 0 .. s : above[h] = all[h + 1] /\ h + 1 \in 0 .. t
  BY <1>5
<1> HIDE DEF above
<1>7. Tree(above, s)
  <2>1. \A h \in 0 .. s : Row(above[h])
    BY <1>1, <1>6 DEF Tree
  <2>2. Len(above[s]) = 1
    <3>1. s \in 0 .. s
      OBVIOUS
    <3>2. above[s] = all[t]
      BY <1>5, <1>6, <3>1
    <3> QED
      BY <1>1, <3>2 DEF Tree
  <2>3. ASSUME NEW h \in 0 .. s - 1 PROVE Len(above[h]) > 1 /\ above[h + 1] = Up(above[h])
    <3>1. h \in 0 .. s /\ h + 1 \in 0 .. s /\ h + 1 \in 0 .. t - 1
      BY <1>5
    <3>2. Len(all[h + 1]) > 1 /\ all[(h + 1) + 1] = Up(all[h + 1])
      BY <1>1, <3>1 DEF Tree
    <3> QED
      BY <1>6, <3>1, <3>2
  <2> QED
    BY <1>6, <2>1, <2>2, <2>3 DEF Tree
<1>8. above[0] = upper[0]
  <2>1. 0 \in 0 .. s /\ 0 \in 0 .. t - 1 /\ 0 + 1 = 1
    BY <1>5
  <2>2. all[0 + 1] = Up(all[0])
    BY <1>1, <2>1 DEF Tree
  <2> QED
    BY <1>1, <1>3, <1>6, <2>1, <2>2
<1>9. s = top /\ \A h \in 0 .. s : above[h] = upper[h]
  BY <1>3, <1>7, <1>8, TreesAgree
<1>10. \A h \in 0 .. top : all[h + 1] = upper[h]
  BY <1>6, <1>9
<1>11. t = top + 1
  BY <1>5, <1>9
<1> QED
  BY <1>1, <1>3, <1>10, <1>11 DEF all, upper
\* What is before a proof stays before it.
LEMMA ClimbAfter ==
    ASSUME NEW level, NEW nodes, RowOf(level, nodes), NEW place, At(level, place, nodes),
           NEW first \in Seq(Steps(nodes)),
           NEW full, full.index = place.index, full.proof = first \o place.proof
    PROVE  /\ Climb(full, level).index = Climb(place, level).index
           /\ Climb(full, level).proof = first \o Climb(place, level).proof
<1> DEFINE i     == place.index
           right == i % 2 = 1
           k     == IF right THEN i - 1 ELSE i + 1
           step  == [sibling |-> level[k + 1], is_left |-> right]
<1>1. PICK n \in Nat : n = Len(level)
  BY DEF RowOf, Row
<1>2. i \in Nat /\ i < n /\ place.proof \in Seq(Steps(nodes))
  BY <1>1 DEF At
<1>3. /\ Climb(place, level).index = i \div 2
      /\ Climb(place, level).proof = IF k < n THEN Append(place.proof, step) ELSE place.proof
  BY <1>1 DEF Climb
<1>4. /\ Climb(full, level).index = i \div 2
      /\ Climb(full, level).proof = IF k < n THEN Append(full.proof, step) ELSE full.proof
  BY <1>1 DEF Climb
<1>5. ASSUME k < n PROVE step \in Steps(nodes)
  <2>1. k + 1 \in 1 .. n
    <3>1. CASE right
      <4>1. i # 0
        BY <1>2, <3>1
      <4> QED
        BY <1>2, <3>1, <4>1
    <3>2. CASE ~right
      BY <1>2, <1>5, <3>2
    <3> QED
      BY <3>1, <3>2
  <2>2. level[k + 1] \in nodes
    BY <1>1, <2>1 DEF RowOf
  <2>3. right \in BOOLEAN
    OBVIOUS
  <2> HIDE DEF right, k
  <2> QED
    BY <2>2, <2>3 DEF Steps
<1> HIDE DEF step, k
<1>6. ASSUME k < n PROVE Append(full.proof, step) = first \o Append(place.proof, step)
  <2>1. place.proof \in Seq(Steps(nodes)) /\ step \in Steps(nodes) /\ first \in Seq(Steps(nodes))
    BY <1>2, <1>5, <1>6
  <2>2. PICK rest \in Seq(Steps(nodes)), e \in Steps(nodes) : rest = place.proof /\ e = step
    BY <2>1
  <2>3. first \o rest \in Seq(Steps(nodes)) /\ <<e>> \in Seq(Steps(nodes))
    BY ConcatProperties
  <2>4. Append(first \o rest, e) = (first \o rest) \o <<e>>
    BY <2>3, AppendIsConcat
  <2>5. Append(rest, e) = rest \o <<e>>
    BY AppendIsConcat
  <2>6. (first \o rest) \o <<e>> = first \o (rest \o <<e>>)
    BY <2>3, ConcatAssociative
  <2> QED
    BY <2>2, <2>4, <2>5, <2>6
<1> QED
  BY <1>3, <1>4, <1>6

\* A leaf's proof is its first step and the proof of the node above it.
LEMMA ProofFromFirst ==
    ASSUME NEW nodes, Row(nodes), Len(nodes) > 1, NEW index \in 0 .. Len(nodes) - 1
    PROVE  LET all   == LevelsOver(nodes)
               upper == LevelsOver(Up(nodes))
           IN  /\ RootOf(all) = RootOf(upper)
               /\ ProofOver(all, index) =
                    Climb(Start(index), nodes).proof \o ProofOver(upper, index \div 2)
<1> DEFINE all   == LevelsOver(nodes)
           upper == LevelsOver(Up(nodes))
           first == Climb(Start(index), nodes)
           S     == Nodes(all)
<1>1. PICK top \in Nat : /\ Tree(all, top + 1) /\ all[0] = nodes /\ Tree(upper, top)
                         /\ \A h \in 0 .. top : all[h + 1] = upper[h]
  BY LevelsAbove
<1> HIDE DEF all, upper
<1>2. PICK t \in Nat : t = top + 1
  OBVIOUS
<1>3. Tree(all, t) /\ t \in 0 .. t /\ top \in 0 .. top
  BY <1>1, <1>2
<1>4. Top(all) = t /\ Top(upper) = top
  BY <1>1, <1>2, <1>3, TopOf DEF Tree
<1>5. RootOf(all) = RootOf(upper)
  BY <1>1, <1>2, <1>3, <1>4 DEF RootOf
<1>6. PICK c : ClimbedTo(all, Start(index), t, c) /\ ProofOver(all, index) = c[t].proof
  BY <1>4, ClimbedIs
<1>7. PICK i \in Nat : i = index \div 2
  BY DEF Row
<1>8. PICK d : ClimbedTo(upper, Start(i), top, d) /\ ProofOver(upper, i) = d[top].proof
  BY <1>4, ClimbedIs
<1>9. c[0] = Start(index) /\ \A g \in 1 .. t : c[g] = Climb(c[g - 1], all[g - 1])
  <2>1. ClimbedTo(all, Start(index), t, c)
    BY <1>6
  <2> QED
    BY <2>1, ClimbedFirst, ClimbedStep
<1>10. d[0] = Start(i) /\ \A g \in 1 .. top : d[g] = Climb(d[g - 1], upper[g - 1])
  BY <1>8, ClimbedValues
<1>11. c[1] = first
  <2>1. 1 \in 1 .. t /\ 1 - 1 = 0
    BY <1>2
  <2> QED
    BY <1>1, <1>9, <2>1
<1>12. \A h \in 0 .. t : At(all[h], c[h], S)
  BY <1>1, <1>3, <1>6, ClimbsAlong
<1>13. first.index = i /\ first.proof \in Seq(Steps(S))
  <2>1. first.index = index \div 2
    BY DEF Climb, Start
  <2>2. 1 \in 0 .. t
    BY <1>2
  <2>3. At(all[1], c[1], S)
    BY <1>12, <2>2
  <2> QED
    BY <1>7, <1>11, <2>1, <2>3 DEF At
<1> HIDE DEF first
<1>14. \A h \in 0 .. top : RowOf(upper[h], S)
  <2> SUFFICES ASSUME NEW h \in 0 .. top PROVE RowOf(upper[h], S)
    OBVIOUS
  <2>1. h + 1 \in 0 .. t
    BY <1>2
  <2>2. RowOf(all[h + 1], S)
    BY <1>3, <2>1, NodesOf
  <2> QED
    BY <1>1, <2>2
<1> DEFINE Together(h) == /\ c[h + 1].index = d[h].index
                          /\ c[h + 1].proof = first.proof \o d[h].proof
                          /\ d[h].proof \in Seq(Steps(S))
           T == {h \in 0 .. top : ~Together(h)}
<1>15. T = {}
  <2> SUFFICES ASSUME T # {} PROVE FALSE
    OBVIOUS
  <2>1. PICK h \in 0 .. top : h \in T /\ \A g \in T : h <= g
    <3> HIDE DEF Together
    <3>1. T \subseteq Nat /\ T \subseteq 0 .. top
      OBVIOUS
    <3> HIDE DEF T
    <3> QED
      BY <3>1, LeastOf
  <2>2. ~Together(h)
    BY <2>1
  <2>3. h # 0
    <3>1. d[0].index = i /\ d[0].proof = <<>>
      BY <1>10 DEF Start
    <3>2. first.proof \o <<>> = first.proof /\ <<>> \in Seq(Steps(S))
      BY <1>13, ConcatEmptySeq, EmptySeq
    <3>3. Together(0)
      BY <1>11, <1>13, <3>1, <3>2
    <3> QED
      BY <2>2, <3>3
  <2>4. PICK g \in Nat : g + 1 = h
    BY <2>3
  <2>5. g \in 0 .. top /\ ~(h <= g) /\ h \in 1 .. top /\ h + 1 \in 1 .. t /\ h - 1 = g /\ (h + 1) - 1 = h
    BY <1>2, <2>4
  <2>6. Together(g)
    BY <2>1, <2>5
  <2> HIDE DEF T
  <2>7. d[h] = Climb(d[g], upper[g])
    BY <1>10, <2>5
  <2>8. c[h + 1] = Climb(c[h], upper[g])
    <3>1. c[h + 1] = Climb(c[h], all[h])
      BY <1>9, <2>5
    <3>2. all[h] = upper[g]
      BY <1>1, <2>4, <2>5
    <3> QED
      BY <3>1, <3>2
  <2>9. At(upper[g], d[g], S)
    <3>1. h \in 0 .. t
      BY <1>2
    <3>2. At(all[h], c[h], S)
      BY <1>12, <3>1
    <3>3. all[h] = upper[g]
      BY <1>1, <2>4, <2>5
    <3>4. c[h].index = d[g].index
      BY <2>4, <2>6
    <3> QED
      BY <2>6, <3>2, <3>3, <3>4 DEF At
  <2>10. RowOf(upper[g], S)
    BY <1>14, <2>5
  <2>11. c[h].index = d[g].index /\ c[h].proof = first.proof \o d[g].proof
    BY <2>4, <2>6
  <2>12. /\ Climb(c[h], upper[g]).index = Climb(d[g], upper[g]).index
         /\ Climb(c[h], upper[g]).proof = first.proof \o Climb(d[g], upper[g]).proof
    <3>1. PICK a, b, row, f : a = c[h] /\ b = d[g] /\ row = upper[g] /\ f = first.proof
      OBVIOUS
    <3>2. /\ RowOf(row, S) /\ At(row, b, S) /\ f \in Seq(Steps(S))
          /\ a.index = b.index /\ a.proof = f \o b.proof
      BY <1>13, <2>9, <2>10, <2>11, <3>1
    <3> HIDE DEF S
    <3>3. /\ Climb(a, row).index = Climb(b, row).index
          /\ Climb(a, row).proof = f \o Climb(b, row).proof
      BY <3>2, ClimbAfter
    <3> QED
      BY <3>1, <3>3
  <2>13. d[h].proof \in Seq(Steps(S))
    <3>1. At(Up(upper[g]), d[h], S)
      BY <2>7, <2>9, <2>10, ClimbIs
    <3> QED
      BY <3>1 DEF At
  <2> QED
    BY <2>2, <2>7, <2>8, <2>12, <2>13
<1>16. Together(top)
  BY <1>3, <1>15
<1> QED
  BY <1>2, <1>5, <1>6, <1>7, <1>8, <1>16 DEF all, upper, first

\* The tree of one leaf.
LEMMA ProofOfOne ==
    ASSUME NEW nodes, Row(nodes), Len(nodes) = 1
    PROVE  ProofOver(LevelsOver(nodes), 0) = <<>>
<1> DEFINE levels == LevelsOver(nodes)
<1>1. PICK top \in Nat : Tree(levels, top) /\ levels[0] = nodes
  BY TreeIs
<1> HIDE DEF levels
<1>2. top = 0
  <2> SUFFICES ASSUME top # 0 PROVE FALSE
    OBVIOUS
  <2>1. 0 \in 0 .. top - 1
    OBVIOUS
  <2>2. Len(levels[0]) > 1
    BY <1>1, <2>1 DEF Tree
  <2>3. 1 > 1
    BY <1>1, <2>2
  <2> QED
    BY <2>3
<1>3. Top(levels) = top
  BY <1>1, TopOf DEF Tree
<1>4. PICK c : ClimbedTo(levels, Start(0), top, c) /\ ProofOver(levels, 0) = c[top].proof
  BY <1>3, ClimbedIs
<1>5. c[0] = Start(0)
  <2>1. c[0] = Start(0) /\ \A h \in 1 .. top : c[h] = Climb(c[h - 1], levels[h - 1])
    BY <1>4, ClimbedValues
  <2> QED
    BY <2>1
<1> QED
  BY <1>2, <1>4, <1>5 DEF Start, levels
ReadTo(items, target, n, read) ==
    read = [k \in 0 .. n |-> IF k = 0 THEN Unread ELSE Read(target, read[k - 1], items[k])]

LEMMA ReadExist ==
    ASSUME NEW items, NEW target
    PROVE  \A n \in Nat : \E read : ReadTo(items, target, n, read)
<1> DEFINE T == {n \in Nat : ~ \E read : ReadTo(items, target, n, read)}
<1> SUFFICES ASSUME T # {} PROVE FALSE
  OBVIOUS
<1>1. PICK n \in T : \A m \in T : n <= m
  BY LeastOf
<1>2. n # 0
  <2>1. ReadTo(items, target, 0, [k \in 0 .. 0 |-> Unread])
    BY DEF ReadTo
  <2> QED
    BY <2>1
<1>3. n \in Nat /\ n - 1 \in Nat /\ ~(n <= n - 1)
  BY <1>2
<1>4. PICK below : ReadTo(items, target, n - 1, below)
  BY <1>1, <1>3
<1> DEFINE read == [k \in 0 .. n |-> IF k < n THEN below[k]
                                     ELSE Read(target, below[n - 1], items[n])]
<1>5. DOMAIN read = 0 .. n
  OBVIOUS
<1>6. ASSUME NEW k \in 0 .. n
      PROVE  read[k] = IF k = 0 THEN Unread ELSE Read(target, read[k - 1], items[k])
  <2>1. CASE k = 0
    <3>1. below[0] = Unread
      BY <1>3, <1>4 DEF ReadTo
    <3> QED
      BY <1>3, <2>1, <3>1
  <2>2. CASE k # 0 /\ k < n
    <3>1. k - 1 \in 0 .. n /\ k - 1 < n /\ k \in 0 .. n - 1
      BY <1>3, <2>2
    <3>2. below[k] = Read(target, below[k - 1], items[k])
      BY <1>4, <2>2, <3>1 DEF ReadTo
    <3>3. read[k] = below[k] /\ read[k - 1] = below[k - 1]
      BY <2>2, <3>1
    <3> QED
      BY <2>2, <3>2, <3>3
  <2>3. CASE k = n
    <3>1. read[k - 1] = below[k - 1]
      BY <1>3, <2>3
    <3> QED
      BY <1>3, <2>3, <3>1
  <2> QED
    BY <1>3, <2>1, <2>2, <2>3
<1>7. ReadTo(items, target, n, read)
  <2> HIDE DEF read
  <2>1. read = [k \in 0 .. n |-> read[k]]
    BY <1>5 DEF read
  <2> QED
    BY <1>6, <2>1 DEF ReadTo
<1> QED
  BY <1>7

LEMMA ReadFirst ==
    ASSUME NEW items, NEW target, NEW n \in Nat, NEW read, ReadTo(items, target, n, read)
    PROVE  read[0] = Unread
<1>1. 0 \in 0 .. n
  OBVIOUS
<1> QED
  BY <1>1 DEF ReadTo

LEMMA ReadStep ==
    ASSUME NEW items, NEW target, NEW n \in Nat, NEW read, ReadTo(items, target, n, read),
           NEW k \in 1 .. n
    PROVE  read[k] = Read(target, read[k - 1], items[k])
<1>1. k \in 0 .. n /\ k # 0
  OBVIOUS
<1> QED
  BY <1>1 DEF ReadTo

\* The hash of item j; the sibling of item i + 1, as far as k items were read.
Raw(items, j) == LeafHash(items[j][2])
SiblingOf(items, i, k) ==
    IF i % 2 = 1 THEN Raw(items, i) ELSE IF i + 1 < k THEN Raw(items, i + 2) ELSE NoNode

\* The first item with the key, once it was read.
Seen(items, target, s, k) ==
    \/ /\ s.index = -1 /\ s.sibling = NoNode /\ ~s.want_next
       /\ \A j \in 1 .. k : items[j][1] # target
    \/ /\ s.index \in 0 .. k - 1 /\ items[s.index + 1][1] = target
       /\ \A j \in 1 .. s.index : items[j][1] # target
       /\ s.leaf = items[s.index + 1][2] /\ s.sibling = SiblingOf(items, s.index, k)
       /\ s.want_next <=> (s.index % 2 = 0 /\ s.index + 1 = k)

\* The pairs that were hashed, and the node that waits for its sibling.
Pairs(items) == {NodeHash(Raw(items, 2 * j - 1), Raw(items, 2 * j)) : j \in Nat}
Hashed(items, s, k) ==
    /\ s.n = k /\ s.level \in Seq(Pairs(items)) /\ Len(s.level) = k \div 2
    /\ \A j \in 1 .. k \div 2 : s.level[j] = NodeHash(Raw(items, 2 * j - 1), Raw(items, 2 * j))
    /\ k % 2 = 1 => s.previous = Raw(items, k)

\* What one item more hashes, and what it finds.
LEMMA ReadHashes ==
    ASSUME NEW items, NEW target, NEW k \in Nat, NEW s, Hashed(items, s, k),
           NEW next, next = Read(target, s, items[k + 1])
    PROVE  Hashed(items, next, k + 1)
<1> DEFINE raw == Raw(items, k + 1)
<1>1. /\ next.n = s.n + 1
      /\ next.level = IF s.n % 2 = 1 THEN Append(s.level, NodeHash(s.previous, raw)) ELSE s.level
      /\ next.previous = IF s.n % 2 = 1 THEN s.previous ELSE raw
  BY DEF Read, Raw
<1>2. /\ s.n = k /\ s.level \in Seq(Pairs(items)) /\ Len(s.level) = k \div 2
      /\ \A j \in 1 .. k \div 2 :
           s.level[j] = NodeHash(Raw(items, 2 * j - 1), Raw(items, 2 * j))
      /\ k % 2 = 1 => s.previous = Raw(items, k)
  BY DEF Hashed
<1> HIDE DEF raw
<1>3. CASE k % 2 = 1
  <2>1. PICK m \in Nat : m = k \div 2
    OBVIOUS
  <2>2. /\ k = 2 * m + 1 /\ k + 1 = 2 * (m + 1) /\ k = 2 * (m + 1) - 1
        /\ (k + 1) \div 2 = m + 1 /\ (k + 1) % 2 = 0
    BY <1>3, <2>1
  <2> DEFINE e == NodeHash(s.previous, raw)
  <2>3. e = NodeHash(Raw(items, 2 * (m + 1) - 1), Raw(items, 2 * (m + 1)))
    BY <1>2, <1>3, <2>2 DEF raw
  <2>4. e \in Pairs(items)
    <3>1. m + 1 \in Nat
      OBVIOUS
    <3> QED
      BY <2>3, <3>1 DEF Pairs
  <2> HIDE DEF e
  <2>5. next.level = Append(s.level, e)
    BY <1>1, <1>2, <1>3 DEF e
  <2>6. /\ next.level \in Seq(Pairs(items)) /\ Len(next.level) = m + 1
        /\ \A j \in 1 .. m : next.level[j] = s.level[j]
        /\ next.level[m + 1] = e
    BY <1>2, <2>1, <2>4, <2>5, AppendProperties
  <2>7. ASSUME NEW j \in 1 .. m + 1
        PROVE  next.level[j] = NodeHash(Raw(items, 2 * j - 1), Raw(items, 2 * j))
    <3>1. CASE j = m + 1
      BY <2>3, <2>6, <3>1
    <3>2. CASE j # m + 1
      <4>1. j \in 1 .. m
        BY <3>2
      <4> QED
        BY <1>2, <2>1, <2>6, <4>1
    <3> QED
      BY <3>1, <3>2
  <2>8. next.n = k + 1 /\ (k + 1) % 2 # 1 /\ Len(next.level) = (k + 1) \div 2
    BY <1>1, <1>2, <2>2, <2>6
  <2>9. \A j \in 1 .. (k + 1) \div 2 :
          next.level[j] = NodeHash(Raw(items, 2 * j - 1), Raw(items, 2 * j))
    BY <2>2, <2>7
  <2> QED
    BY <2>6, <2>8, <2>9 DEF Hashed
<1>4. CASE k % 2 # 1
  <2>1. (k + 1) \div 2 = k \div 2
    BY <1>4
  <2>2. next.level = s.level /\ next.previous = raw /\ next.n = k + 1
    BY <1>1, <1>2, <1>4
  <2> QED
    BY <1>2, <2>1, <2>2 DEF Hashed, raw
<1> QED
  BY <1>3, <1>4

LEMMA ReadSees ==
    ASSUME NEW items, NEW target, NEW k \in Nat, NEW s, Hashed(items, s, k),
           Seen(items, target, s, k), NEW next, next = Read(target, s, items[k + 1])
    PROVE  Seen(items, target, next, k + 1)
<1> DEFINE raw   == Raw(items, k + 1)
           found == s.index = -1 /\ items[k + 1][1] = target
<1>1. /\ next.index = IF found THEN s.n ELSE s.index
      /\ next.leaf = IF found THEN items[k + 1][2] ELSE s.leaf
      /\ next.sibling = IF found /\ s.n % 2 = 1 THEN s.previous
                        ELSE IF s.want_next THEN raw ELSE s.sibling
      /\ next.want_next <=> (found /\ ~(s.n % 2 = 1))
  BY DEF Read, Raw
<1>2. s.n = k /\ (k % 2 = 1 => s.previous = Raw(items, k))
  BY DEF Hashed
<1> HIDE DEF raw
<1>3. CASE /\ s.index = -1 /\ s.sibling = NoNode /\ ~s.want_next
           /\ \A j \in 1 .. k : items[j][1] # target
  <2>1. CASE items[k + 1][1] # target
    <3>1. next.index = -1 /\ next.sibling = NoNode /\ ~next.want_next
      BY <1>1, <1>3, <2>1
    <3>2. \A j \in 1 .. k + 1 : j \in 1 .. k \/ j = k + 1
      OBVIOUS
    <3>3. \A j \in 1 .. k + 1 : items[j][1] # target
      BY <1>3, <2>1, <3>2
    <3> QED
      BY <3>1, <3>3 DEF Seen
  <2>2. CASE items[k + 1][1] = target
    <3>1. found
      BY <1>3, <2>2
    <3>2. /\ next.index = k /\ next.leaf = items[k + 1][2]
          /\ next.want_next <=> ~(k % 2 = 1)
          /\ next.sibling = IF k % 2 = 1 THEN s.previous ELSE NoNode
      BY <1>1, <1>2, <1>3, <3>1
    <3>3. next.index \in 0 .. (k + 1) - 1
      BY <3>2
    <3>4. next.sibling = SiblingOf(items, k, k + 1)
      BY <1>2, <3>2 DEF SiblingOf
    <3>5. next.want_next <=> (k % 2 = 0 /\ k + 1 = k + 1)
      BY <3>2
    <3> QED
      BY <1>3, <2>2, <3>2, <3>3, <3>4, <3>5 DEF Seen
  <2> QED
    BY <2>1, <2>2
<1>4. CASE /\ s.index \in 0 .. k - 1 /\ items[s.index + 1][1] = target
           /\ \A j \in 1 .. s.index : items[j][1] # target
           /\ s.leaf = items[s.index + 1][2] /\ s.sibling = SiblingOf(items, s.index, k)
           /\ s.want_next <=> (s.index % 2 = 0 /\ s.index + 1 = k)
  <2>1. PICK i \in 0 .. k - 1 : i = s.index
    BY <1>4
  <2>2. ~found
    BY <2>1
  <2>3. /\ next.index = i /\ next.leaf = items[i + 1][2] /\ ~next.want_next
        /\ next.sibling = IF s.want_next THEN raw ELSE s.sibling
    BY <1>1, <1>4, <2>1, <2>2
  <2>4. next.sibling = SiblingOf(items, i, k + 1)
    <3>1. CASE i % 2 = 1
      <4>1. ~s.want_next
        BY <1>4, <2>1, <3>1
      <4> QED
        BY <1>4, <2>1, <2>3, <3>1, <4>1 DEF SiblingOf
    <3>2. CASE i % 2 # 1 /\ i + 1 = k
      <4>1. s.want_next
        BY <1>4, <2>1, <3>2
      <4>2. i + 1 < k + 1 /\ i + 2 = k + 1
        BY <3>2
      <4> QED
        BY <2>3, <3>2, <4>1, <4>2 DEF SiblingOf, raw
    <3>3. CASE i % 2 # 1 /\ i + 1 # k
      <4>1. ~s.want_next
        BY <1>4, <2>1, <3>3
      <4>2. i + 1 < k /\ i + 1 < k + 1
        BY <3>3
      <4> QED
        BY <1>4, <2>1, <2>3, <3>3, <4>1, <4>2 DEF SiblingOf
    <3> QED
      BY <3>1, <3>2, <3>3
  <2>5. next.want_next <=> (i % 2 = 0 /\ i + 1 = k + 1)
    BY <2>3
  <2>6. i \in 0 .. (k + 1) - 1
    OBVIOUS
  <2> QED
    BY <1>4, <2>1, <2>3, <2>4, <2>5, <2>6 DEF Seen
<1> QED
  BY <1>3, <1>4 DEF Seen

\* What has been read of the items at the end.
LEMMA AllRead ==
    ASSUME NEW items, NEW target, NEW n \in Nat, NEW read, ReadTo(items, target, n, read)
    PROVE  Hashed(items, read[n], n) /\ Seen(items, target, read[n], n)
<1> DEFINE Good(k) == Hashed(items, read[k], k) /\ Seen(items, target, read[k], k)
           T == {k \in 0 .. n : ~Good(k)}
<1> SUFFICES ASSUME T # {} PROVE FALSE
  <2>1. n \in 0 .. n
    OBVIOUS
  <2> QED
    BY <2>1
<1>1. PICK k \in 0 .. n : k \in T /\ \A j \in T : k <= j
  <2> HIDE DEF Good
  <2>1. T \subseteq Nat /\ T \subseteq 0 .. n
    OBVIOUS
  <2> HIDE DEF T
  <2> QED
    BY <2>1, LeastOf
<1>2. ~Good(k)
  BY <1>1
<1>3. k # 0
  <2>1. read[0] = Unread
    BY ReadFirst
  <2>2. /\ read[0].index = -1 /\ read[0].sibling = NoNode /\ ~read[0].want_next
        /\ read[0].n = 0 /\ read[0].level = <<>>
    BY <2>1 DEF Unread
  <2>3. Seen(items, target, read[0], 0)
    BY <2>2 DEF Seen
  <2>4. <<>> \in Seq(Pairs(items)) /\ Len(<<>>) = 0
    BY EmptySeq
  <2>5. 0 \div 2 = 0 /\ 0 % 2 # 1 /\ \A j \in 1 .. 0 : FALSE
    OBVIOUS
  <2>6. Hashed(items, read[0], 0)
    BY <2>2, <2>4, <2>5 DEF Hashed
  <2> QED
    BY <1>2, <2>3, <2>6
<1>4. PICK j \in Nat : j + 1 = k
  BY <1>3
<1>5. j \in 0 .. n /\ ~(k <= j) /\ k \in 1 .. n /\ k - 1 = j
  BY <1>4
<1>6. Good(j)
  BY <1>1, <1>5
<1>7. read[k] = Read(target, read[k - 1], items[k])
  <2>1. PICK g \in 1 .. n : g = k
    BY <1>5
  <2>2. read[g] = Read(target, read[g - 1], items[g])
    BY ReadStep
  <2> QED
    BY <2>1, <2>2
<1>8. read[k] = Read(target, read[j], items[j + 1])
  BY <1>4, <1>5, <1>7
<1> HIDE DEF T
<1>9. Hashed(items, read[k], j + 1)
  BY <1>6, <1>8, ReadHashes
<1>10. Seen(items, target, read[k], j + 1)
  BY <1>6, <1>8, ReadSees
<1> QED
  BY <1>2, <1>4, <1>9, <1>10
Level1(s) == IF s.n % 2 = 1 THEN Append(s.level, s.previous) ELSE s.level
FirstStep(s) == IF s.sibling = NoNode THEN <<>>
                ELSE <<[sibling |-> s.sibling, is_left |-> s.index % 2 = 1]>>

\* What the stream returns, of what it has read.
LEMMA StreamIs ==
    ASSUME NEW items, NEW n \in Nat, n = Len(items), NEW target
    PROVE  \E s : /\ Hashed(items, s, n) /\ Seen(items, target, s, n)
                  /\ ProofStream(items, target) =
                       IF s.index = -1 THEN NotFound
                       ELSE [index |-> s.index, leaf |-> s.leaf,
                             root |-> RootOf(LevelsOver(Level1(s))),
                             proof |-> IF s.n = 1 THEN <<>>
                                       ELSE FirstStep(s) \o
                                              ProofOver(LevelsOver(Level1(s)), s.index \div 2)]
<1> DEFINE read == CHOOSE f : f = [k \in 0 .. n |-> IF k = 0 THEN Unread
                                                    ELSE Read(target, f[k - 1], items[k])]
           s == read[n]
<1>1. ProofStream(items, target) =
        IF s.index = -1 THEN NotFound
        ELSE [index |-> s.index, leaf |-> s.leaf,
              root |-> RootOf(LevelsOver(Level1(s))),
              proof |-> IF s.n = 1 THEN <<>>
                        ELSE FirstStep(s) \o ProofOver(LevelsOver(Level1(s)), s.index \div 2)]
  BY DEF ProofStream, Level1, FirstStep
<1>2. ReadTo(items, target, n, read)
  <2>1. PICK f : ReadTo(items, target, n, f)
    BY ReadExist
  <2>2. f = [k \in 0 .. n |-> IF k = 0 THEN Unread ELSE Read(target, f[k - 1], items[k])]
    BY <2>1 DEF ReadTo
  <2> QED
    BY <2>2 DEF ReadTo
<1> HIDE DEF read
<1>3. Hashed(items, s, n) /\ Seen(items, target, s, n)
  BY <1>2, AllRead
<1> QED
  BY <1>1, <1>3

\* The leaves of the items, and the nodes and the level the stream builds of them.
ItemLeaves(items, n) == [j \in 1 .. n |-> items[j][2]]

LEMMA StreamedNodes ==
    ASSUME NEW items, NEW n \in Nat \ {0}
    PROVE  LET nodes == HashedLeaves(ItemLeaves(items, n))
           IN  Row(nodes) /\ Len(nodes) = n /\ \A j \in 1 .. n : nodes[j] = Raw(items, j)
<1> DEFINE leaves == ItemLeaves(items, n)
           S == {items[j][2] : j \in 1 .. n}
<1>1. DOMAIN leaves = 1 .. n /\ leaves = [j \in 1 .. n |-> leaves[j]]
      /\ \A j \in 1 .. n : leaves[j] = items[j][2]
  BY DEF ItemLeaves
<1> HIDE DEF leaves
<1>2. Len(leaves) = n
  BY <1>1, ListIs
<1>3. leaves \in Seq(S)
  <2>1. leaves \in [1 .. n -> S]
    BY <1>1
  <2> HIDE DEF S
  <2>2. [1 .. n -> S] \subseteq Seq(S)
    OBVIOUS
  <2> QED
    BY <2>1, <2>2
<1>4. leaves # <<>>
  <2>1. Len(<<>>) = 0 /\ n # 0
    OBVIOUS
  <2> QED
    BY <1>2, <2>1
<1> HIDE DEF S
<1>5. /\ Row(HashedLeaves(leaves)) /\ Len(HashedLeaves(leaves)) = Len(leaves)
      /\ \A i \in 1 .. Len(leaves) : HashedLeaves(leaves)[i] = LeafHash(leaves[i])
  BY <1>3, <1>4, LeavesRow
<1> QED
  BY <1>1, <1>2, <1>5 DEF leaves, Raw

LEMMA StreamedLevel ==
    ASSUME NEW items, NEW n \in Nat \ {0}, NEW s, Hashed(items, s, n),
           NEW nodes, Row(nodes), Len(nodes) = n, \A j \in 1 .. n : nodes[j] = Raw(items, j)
    PROVE  Level1(s) = Up(nodes)
<1> DEFINE list == Level1(s)
           S == Pairs(items) \cup {nodes[n]}
<1>1. PICK m \in Nat : m = (n + 1) \div 2
  OBVIOUS
<1>2. /\ Row(Up(nodes)) /\ Len(Up(nodes)) = m
      /\ \A j \in 1 .. m :
           Up(nodes)[j] = IF 2 * j <= n THEN NodeHash(nodes[2 * j - 1], nodes[2 * j])
                          ELSE nodes[n]
  BY <1>1, UpIs
<1>3. /\ s.n = n /\ s.level \in Seq(Pairs(items)) /\ Len(s.level) = n \div 2
      /\ \A j \in 1 .. n \div 2 :
           s.level[j] = NodeHash(Raw(items, 2 * j - 1), Raw(items, 2 * j))
      /\ n % 2 = 1 => s.previous = Raw(items, n)
  BY DEF Hashed
<1>4. s.level \in Seq(S)
  <2>1. Seq(Pairs(items)) \subseteq Seq(S)
    <3>1. Pairs(items) \subseteq S
      OBVIOUS
    <3> HIDE DEF S
    <3> QED
      BY <3>1
  <2> QED
    BY <1>3, <2>1
<1>5. ASSUME NEW j \in 1 .. m, 2 * j <= n
      PROVE  j \in 1 .. n \div 2 /\ s.level[j] = Up(nodes)[j]
  <2>1. j \in 1 .. n \div 2 /\ 2 * j \in 1 .. n /\ 2 * j - 1 \in 1 .. n
    BY <1>5
  <2>2. Up(nodes)[j] = NodeHash(nodes[2 * j - 1], nodes[2 * j])
    BY <1>2, <1>5
  <2>3. s.level[j] = NodeHash(Raw(items, 2 * j - 1), Raw(items, 2 * j))
    BY <1>3, <2>1
  <2> QED
    BY <2>1, <2>2, <2>3
<1>6. list \in Seq(S) /\ Len(list) = m /\ \A j \in 1 .. m : list[j] = Up(nodes)[j]
  <2>1. CASE n % 2 = 1
    <3>1. n = 2 * m - 1 /\ n \div 2 = m - 1 /\ m >= 1
      BY <1>1, <2>1
    <3>2. s.previous = nodes[n] /\ nodes[n] \in S
      BY <1>3, <2>1
    <3>3. list = Append(s.level, nodes[n])
      BY <1>3, <2>1, <3>2 DEF Level1
    <3> HIDE DEF S, list
    <3>4. /\ list \in Seq(S) /\ Len(list) = Len(s.level) + 1
          /\ \A j \in 1 .. Len(s.level) : list[j] = s.level[j]
          /\ list[Len(s.level) + 1] = nodes[n]
      BY <1>4, <3>2, <3>3, AppendProperties
    <3>5. ASSUME NEW j \in 1 .. m PROVE list[j] = Up(nodes)[j]
      <4>1. CASE j = m
        <5>1. ~(2 * j <= n) /\ Len(s.level) + 1 = m
          BY <1>3, <3>1, <4>1
        <5> QED
          BY <1>2, <3>4, <4>1, <5>1
      <4>2. CASE j # m
        <5>1. 2 * j <= n /\ j \in 1 .. Len(s.level)
          BY <1>3, <3>1, <4>2
        <5> QED
          BY <1>5, <3>4, <5>1
      <4> QED
        BY <4>1, <4>2
    <3>6. Len(list) = m
      BY <1>3, <3>1, <3>4
    <3> QED
      BY <3>4, <3>5, <3>6
  <2>2. CASE n % 2 # 1
    <3>1. n = 2 * m /\ n \div 2 = m
      BY <1>1, <2>2
    <3>2. list = s.level
      BY <1>3, <2>2 DEF Level1
    <3>3. \A j \in 1 .. m : 2 * j <= n
      BY <3>1
    <3> HIDE DEF S, list
    <3> QED
      BY <1>3, <1>4, <1>5, <3>1, <3>2, <3>3
  <2> QED
    BY <2>1, <2>2
<1> HIDE DEF S, list
<1>7. list \in [1 .. m -> S]
  BY <1>6, LenProperties
<1>8. DOMAIN Up(nodes) = 1 .. m /\ Up(nodes) = [j \in DOMAIN Up(nodes) |-> Up(nodes)[j]]
  <2>1. DOMAIN Up(nodes) = 1 .. m
    BY <1>2 DEF Row
  <2>2. Up(nodes) = [j \in DOMAIN Up(nodes) |-> Up(nodes)[j]]
    BY DEF Up
  <2> QED
    BY <2>1, <2>2
<1>9. list = [j \in 1 .. m |-> list[j]]
  BY <1>7
<1>10. list = Up(nodes)
  BY <1>6, <1>8, <1>9
<1> QED
  BY <1>10 DEF list

LEMMA StreamedFirst ==
    ASSUME NEW items, NEW n \in Nat \ {0}, NEW i \in 0 .. n - 1,
           NEW s, s.index = i, s.sibling = SiblingOf(items, i, n),
           NEW nodes, Len(nodes) = n, \A j \in 1 .. n : nodes[j] = Raw(items, j)
    PROVE  FirstStep(s) = Climb(Start(i), nodes).proof
<1> DEFINE right == i % 2 = 1
           k     == IF right THEN i - 1 ELSE i + 1
           step  == [sibling |-> nodes[k + 1], is_left |-> right]
<1>1. Climb(Start(i), nodes).proof = IF k < n THEN Append(<<>>, step) ELSE <<>>
  BY DEF Climb, Start
<1>2. Append(<<>>, step) = <<step>>
  OBVIOUS
<1>3. \A j : Raw(items, j) # NoNode
  BY HashesDiffer DEF Raw
<1>4. CASE right
  <2>1. i # 0 /\ i \in 1 .. n /\ k < n /\ k + 1 = i
    BY <1>4
  <2>2. s.sibling = nodes[k + 1] /\ s.sibling # NoNode
    <3>1. s.sibling = Raw(items, i)
      BY <1>4 DEF SiblingOf
    <3>2. nodes[i] = Raw(items, i)
      BY <2>1
    <3> QED
      BY <1>3, <2>1, <3>1, <3>2
  <2>3. FirstStep(s) = <<step>>
    BY <2>2 DEF FirstStep
  <2> QED
    BY <1>1, <1>2, <2>1, <2>3
<1>5. CASE ~right /\ i + 1 < n
  <2>1. i + 2 \in 1 .. n /\ k < n /\ k + 1 = i + 2
    BY <1>5
  <2>2. s.sibling = nodes[k + 1] /\ s.sibling # NoNode
    <3>1. s.sibling = Raw(items, i + 2)
      BY <1>5 DEF SiblingOf
    <3>2. nodes[i + 2] = Raw(items, i + 2)
      BY <2>1
    <3> QED
      BY <1>3, <2>1, <3>1, <3>2
  <2>3. FirstStep(s) = <<step>>
    BY <2>2 DEF FirstStep
  <2> QED
    BY <1>1, <1>2, <2>1, <2>3
<1>6. CASE ~right /\ ~(i + 1 < n)
  <2>1. ~(k < n)
    BY <1>6
  <2>2. s.sibling = NoNode
    BY <1>6 DEF SiblingOf
  <2> QED
    BY <1>1, <2>1, <2>2 DEF FirstStep
<1> QED
  BY <1>4, <1>5, <1>6

\* Of any items: merkle_proof_stream returns the place of the first item with the key,
\* the tree's root and the tree's own proof of that leaf.
THEOREM StreamFinds ==
    ASSUME NEW items, NEW n \in Nat, n = Len(items), NEW target,
           NEW i \in 0 .. n - 1, items[i + 1][1] = target,
           \A j \in 1 .. i : items[j][1] # target
    PROVE  LET leaves == ItemLeaves(items, n)
           IN  ProofStream(items, target) =
                 [index |-> i, leaf |-> items[i + 1][2], root |-> Root(leaves),
                  proof |-> GetProof(leaves, i)]
<1> DEFINE nodes == HashedLeaves(ItemLeaves(items, n))
<1>1. n \in Nat \ {0}
  OBVIOUS
<1>2. Row(nodes) /\ Len(nodes) = n /\ \A j \in 1 .. n : nodes[j] = Raw(items, j)
  BY <1>1, StreamedNodes
<1>3. /\ Root(ItemLeaves(items, n)) = RootOf(LevelsOver(nodes))
      /\ GetProof(ItemLeaves(items, n), i) = ProofOver(LevelsOver(nodes), i)
  BY DEF Root, GetProof, Levels
<1> HIDE DEF nodes
<1>4. PICK s : /\ Hashed(items, s, n) /\ Seen(items, target, s, n)
               /\ ProofStream(items, target) =
                    IF s.index = -1 THEN NotFound
                    ELSE [index |-> s.index, leaf |-> s.leaf,
                          root |-> RootOf(LevelsOver(Level1(s))),
                          proof |-> IF s.n = 1 THEN <<>>
                                    ELSE FirstStep(s) \o
                                           ProofOver(LevelsOver(Level1(s)), s.index \div 2)]
  BY StreamIs
<1>5. /\ s.index = i /\ s.leaf = items[i + 1][2] /\ s.sibling = SiblingOf(items, i, n)
  <2>1. i + 1 \in 1 .. n
    OBVIOUS
  <2>2. /\ s.index \in 0 .. n - 1 /\ items[s.index + 1][1] = target
        /\ \A j \in 1 .. s.index : items[j][1] # target
        /\ s.leaf = items[s.index + 1][2] /\ s.sibling = SiblingOf(items, s.index, n)
    BY <1>4, <2>1 DEF Seen
  <2>3. PICK k \in 0 .. n - 1 : k = s.index
    BY <2>2
  <2>4. ~(k < i)
    <3>1. k < i => k + 1 \in 1 .. i
      OBVIOUS
    <3> QED
      BY <2>2, <2>3, <3>1
  <2>5. ~(i < k)
    <3>1. i < k => i + 1 \in 1 .. k
      OBVIOUS
    <3> QED
      BY <2>2, <2>3, <3>1
  <2>6. k = i
    BY <2>4, <2>5
  <2> QED
    BY <2>2, <2>3, <2>6
<1>6. Level1(s) = Up(nodes) /\ s.n = n
  <2>1. s.n = n
    BY <1>4 DEF Hashed
  <2>2. Level1(s) = Up(nodes)
    BY <1>1, <1>2, <1>4, StreamedLevel
  <2> QED
    BY <2>1, <2>2
<1>7. FirstStep(s) = Climb(Start(i), nodes).proof
  BY <1>1, <1>2, <1>5, StreamedFirst
<1>8. ProofStream(items, target) =
        [index |-> i, leaf |-> items[i + 1][2], root |-> RootOf(LevelsOver(Up(nodes))),
         proof |-> IF n = 1 THEN <<>>
                   ELSE FirstStep(s) \o ProofOver(LevelsOver(Up(nodes)), i \div 2)]
  BY <1>4, <1>5, <1>6
<1>9. /\ RootOf(LevelsOver(Up(nodes))) = RootOf(LevelsOver(nodes))
      /\ ProofOver(LevelsOver(nodes), i) =
           IF n = 1 THEN <<>>
           ELSE FirstStep(s) \o ProofOver(LevelsOver(Up(nodes)), i \div 2)
  <2>1. CASE n = 1
    <3>1. ProofOver(LevelsOver(nodes), 0) = <<>> /\ i = 0
      BY <1>2, <2>1, ProofOfOne
    <3>2. Up(nodes) = nodes
      <4>1. /\ Row(Up(nodes)) /\ Len(Up(nodes)) = 1
            /\ \A j \in 1 .. 1 : Up(nodes)[j] = nodes[1]
        <5>1. (1 + 1) \div 2 = 1 /\ \A j \in 1 .. 1 : ~(2 * j <= 1)
          OBVIOUS
        <5> QED
          BY <1>2, <2>1, <5>1, UpIs
      <4>2. Up(nodes) = [j \in DOMAIN Up(nodes) |-> Up(nodes)[j]]
        BY DEF Up
      <4>3. nodes = [j \in DOMAIN nodes |-> nodes[j]]
        BY DEF nodes, HashedLeaves
      <4>4. DOMAIN nodes = 1 .. 1 /\ DOMAIN Up(nodes) = 1 .. 1
        BY <1>2, <2>1, <4>1 DEF Row
      <4>5. \A j \in 1 .. 1 : j = 1
        OBVIOUS
      <4>6. \A j \in 1 .. 1 : Up(nodes)[j] = nodes[j]
        BY <4>1, <4>5
      <4> QED
        BY <4>2, <4>3, <4>4, <4>6
    <3> QED
      BY <2>1, <3>1, <3>2
  <2>2. CASE n # 1
    <3>1. Len(nodes) > 1
      BY <1>2, <2>2, MoreThanOne
    <3>2. i \in 0 .. Len(nodes) - 1
      BY <1>2
    <3> QED
      BY <1>2, <1>7, <2>2, <3>1, <3>2, ProofFromFirst
  <2> QED
    BY <2>1, <2>2
<1> QED
  BY <1>3, <1>8, <1>9

\* A key of no item is not found, and only then.
LEMMA StreamMisses ==
    ASSUME NEW items, NEW n \in Nat, n = Len(items), NEW target
    PROVE  ProofStream(items, target) = NotFound <=> \A j \in 1 .. n : items[j][1] # target
<1>1. ASSUME NEW i \in 0 .. n - 1, items[i + 1][1] = target,
             \A j \in 1 .. i : items[j][1] # target
      PROVE  ProofStream(items, target) # NotFound
  <2>1. ProofStream(items, target) =
          [index |-> i, leaf |-> items[i + 1][2], root |-> Root(ItemLeaves(items, n)),
           proof |-> GetProof(ItemLeaves(items, n), i)]
    BY <1>1, StreamFinds
  <2> QED
    BY <2>1 DEF NotFound
<1>2. PICK s : /\ Hashed(items, s, n) /\ Seen(items, target, s, n)
               /\ ProofStream(items, target) =
                    IF s.index = -1 THEN NotFound
                    ELSE [index |-> s.index, leaf |-> s.leaf,
                          root |-> RootOf(LevelsOver(Level1(s))),
                          proof |-> IF s.n = 1 THEN <<>>
                                    ELSE FirstStep(s) \o
                                           ProofOver(LevelsOver(Level1(s)), s.index \div 2)]
  BY StreamIs
<1>3. CASE \A j \in 1 .. n : items[j][1] # target
  <2>1. s.index = -1
    <3> SUFFICES ASSUME s.index \in 0 .. n - 1, items[s.index + 1][1] = target PROVE FALSE
      BY <1>2 DEF Seen
    <3>1. s.index + 1 \in 1 .. n
      OBVIOUS
    <3> QED
      BY <1>3, <3>1
  <2> QED
    BY <1>2, <1>3, <2>1
<1>4. CASE \E j \in 1 .. n : items[j][1] = target
  <2>1. /\ s.index \in 0 .. n - 1 /\ items[s.index + 1][1] = target
        /\ \A j \in 1 .. s.index : items[j][1] # target
    BY <1>2, <1>4 DEF Seen
  <2> QED
    BY <1>1, <1>4, <2>1
<1> QED
  BY <1>3, <1>4

\* What a streamed proof shows.
Finds(items, n, target, found) ==
    /\ \E i \in 1 .. n :
         /\ items[i][1] = target /\ found.leaf = items[i][2]
         /\ found.root = Root(ItemLeaves(items, n))
         /\ VerifyProof(items[i][2], found.proof, found.root)
    /\ n > 1 => found.proof # <<>>

\* A proof the stream finds verifies for the leaf of an item with the key.
LEMMA StreamVerifies ==
    ASSUME NEW items, NEW n \in Nat, n = Len(items), NEW target,
           NEW found, found = ProofStream(items, target), found # NotFound
    PROVE  Finds(items, n, target, found)
<1> DEFINE T == {j \in 1 .. n : items[j][1] = target}
<1>1. T # {}
  BY StreamMisses
<1>2. PICK k \in 1 .. n : k \in T /\ \A j \in T : k <= j
  <2>1. T \subseteq Nat /\ T \subseteq 1 .. n
    OBVIOUS
  <2> HIDE DEF T
  <2> QED
    BY <1>1, <2>1, LeastOf
<1>3. PICK i \in 0 .. n - 1 : i + 1 = k
  <2>1. k - 1 \in 0 .. n - 1 /\ (k - 1) + 1 = k
    OBVIOUS
  <2> QED
    BY <2>1
<1>4. items[i + 1][1] = target /\ \A j \in 1 .. i : items[j][1] # target
  <2>1. ASSUME NEW j \in 1 .. i PROVE items[j][1] # target
    <3>1. j \in 1 .. n /\ ~(k <= j)
      BY <1>3
    <3> QED
      BY <1>2, <3>1
  <2> QED
    BY <1>2, <1>3, <2>1
<1> DEFINE leaves == ItemLeaves(items, n)
           S == {items[j][2] : j \in 1 .. n}
<1>5. found = [index |-> i, leaf |-> items[i + 1][2], root |-> Root(leaves),
               proof |-> GetProof(leaves, i)]
  BY <1>4, StreamFinds
<1>6. leaves \in Seq(S) /\ Len(leaves) = n /\ leaves # <<>> /\ leaves[i + 1] = items[i + 1][2]
  <2>1. DOMAIN leaves = 1 .. n /\ leaves = [j \in 1 .. n |-> leaves[j]]
        /\ \A j \in 1 .. n : leaves[j] = items[j][2]
    BY DEF ItemLeaves
  <2> HIDE DEF leaves
  <2>2. Len(leaves) = n
    BY <2>1, ListIs
  <2>3. leaves \in [1 .. n -> S]
    BY <2>1
  <2> HIDE DEF S
  <2>4. leaves \in Seq(S)
    <3>1. [1 .. n -> S] \subseteq Seq(S)
      OBVIOUS
    <3> QED
      BY <2>3, <3>1
  <2>5. leaves # <<>>
    <3>1. Len(<<>>) = 0 /\ n # 0
      OBVIOUS
    <3> QED
      BY <2>2, <3>1
  <2>6. i + 1 \in 1 .. n
    OBVIOUS
  <2> QED
    BY <2>1, <2>2, <2>4, <2>5, <2>6
<1> HIDE DEF leaves, S
<1>7. i \in 0 .. Len(leaves) - 1
  BY <1>6
<1>8. /\ \A leaf : VerifyProof(leaf, GetProof(leaves, i), Root(leaves)) <=> leaf = leaves[i + 1]
      /\ Len(leaves) > 1 => GetProof(leaves, i) # <<>>
  BY <1>6, <1>7, ProofsVerify
<1>9. VerifyProof(leaves[i + 1], GetProof(leaves, i), Root(leaves))
  BY <1>8
<1>10. /\ items[k][1] = target /\ found.leaf = items[k][2] /\ found.root = Root(leaves)
       /\ VerifyProof(items[k][2], found.proof, found.root)
       /\ n > 1 => found.proof # <<>>
  BY <1>2, <1>3, <1>5, <1>6, <1>8, <1>9
<1> QED
  BY <1>10 DEF leaves, Finds

-------------------------------------------------------------------------------
(* The theorem.                                                            *)

\* Keys that count the leaves: each is that of one leaf.
LEMMA NumberedProofs ==
    ASSUME NEW leaves \in Seq(FileDigests), NEW n \in Nat, n = Len(leaves),
           NEW items, items = [j \in 1 .. n |-> <<j, leaves[j]>>], NEW i \in 0 .. n - 1
    PROVE  /\ \A leaf : VerifyProof(leaf, GetProof(leaves, i), Root(leaves))
                          <=> leaf = leaves[i + 1]
           /\ ProofStream(items, i + 1) =
                [index |-> i, leaf |-> leaves[i + 1], root |-> Root(leaves),
                 proof |-> GetProof(leaves, i)]
<1>1. leaves # <<>> /\ i \in 0 .. Len(leaves) - 1
  <2>1. Len(<<>>) = 0 /\ n # 0
    OBVIOUS
  <2> QED
    BY <2>1
<1>2. \A leaf : VerifyProof(leaf, GetProof(leaves, i), Root(leaves)) <=> leaf = leaves[i + 1]
  BY <1>1, ProofsVerify
<1>3. \A j \in 1 .. n : items[j][1] = j /\ items[j][2] = leaves[j]
  OBVIOUS
<1>4. DOMAIN items = 1 .. n /\ items = [j \in 1 .. n |-> items[j]]
  OBVIOUS
<1>5. n = Len(items)
  BY <1>4, ListIs
<1>6. ItemLeaves(items, n) = leaves
  <2>1. leaves = [j \in 1 .. n |-> leaves[j]]
    OBVIOUS
  <2> QED
    BY <1>3, <2>1 DEF ItemLeaves
<1>7. i + 1 \in 1 .. n /\ \A j \in 1 .. i : j \in 1 .. n /\ j # i + 1
  OBVIOUS
<1>8. /\ items[i + 1][1] = i + 1 /\ items[i + 1][2] = leaves[i + 1]
      /\ \A j \in 1 .. i : items[j][1] # i + 1
  BY <1>3, <1>7
<1>9. ProofStream(items, i + 1) =
        [index |-> i, leaf |-> items[i + 1][2], root |-> Root(ItemLeaves(items, n)),
         proof |-> GetProof(ItemLeaves(items, n), i)]
  <2>1. items[i + 1][1] = i + 1
    BY <1>8
  <2>2. \A j \in 1 .. i : items[j][1] # i + 1
    BY <1>8
  <2>3. n \in Nat /\ i \in 0 .. n - 1
    OBVIOUS
  <2> QED
    BY ONLY <1>5, <2>1, <2>2, <2>3, StreamFinds
<1> QED
  BY <1>2, <1>6, <1>8, <1>9

\* Only digests of files are ever added.
LEMMA AlwaysFed ==
    BuilderSpec => [](added \in Seq(FileDigests))
<1> DEFINE Fed == added \in Seq(FileDigests)
<1>1. BuilderInit => Fed
  BY DEF BuilderInit
<1>2. Fed /\ [BuilderNext]_builderVars => Fed'
  <2>1. ASSUME Fed, NEW leaf \in FileDigests, Add(leaf) PROVE Fed'
    <3>1. added' = Append(added, leaf)
      BY <2>1, Zenon DEF Add
    <3> QED
      BY <2>1, <3>1, AppendProperties
  <2>2. Fed /\ UNCHANGED builderVars => Fed'
    BY DEF builderVars
  <2> HIDE DEF Fed
  <2> QED
    BY <2>1, <2>2 DEF BuilderNext
<1> QED
  BY <1>1, <1>2, PTL DEF BuilderSpec

\* Of any number of leaves: every leaf has a proof that verifies, no other digest
\* passes at its place, and the streamed proof of a key is the tree's proof of its
\* leaf, step for step.
THEOREM ProofsAlwaysExact ==
    BuilderSpec => []ProofsAreExact
<1> DEFINE Fed == added \in Seq(FileDigests)
<1>1. Fed => ProofsAreExact
  <2> SUFFICES ASSUME Fed, NEW k \in Sizes
               PROVE  LET proof    == GetProof(added, k - 1)
                          streamed == ProofStream(Items, k)
                      IN  /\ \A leaf \in FileDigests :
                               VerifyProof(leaf, proof, Root(added)) <=> leaf = added[k]
                          /\ streamed = [index |-> k - 1, leaf |-> added[k], root |-> Root(added),
                                         proof |-> proof]
    BY DEF ProofsAreExact
  <2>1. PICK n \in Nat : n = Len(added)
    BY LenProperties
  <2>2. PICK i \in 0 .. n - 1 : i = k - 1 /\ k = i + 1
    <3>1. k - 1 \in 0 .. n - 1 /\ k = (k - 1) + 1
      BY <2>1 DEF Sizes
    <3> QED
      BY <3>1
  <2>3. PICK leaves \in Seq(FileDigests) : leaves = added
    OBVIOUS
  <2>4. PICK items : items = Items
    OBVIOUS
  <2>5. items = [j \in 1 .. n |-> <<j, leaves[j]>>]
    BY <2>1, <2>3, <2>4 DEF Items, Sizes
  <2>6. /\ \A leaf : VerifyProof(leaf, GetProof(leaves, i), Root(leaves))
                       <=> leaf = leaves[i + 1]
        /\ ProofStream(items, i + 1) =
             [index |-> i, leaf |-> leaves[i + 1], root |-> Root(leaves),
              proof |-> GetProof(leaves, i)]
    <3>1. n = Len(leaves)
      BY <2>1, <2>3
    <3> QED
      BY <2>5, <3>1, NumberedProofs
  <2> QED
    BY <2>2, <2>3, <2>4, <2>6
<1> QED
  BY <1>1, AlwaysFed, PTL

-------------------------------------------------------------------------------
(* Powers of two.                                                           *)

PowersTo(n, power) ==
    power = [j \in 0 .. n |-> IF j = 0 THEN 1 ELSE 2 * power[j - 1]]

LEMMA PowersExist ==
    \A n \in Nat : \E power : PowersTo(n, power)
<1> DEFINE T == {n \in Nat : ~ \E power : PowersTo(n, power)}
<1> SUFFICES ASSUME T # {} PROVE FALSE
  OBVIOUS
<1>1. PICK n \in T : \A m \in T : n <= m
  BY LeastOf
<1>2. n # 0
  <2>1. PowersTo(0, [j \in 0 .. 0 |-> 1])
    BY DEF PowersTo
  <2> QED
    BY <2>1
<1>3. n \in Nat /\ n - 1 \in Nat /\ ~(n <= n - 1)
  BY <1>2
<1>4. PICK below : PowersTo(n - 1, below)
  BY <1>1, <1>3
<1> DEFINE power == [j \in 0 .. n |-> IF j < n THEN below[j] ELSE 2 * below[n - 1]]
<1>5. DOMAIN power = 0 .. n
  OBVIOUS
<1>6. ASSUME NEW j \in 0 .. n
      PROVE  power[j] = IF j = 0 THEN 1 ELSE 2 * power[j - 1]
  <2>1. CASE j = 0
    <3>1. below[0] = 1
      BY <1>3, <1>4 DEF PowersTo
    <3> QED
      BY <1>3, <2>1, <3>1
  <2>2. CASE j # 0 /\ j < n
    <3>1. j - 1 \in 0 .. n /\ j - 1 < n /\ j \in 0 .. n - 1
      BY <1>3, <2>2
    <3>2. below[j] = 2 * below[j - 1]
      BY <1>4, <2>2, <3>1 DEF PowersTo
    <3>3. power[j] = below[j] /\ power[j - 1] = below[j - 1]
      BY <2>2, <3>1
    <3> QED
      BY <2>2, <3>2, <3>3
  <2>3. CASE j = n
    <3>1. power[j - 1] = below[j - 1]
      BY <1>3, <2>3
    <3> QED
      BY <1>3, <2>3, <3>1
  <2> QED
    BY <1>3, <2>1, <2>2, <2>3
<1>7. PowersTo(n, power)
  <2> HIDE DEF power
  <2>1. power = [j \in 0 .. n |-> power[j]]
    BY <1>5 DEF power
  <2> QED
    BY <1>6, <2>1 DEF PowersTo
<1> QED
  BY <1>7

LEMMA PowerOf ==
    ASSUME NEW k \in Nat
    PROVE  \E power : PowersTo(k, power) /\ Power(k) = power[k]
<1> DEFINE c == CHOOSE f : f = [j \in 0 .. k |-> IF j = 0 THEN 1 ELSE 2 * f[j - 1]]
<1>1. Power(k) = c[k]
  BY DEF Power
<1>2. PowersTo(k, c)
  <2>1. PICK f : PowersTo(k, f)
    BY PowersExist
  <2>2. f = [j \in 0 .. k |-> IF j = 0 THEN 1 ELSE 2 * f[j - 1]]
    BY <2>1 DEF PowersTo
  <2> QED
    BY <2>2 DEF PowersTo
<1> QED
  BY <1>1, <1>2

LEMMA PowerValues ==
    ASSUME NEW n \in Nat, NEW power, PowersTo(n, power)
    PROVE  /\ power[0] = 1
           /\ \A j \in 1 .. n : power[j] = 2 * power[j - 1]
<1>1. 0 \in 0 .. n /\ \A j \in 1 .. n : j \in 0 .. n /\ j # 0
  OBVIOUS
<1> QED
  BY <1>1 DEF PowersTo

LEMMA PowersAgree ==
    ASSUME NEW n \in Nat, NEW m \in Nat, NEW p, NEW q, PowersTo(n, p), PowersTo(m, q),
           NEW k \in Nat, k <= n, k <= m
    PROVE  p[k] = q[k] /\ p[k] \in Nat \ {0}
<1> DEFINE Same(j) == p[j] = q[j] /\ p[j] \in Nat \ {0}
           T == {j \in 0 .. k : ~Same(j)}
<1> SUFFICES ASSUME T # {} PROVE FALSE
  OBVIOUS
<1>1. PICK j \in T : \A g \in T : j <= g
  <2>1. T \subseteq Nat
    OBVIOUS
  <2> HIDE DEF T
  <2> QED
    BY <2>1, LeastOf
<1>2. j \in 0 .. k /\ ~Same(j)
  OBVIOUS
<1>3. CASE j = 0
  BY <1>2, <1>3, PowerValues
<1>4. CASE j # 0
  <2>1. j - 1 \in 0 .. k /\ ~(j <= j - 1) /\ j \in 1 .. n /\ j \in 1 .. m
    BY <1>2, <1>4
  <2>2. Same(j - 1)
    BY <1>1, <2>1
  <2>3. p[j] = 2 * p[j - 1] /\ q[j] = 2 * q[j - 1]
    BY <2>1, PowerValues
  <2> QED
    BY <1>2, <2>2, <2>3
<1> QED
  BY <1>3, <1>4

LEMMA PowerIs ==
    /\ Power(0) = 1
    /\ \A k \in Nat : Power(k) \in Nat \ {0} /\ Power(k + 1) = 2 * Power(k)
<1>1. Power(0) = 1
  <2>1. PICK power : PowersTo(0, power) /\ Power(0) = power[0]
    BY PowerOf
  <2> QED
    BY <2>1, PowerValues
<1>2. ASSUME NEW k \in Nat
      PROVE  Power(k) \in Nat \ {0} /\ Power(k + 1) = 2 * Power(k)
  <2>1. PICK p : PowersTo(k, p) /\ Power(k) = p[k]
    BY PowerOf
  <2>2. PICK q : PowersTo(k + 1, q) /\ Power(k + 1) = q[k + 1]
    BY PowerOf
  <2>3. k + 1 \in Nat /\ k <= k /\ k <= k + 1
    OBVIOUS
  <2>4. p[k] = q[k] /\ p[k] \in Nat \ {0}
    BY <2>1, <2>2, <2>3, PowersAgree
  <2>5. q[k + 1] = 2 * q[k]
    <3>1. k + 1 \in 1 .. k + 1 /\ (k + 1) - 1 = k
      OBVIOUS
    <3> QED
      BY <2>2, <2>3, <3>1, PowerValues
  <2> QED
    BY <2>1, <2>2, <2>4, <2>5
<1> QED
  BY <1>1, <1>2

\* Powers grow, and faster than their exponents.
LEMMA PowersGrow ==
    ASSUME NEW j \in Nat, NEW k \in Nat, j < k
    PROVE  2 * Power(j) <= Power(k)
<1> DEFINE T == {i \in Nat : j < i /\ ~(2 * Power(j) <= Power(i))}
<1> SUFFICES ASSUME T # {} PROVE FALSE
  OBVIOUS
<1>1. PICK i \in T : \A g \in T : i <= g
  <2>1. T \subseteq Nat
    OBVIOUS
  <2> HIDE DEF T
  <2> QED
    BY <2>1, LeastOf
<1>2. i \in Nat /\ j < i /\ ~(2 * Power(j) <= Power(i)) /\ i - 1 \in Nat /\ (i - 1) + 1 = i
  OBVIOUS
<1>3. Power(i) = 2 * Power(i - 1) /\ Power(i - 1) \in Nat \ {0} /\ Power(j) \in Nat \ {0}
  <2>1. Power((i - 1) + 1) = 2 * Power(i - 1)
    BY ONLY <1>2, PowerIs
  <2> QED
    BY <1>2, <2>1, PowerIs
<1>4. i - 1 \notin T
  BY <1>1, <1>2
<1>5. CASE j < i - 1
  <2>1. 2 * Power(j) <= Power(i - 1)
    BY <1>2, <1>4, <1>5
  <2> QED
    BY <1>2, <1>3, <2>1
<1>6. CASE ~(j < i - 1)
  <2>1. j = i - 1
    BY <1>2, <1>6
  <2> QED
    BY <1>2, <1>3, <2>1
<1> QED
  BY <1>5, <1>6

LEMMA PowerAbove ==
    ASSUME NEW k \in Nat
    PROVE  k < Power(k)
<1> DEFINE T == {i \in Nat : ~(i < Power(i))}
<1> SUFFICES ASSUME T # {} PROVE FALSE
  OBVIOUS
<1>1. PICK i \in T : \A g \in T : i <= g
  BY LeastOf
<1>2. i \in Nat /\ ~(i < Power(i))
  OBVIOUS
<1>3. i # 0
  BY <1>2, PowerIs
<1>4. i - 1 \in Nat /\ (i - 1) + 1 = i /\ ~(i <= i - 1)
  BY <1>2, <1>3
<1>5. i - 1 < Power(i - 1)
  BY <1>1, <1>4
<1>6. Power(i) = 2 * Power(i - 1) /\ Power(i - 1) \in Nat
  <2>1. Power((i - 1) + 1) = 2 * Power(i - 1)
    BY ONLY <1>4, PowerIs
  <2> QED
    BY <1>4, <2>1, PowerIs
<1> QED
  BY <1>2, <1>4, <1>5, <1>6

\* Two powers that differ are apart.
LEMMA PowersApart ==
    ASSUME NEW j \in Nat, NEW k \in Nat, NEW n \in Nat,
           Power(j) < n, n <= 2 * Power(j), Power(k) < n, n <= 2 * Power(k)
    PROVE  j = k
<1>1. Power(j) \in Nat /\ Power(k) \in Nat
  BY PowerIs
<1>2. ~(j < k)
  BY <1>1, PowersGrow
<1>3. ~(k < j)
  BY <1>1, PowersGrow
<1> QED
  BY <1>2, <1>3

\* The largest power below a number.
LEMMA SplitOf ==
    ASSUME NEW n \in Nat, NEW e \in Nat, Power(e) < n, n <= 2 * Power(e)
    PROVE  Split(n) = Power(e)
<1> DEFINE S == {Power(d) : d \in 0 .. n}
<1>1. e \in 0 .. n /\ Power(e) \in S
  BY PowerAbove, PowerIs
<1>2. ASSUME NEW p \in S, p < n, n <= 2 * p PROVE p = Power(e)
  <2>1. PICK d \in 0 .. n : p = Power(d)
    OBVIOUS
  <2> QED
    BY <1>2, <2>1, PowersApart
<1> HIDE DEF S
<1>3. (CHOOSE p \in S : p < n /\ n <= 2 * p) = Power(e)
  BY <1>1, <1>2
<1> QED
  BY <1>3 DEF Split, S

LEMMA SplitIs ==
    ASSUME NEW n \in Nat, n > 1
    PROVE  \E e \in Nat : Split(n) = Power(e) /\ Power(e) < n /\ n <= 2 * Power(e)
<1> DEFINE T == {e \in Nat : n <= Power(e)}
<1>1. n \in T
  BY PowerAbove, PowerIs
<1>2. PICK e \in T : \A d \in T : e <= d
  <2>1. T \subseteq Nat /\ T # {}
    BY <1>1
  <2> HIDE DEF T
  <2> QED
    BY <2>1, LeastOf
<1>3. e # 0
  BY PowerIs
<1>4. e - 1 \in Nat /\ (e - 1) + 1 = e /\ ~(e <= e - 1)
  BY <1>3
<1>5. Power(e - 1) < n
  <2>1. Power(e - 1) \in Nat
    BY <1>4, PowerIs
  <2> QED
    BY <1>2, <1>4, <2>1
<1>6. n <= 2 * Power(e - 1)
  <2>1. Power((e - 1) + 1) = 2 * Power(e - 1)
    BY ONLY <1>4, PowerIs
  <2> QED
    BY <1>4, <2>1
<1>7. Split(n) = Power(e - 1)
  BY <1>4, <1>5, <1>6, SplitOf
<1> QED
  BY <1>4, <1>5, <1>6, <1>7
-------------------------------------------------------------------------------
(* The reference.                                                           *)

MthTo(d, n, b, mth) ==
    mth = [size \in 1 .. b |-> [lo \in 0 .. n - size |->
             IF size = 1 THEN LeafHash(d[lo + 1])
             ELSE NodeHash(mth[Split(size)][lo], mth[size - Split(size)][lo + Split(size)])]]

\* The split of a size leaves two smaller ones.
LEMMA SplitSmaller ==
    ASSUME NEW b \in Nat, b > 1
    PROVE  Split(b) \in 1 .. b - 1 /\ b - Split(b) \in 1 .. b - 1
<1>1. PICK e \in Nat : Split(b) = Power(e) /\ Power(e) < b
  BY SplitIs
<1>2. Power(e) \in Nat \ {0}
  BY PowerIs
<1> QED
  BY <1>1, <1>2

LEMMA MthExist ==
    ASSUME NEW d, NEW n \in Nat
    PROVE  \A b \in Nat : \E mth : MthTo(d, n, b, mth)
<1> DEFINE T == {b \in Nat : ~ \E mth : MthTo(d, n, b, mth)}
<1> SUFFICES ASSUME T # {} PROVE FALSE
  OBVIOUS
<1>1. PICK b \in T : \A m \in T : b <= m
  BY LeastOf
<1>2. b # 0
  <2>1. MthTo(d, n, 0, [size \in 1 .. 0 |-> <<>>])
    BY DEF MthTo
  <2> QED
    BY <2>1
<1>3. b \in Nat /\ b - 1 \in Nat /\ ~(b <= b - 1)
  BY <1>2
<1>4. PICK below : MthTo(d, n, b - 1, below)
  BY <1>1, <1>3
<1> DEFINE Line(m, size) ==
             [lo \in 0 .. n - size |->
                IF size = 1 THEN LeafHash(d[lo + 1])
                ELSE NodeHash(m[Split(size)][lo], m[size - Split(size)][lo + Split(size)])]
           mth == [size \in 1 .. b |-> IF size < b THEN below[size] ELSE Line(below, b)]
<1>5. DOMAIN mth = 1 .. b /\ mth = [size \in 1 .. b |-> mth[size]]
  OBVIOUS
<1>6. \A size \in 1 .. b - 1 : size \in 1 .. b /\ mth[size] = below[size]
  BY <1>3
<1>7. \A size \in 1 .. b - 1 : below[size] = Line(below, size)
  BY <1>4 DEF MthTo
<1>8. mth[b] = Line(below, b)
  BY <1>2, <1>3
<1> HIDE DEF mth
<1>9. ASSUME NEW size \in 1 .. b PROVE Line(below, size) = Line(mth, size)
  <2>1. CASE size = 1
    BY <2>1
  <2>2. CASE size # 1
    <3>1. size \in Nat /\ size > 1
      BY <2>2
    <3>2. Split(size) \in 1 .. size - 1 /\ size - Split(size) \in 1 .. size - 1
      BY <3>1, SplitSmaller
    <3>3. Split(size) \in 1 .. b - 1 /\ size - Split(size) \in 1 .. b - 1
      BY <1>3, <3>2
    <3>4. mth[Split(size)] = below[Split(size)] /\ mth[size - Split(size)] = below[size - Split(size)]
      BY <1>6, <3>3
    <3> QED
      BY <3>4
  <2> QED
    BY <2>1, <2>2
<1>10. ASSUME NEW size \in 1 .. b PROVE mth[size] = Line(mth, size)
  <2>1. mth[size] = Line(below, size)
    <3>1. CASE size = b
      BY <1>8, <3>1
    <3>2. CASE size # b
      <4>1. size \in 1 .. b - 1
        BY <1>3, <3>2
      <4> HIDE DEF Line
      <4> QED
        BY <1>6, <1>7, <4>1
    <3> QED
      BY <3>1, <3>2
  <2> HIDE DEF Line
  <2> QED
    BY <1>9, <2>1
<1>11. mth = [size \in 1 .. b |-> Line(mth, size)]
  <2> HIDE DEF Line
  <2> QED
    BY <1>5, <1>10
<1>12. MthTo(d, n, b, mth)
  BY <1>11 DEF MthTo
<1> QED
  BY <1>12

\* RFC 6962's hash of the leaves lo + 1 .. hi of a list.
Hash(d, lo, hi) == (CHOOSE mth : MthTo(d, Len(d), Len(d), mth))[hi - lo][lo]

Hashes(d, n, mth) ==
    /\ MTH(d) = mth[n][0]
    /\ \A lo, hi : Hash(d, lo, hi) = mth[hi - lo][lo]
    /\ \A size \in 1 .. n : \A lo \in 0 .. n - size :
         mth[size][lo] =
           IF size = 1 THEN LeafHash(d[lo + 1])
           ELSE NodeHash(mth[Split(size)][lo], mth[size - Split(size)][lo + Split(size)])

LEMMA HashIs ==
    ASSUME NEW d, NEW n \in Nat \ {0}, n = Len(d)
    PROVE  \E mth : Hashes(d, n, mth)
<1> DEFINE c == CHOOSE mth : MthTo(d, n, n, mth)
<1>1. MthTo(d, n, n, c)
  <2>1. \E mth : MthTo(d, n, n, mth)
    BY MthExist
  <2> QED
    BY <2>1
<1>2. MTH(d) = c[n][0]
  BY DEF MTH, MthTo
<1>3. \A lo, hi : Hash(d, lo, hi) = c[hi - lo][lo]
  BY DEF Hash
<1> HIDE DEF c
<1>4. ASSUME NEW size \in 1 .. n, NEW lo \in 0 .. n - size
      PROVE  c[size][lo] =
               IF size = 1 THEN LeafHash(d[lo + 1])
               ELSE NodeHash(c[Split(size)][lo], c[size - Split(size)][lo + Split(size)])
  <2>1. c[size] = [l \in 0 .. n - size |->
             IF size = 1 THEN LeafHash(d[l + 1])
             ELSE NodeHash(c[Split(size)][l], c[size - Split(size)][l + Split(size)])]
    BY <1>1 DEF MthTo
  <2> QED
    BY <2>1
<1> QED
  BY <1>2, <1>3, <1>4 DEF Hashes

LEMMA HashAll ==
    ASSUME NEW d, NEW n \in Nat \ {0}, n = Len(d)
    PROVE  MTH(d) = Hash(d, 0, n)
<1>1. PICK mth : Hashes(d, n, mth)
  BY HashIs
<1>2. n - 0 = n
  OBVIOUS
<1> QED
  BY <1>1, <1>2 DEF Hashes

LEMMA HashLeaf ==
    ASSUME NEW d, NEW n \in Nat, n = Len(d), NEW lo \in 0 .. n - 1
    PROVE  Hash(d, lo, lo + 1) = LeafHash(d[lo + 1])
<1>1. n \in Nat \ {0} /\ 1 \in 1 .. n /\ (lo + 1) - lo = 1
  OBVIOUS
<1>2. PICK mth : Hashes(d, n, mth)
  BY <1>1, HashIs
<1>3. Hash(d, lo, lo + 1) = mth[1][lo]
  BY <1>1, <1>2 DEF Hashes
<1>4. mth[1][lo] = LeafHash(d[lo + 1])
  BY <1>1, <1>2 DEF Hashes
<1> QED
  BY <1>3, <1>4

LEMMA HashSplit ==
    ASSUME NEW d, NEW n \in Nat, n = Len(d), NEW lo \in Nat, NEW hi \in Nat, hi <= n,
           NEW p \in Nat \ {0}, p = Split(hi - lo), p < hi - lo
    PROVE  Hash(d, lo, hi) = NodeHash(Hash(d, lo, lo + p), Hash(d, lo + p, hi))
<1>1. PICK size \in Nat : size = hi - lo
  OBVIOUS
<1>2. n \in Nat \ {0} /\ size \in 1 .. n /\ size # 1 /\ lo \in 0 .. n - size
  BY <1>1
<1>3. (lo + p) - lo = p /\ hi - (lo + p) = size - p
  BY <1>1
<1>4. PICK mth : Hashes(d, n, mth)
  BY <1>2, HashIs
<1>5. Hash(d, lo, hi) = mth[size][lo]
  BY <1>1, <1>4 DEF Hashes
<1>6. mth[size][lo] = NodeHash(mth[p][lo], mth[size - p][lo + p])
  BY <1>1, <1>2, <1>4 DEF Hashes
<1>7. Hash(d, lo, lo + p) = mth[p][lo] /\ Hash(d, lo + p, hi) = mth[size - p][lo + p]
  BY <1>3, <1>4 DEF Hashes
<1> QED
  BY <1>5, <1>6, <1>7

\* The hash of a part looks at that part only.
LEMMA HashAgrees ==
    ASSUME NEW d, NEW n \in Nat, n = Len(d), NEW e, NEW m \in Nat, m = Len(e),
           NEW k \in Nat, k <= n, k <= m, \A i \in 1 .. k : d[i] = e[i],
           NEW lo \in Nat, NEW hi \in Nat, lo < hi, hi <= k
    PROVE  Hash(d, lo, hi) = Hash(e, lo, hi)
<1> DEFINE Differs(size) ==
             \E l \in 0 .. k - size : Hash(d, l, l + size) # Hash(e, l, l + size)
           T == {size \in 1 .. k : Differs(size)}
<1>1. SUFFICES ASSUME T # {} PROVE FALSE
  <2>1. hi - lo \in 1 .. k /\ lo \in 0 .. k - (hi - lo) /\ lo + (hi - lo) = hi
    OBVIOUS
  <2>2. ~Differs(hi - lo)
    BY <1>1, <2>1
  <2> QED
    BY <2>1, <2>2
<1>2. PICK size \in T : \A g \in T : size <= g
  <2>1. T \subseteq Nat
    OBVIOUS
  <2> HIDE DEF T
  <2> QED
    BY <1>1, <2>1, LeastOf
<1>3. size \in 1 .. k
  OBVIOUS
<1>4. PICK l \in 0 .. k - size : Hash(d, l, l + size) # Hash(e, l, l + size)
  OBVIOUS
<1>5. CASE size = 1
  <2>1. l \in 0 .. n - 1 /\ l \in 0 .. m - 1 /\ l + 1 \in 1 .. k
    BY <1>3, <1>4, <1>5
  <2>2. Hash(d, l, l + 1) = LeafHash(d[l + 1]) /\ Hash(e, l, l + 1) = LeafHash(e[l + 1])
    BY <2>1, HashLeaf
  <2> QED
    BY <1>4, <1>5, <2>1, <2>2
<1>6. CASE size # 1
  <2>1. size \in Nat /\ size > 1
    BY <1>3, <1>6
  <2>2. PICK p \in 1 .. size - 1 : p = Split(size) /\ size - p \in 1 .. size - 1
    BY <2>1, SplitSmaller
  <2>3. /\ p \in 1 .. k /\ ~(size <= p) /\ l \in 0 .. k - p
        /\ size - p \in 1 .. k /\ ~(size <= size - p) /\ l + p \in 0 .. k - (size - p)
        /\ (l + p) + (size - p) = l + size
    BY ONLY <1>3, <2>1, <2>2, k \in Nat, l \in 0 .. k - size, p \in 1 .. size - 1
  <2>4. ~Differs(p) /\ ~Differs(size - p)
    BY <1>2, <2>3
  <2>5. /\ Hash(d, l, l + p) = Hash(e, l, l + p)
        /\ Hash(d, l + p, l + size) = Hash(e, l + p, l + size)
    BY <2>3, <2>4
  <2>6. /\ l \in Nat /\ l + size \in Nat /\ l + size <= n /\ l + size <= m
        /\ (l + size) - l = size /\ p \in Nat \ {0} /\ p < size
    BY <1>3, <1>4, <2>1, <2>2
  <2>7. PICK h \in Nat : h = l + size /\ p = Split(h - l) /\ p < h - l
    BY ONLY <2>2, <2>6
  <2>8. Hash(d, l, h) = NodeHash(Hash(d, l, l + p), Hash(d, l + p, h))
    BY ONLY <2>7, <2>6, n \in Nat, n = Len(d), h \in Nat, HashSplit
  <2>9. Hash(e, l, h) = NodeHash(Hash(e, l, l + p), Hash(e, l + p, h))
    BY ONLY <2>7, <2>6, m \in Nat, m = Len(e), h \in Nat, HashSplit
  <2> QED
    BY <1>4, <2>7, <2>5, <2>8, <2>9
<1> QED
  BY <1>5, <1>6

\* Two parts make the hash of both, if the first is the largest power below them.
LEMMA HashJoins ==
    ASSUME NEW d, NEW n \in Nat, n = Len(d), NEW k \in Nat, NEW lo \in Nat, NEW hi \in Nat,
           hi <= n, Power(k) < hi - lo, hi - lo <= 2 * Power(k)
    PROVE  Hash(d, lo, hi) = NodeHash(Hash(d, lo, lo + Power(k)), Hash(d, lo + Power(k), hi))
<1>1. PICK p \in Nat \ {0} : p = Power(k)
  BY PowerIs
<1>2. hi - lo \in Nat
  BY <1>1
<1>3. Split(hi - lo) = Power(k)
  BY <1>2, SplitOf
<1> QED
  BY <1>1, <1>3, HashSplit

\* A hash is a node.
LEMMA HashIsNode ==
    ASSUME NEW d, NEW n \in Nat, n = Len(d), NEW lo \in Nat, NEW hi \in Nat, lo < hi, hi <= n
    PROVE  Hash(d, lo, hi) # NoNode
<1>1. CASE hi = lo + 1
  <2>1. lo \in 0 .. n - 1
    BY <1>1
  <2>2. Hash(d, lo, hi) = LeafHash(d[lo + 1])
    BY <1>1, <2>1, HashLeaf
  <2> QED
    BY <2>2 DEF LeafHash, NoNode
<1>2. CASE hi # lo + 1
  <2>1. hi - lo \in Nat /\ hi - lo > 1
    BY <1>2
  <2>2. PICK p \in 1 .. hi - lo - 1 : p = Split(hi - lo)
    BY <2>1, SplitSmaller
  <2>3. p \in Nat \ {0} /\ p < hi - lo
    BY <2>1, <2>2
  <2>4. Hash(d, lo, hi) = NodeHash(Hash(d, lo, lo + p), Hash(d, lo + p, hi))
    BY <2>2, <2>3, HashSplit
  <2> QED
    BY <2>4 DEF NodeHash, NoNode
<1> QED
  BY <1>1, <1>2

-------------------------------------------------------------------------------
(* The tree's root.                                                         *)

\* The nodes of a level are the hashes of blocks of p leaves, the last one of those
\* that are left.
Covers(d, n, level, p) ==
    /\ \A i \in Nat \ {0} : i <= Len(level) <=> (i - 1) * p < n
    /\ \A i \in 1 .. Len(level) :
         level[i] = Hash(d, (i - 1) * p, IF i * p <= n THEN i * p ELSE n)

\* Where the i-th block of two blocks of p begins, and what that is in blocks of p.
Begins(i, p, a) ==
    /\ (i - 1) * (2 * p) = a /\ ((2 * i - 1) - 1) * p = a
    /\ (2 * i - 1) * p = a + p
    /\ (2 * i) * p = a + 2 * p /\ i * (2 * p) = a + 2 * p

LEMMA Multiples ==
    ASSUME NEW i \in Nat \ {0}, NEW p \in Nat \ {0}
    PROVE  \E a \in Nat : Begins(i, p, a)
<1> DEFINE a == (i - 1) * (2 * p)
<1>1. a \in Nat
  OBVIOUS
<1>2. ((2 * i - 1) - 1) * p = a
  OBVIOUS
<1>3. (2 * i - 1) * p = a + p
  OBVIOUS
<1>4. (2 * i) * p = a + 2 * p /\ i * (2 * p) = a + 2 * p
  OBVIOUS
<1> QED
  BY <1>1, <1>2, <1>3, <1>4 DEF Begins

LEMMA CoversUp ==
    ASSUME NEW d, NEW n \in Nat \ {0}, n = Len(d), NEW k \in Nat,
           NEW level, Row(level), Covers(d, n, level, Power(k))
    PROVE  Covers(d, n, Up(level), Power(k + 1))
<1>1. PICK p \in Nat \ {0} : p = Power(k) /\ Power(k + 1) = 2 * p
  BY PowerIs
<1>2. PICK l \in Nat \ {0} : l = Len(level)
  BY DEF Row
<1>3. PICK u \in Nat \ {0} : u = Len(Up(level)) /\ u = (l + 1) \div 2
  BY <1>2, UpIs DEF Row
<1>4. \A i \in Nat \ {0} : i <= l <=> (i - 1) * p < n
  BY <1>1, <1>2 DEF Covers
<1>5. \A i \in 1 .. l : level[i] = Hash(d, (i - 1) * p, IF i * p <= n THEN i * p ELSE n)
  BY <1>1, <1>2 DEF Covers
<1>6. ASSUME NEW i \in Nat \ {0} PROVE i <= u <=> (i - 1) * (2 * p) < n
  <2>1. i <= u <=> 2 * i - 1 <= l
    BY ONLY <1>3, l \in Nat, i \in Nat
  <2>2. 2 * i - 1 \in Nat \ {0}
    OBVIOUS
  <2>3. 2 * i - 1 <= l <=> ((2 * i - 1) - 1) * p < n
    BY ONLY <1>4, <2>2
  <2> QED
    BY <2>1, <2>3, Multiples DEF Begins
<1>7. ASSUME NEW i \in 1 .. u
      PROVE  Up(level)[i] =
               Hash(d, (i - 1) * (2 * p), IF i * (2 * p) <= n THEN i * (2 * p) ELSE n)
  <2>0. i \in Nat \ {0} /\ 2 * i - 1 \in 1 .. l /\ 2 * i - 1 \in Nat \ {0} /\ 2 * i \in Nat \ {0}
    BY ONLY <1>3, l \in Nat, i \in 1 .. u, u \in Nat
  <2>a. PICK a \in Nat : Begins(i, p, a)
    BY ONLY <2>0, p \in Nat \ {0}, Multiples
  <2>1. /\ (i - 1) * (2 * p) = a /\ ((2 * i - 1) - 1) * p = a
        /\ (2 * i - 1) * p = a + p
        /\ (2 * i) * p = a + 2 * p /\ i * (2 * p) = a + 2 * p
    BY ONLY <2>a, Zenon DEF Begins
  <2>2. a < n
    <3>1. 2 * i - 1 <= l <=> ((2 * i - 1) - 1) * p < n
      BY ONLY <1>4, <2>0
    <3>2. 2 * i - 1 <= l
      BY ONLY <2>0, l \in Nat
    <3> QED
      BY ONLY <2>1, <3>1, <3>2
  <2>3. Up(level)[i] = IF 2 * i <= l THEN NodeHash(level[2 * i - 1], level[2 * i])
                       ELSE level[l]
    BY <1>2, <1>3, UpIs
  <2>4. level[2 * i - 1] = Hash(d, a, IF a + p <= n THEN a + p ELSE n)
    BY <1>5, <2>0, <2>1
  <2>5. CASE 2 * i <= l
    <3>1. (2 * i - 1) * p < n
      BY <1>4, <2>0, <2>5
    <3>2. a + p < n
      BY <2>1, <3>1
    <3>3. 2 * i \in 1 .. l
      BY <2>0, <2>5
    <3> DEFINE hi == IF a + 2 * p <= n THEN a + 2 * p ELSE n
    <3>4. level[2 * i] = Hash(d, a + p, hi)
      BY <1>5, <2>1, <3>3
    <3>5. hi \in Nat /\ hi <= n /\ p < hi - a /\ hi - a <= 2 * p
      BY <3>2
    <3>6. level[2 * i - 1] = Hash(d, a, a + p)
      BY <2>4, <3>2
    <3> HIDE DEF hi
    <3>7. Hash(d, a, hi) = NodeHash(Hash(d, a, a + p), Hash(d, a + p, hi))
      BY <1>1, <3>5, HashJoins
    <3>8. Up(level)[i] = Hash(d, a, hi)
      BY <2>3, <2>5, <3>4, <3>6, <3>7
    <3> QED
      BY <2>1, <3>8 DEF hi
  <2>6. CASE ~(2 * i <= l)
    <3>1. 2 * i - 1 = l
      BY <2>0, <2>6
    <3>2. ~((2 * i - 1) * p < n)
      BY <1>4, <2>0, <2>6
    <3>3. n <= a + p
      BY <2>1, <3>2
    <3>4. level[l] = Hash(d, a, n)
      <4>1. CASE a + p = n
        BY <2>4, <3>1, <4>1
      <4>2. CASE a + p # n
        <5>1. ~(a + p <= n)
          BY <3>3, <4>2
        <5> QED
          BY <2>4, <3>1, <5>1
      <4> QED
        BY <4>1, <4>2
    <3>5. ~(a + 2 * p <= n)
      BY <3>3
    <3>6. Up(level)[i] = Hash(d, a, n)
      BY <2>3, <2>6, <3>4
    <3> QED
      BY <2>1, <3>5, <3>6
  <2> QED
    BY <2>5, <2>6
<1> QED
  BY <1>1, <1>3, <1>6, <1>7 DEF Covers

LEMMA LevelsCover ==
    ASSUME NEW d, NEW n \in Nat \ {0}, n = Len(d), NEW levels, NEW top \in Nat,
           Tree(levels, top), Len(levels[0]) = n,
           \A i \in 1 .. n : levels[0][i] = LeafHash(d[i])
    PROVE  \A h \in 0 .. top : Covers(d, n, levels[h], Power(h))
<1> DEFINE T == {h \in 0 .. top : ~Covers(d, n, levels[h], Power(h))}
<1> SUFFICES ASSUME T # {} PROVE FALSE
  OBVIOUS
<1>1. PICK h \in T : \A g \in T : h <= g
  <2>1. T \subseteq Nat
    OBVIOUS
  <2> HIDE DEF T
  <2> QED
    BY <2>1, LeastOf
<1>2. h \in 0 .. top /\ ~Covers(d, n, levels[h], Power(h))
  OBVIOUS
<1>3. CASE h = 0
  <2>1. ASSUME NEW i \in Nat \ {0} PROVE i <= n <=> (i - 1) * 1 < n
    OBVIOUS
  <2>2. ASSUME NEW i \in 1 .. n
        PROVE  levels[0][i] = Hash(d, (i - 1) * 1, IF i * 1 <= n THEN i * 1 ELSE n)
    <3>1. i - 1 \in 0 .. n - 1 /\ (i - 1) + 1 = i /\ (i - 1) * 1 = i - 1 /\ i * 1 = i /\ i <= n
      OBVIOUS
    <3>2. Hash(d, i - 1, (i - 1) + 1) = LeafHash(d[(i - 1) + 1])
      BY ONLY <3>1, n \in Nat, n = Len(d), HashLeaf
    <3> QED
      BY <3>1, <3>2
  <2> QED
    BY <1>2, <1>3, <2>1, <2>2, PowerIs DEF Covers
<1>4. CASE h # 0
  <2>1. PICK g \in Nat : g = h - 1
    BY <1>2, <1>4
  <2>2. g \in 0 .. top - 1 /\ g \in 0 .. top /\ ~(h <= g) /\ g + 1 = h
    BY <1>2, <2>1
  <2>3. Covers(d, n, levels[g], Power(g))
    BY <1>1, <2>2
  <2>4. levels[g + 1] = Up(levels[g]) /\ Row(levels[g])
    BY <2>2 DEF Tree
  <2>5. Covers(d, n, Up(levels[g]), Power(g + 1))
    BY <2>3, <2>4, CoversUp
  <2> QED
    BY <1>2, <2>2, <2>4, <2>5
<1> QED
  BY <1>3, <1>4

\* The tree over a list: its levels hold the hashes of its blocks, up to one that is
\* large enough for the list.
LEMMA TreeHashes ==
    ASSUME NEW S, NEW d \in Seq(S), NEW n \in Nat \ {0}, n = Len(d)
    PROVE  \E top \in Nat : /\ Tree(Levels(d), top) /\ n <= Power(top)
                            /\ \A h \in 0 .. top : Covers(d, n, Levels(d)[h], Power(h))
                            /\ Root(d) = Hash(d, 0, n)
<1>1. d # <<>>
  <2>1. Len(<<>>) = 0
    OBVIOUS
  <2> QED
    BY <2>1
<1>2. /\ Row(HashedLeaves(d)) /\ Len(HashedLeaves(d)) = n
      /\ \A i \in 1 .. n : HashedLeaves(d)[i] = LeafHash(d[i])
  BY <1>1, LeavesRow
<1>3. PICK top \in Nat : Tree(Levels(d), top) /\ Levels(d)[0] = HashedLeaves(d)
  BY <1>2, TreeIs DEF Levels
<1>4. \A h \in 0 .. top : Covers(d, n, Levels(d)[h], Power(h))
  BY <1>2, <1>3, LevelsCover
<1>5. Len(Levels(d)[top]) = 1 /\ top \in 0 .. top /\ DOMAIN Levels(d) = 0 .. top
  BY <1>3 DEF Tree
<1>6. PICK p \in Nat \ {0} : p = Power(top)
  BY PowerIs
<1>7. Covers(d, n, Levels(d)[top], p)
  BY <1>4, <1>5, <1>6
<1>8. n <= p
  <2>1. 2 <= 1 <=> (2 - 1) * p < n
    BY <1>5, <1>7 DEF Covers
  <2> QED
    BY <2>1
<1>9. Levels(d)[top][1] = Hash(d, 0, n)
  <2>1. Levels(d)[top][1] = Hash(d, (1 - 1) * p, IF 1 * p <= n THEN 1 * p ELSE n)
    BY <1>5, <1>7 DEF Covers
  <2>2. (1 - 1) * p = 0 /\ 1 * p = p /\ (p <= n => p = n)
    BY <1>8
  <2> QED
    BY <2>1, <2>2
<1>10. Root(d) = Levels(d)[top][1]
  BY <1>5, TopOf DEF Root, RootOf
<1> QED
  BY <1>3, <1>4, <1>6, <1>8, <1>9, <1>10

-------------------------------------------------------------------------------
(* Blocks: one of 1 << k leaves for every bit k of a size, the largest first.  *)

\* Where the blocks of the bits below k begin.
Edge(c, k) == (c \div Power(k)) * Power(k)

LEMMA Halves ==
    ASSUME NEW n \in Nat, NEW p \in Nat \ {0}
    PROVE  n \div (2 * p) = (n \div p) \div 2
OBVIOUS

LEMMA Quotient ==
    ASSUME NEW n \in Nat, NEW p \in Nat \ {0}, NEW q \in Nat, NEW r \in 0 .. p - 1, n = q * p + r
    PROVE  n \div p = q
OBVIOUS

LEMMA Divided ==
    ASSUME NEW n \in Nat, NEW p \in Nat \ {0}
    PROVE  \E q \in Nat, r \in 0 .. p - 1 : q = n \div p /\ n = q * p + r
<1>1. n = (n \div p) * p + (n % p)
  OBVIOUS
<1>2. n % p \in 0 .. p - 1 /\ n \div p \in Nat
  OBVIOUS
<1> QED
  BY <1>1, <1>2

LEMMA EdgeIs ==
    ASSUME NEW c \in Nat, NEW k \in Nat
    PROVE  /\ Edge(c, k) \in Nat /\ Edge(c, k) <= c /\ c - Edge(c, k) < Power(k)
           /\ Edge(c, 0) = c
           /\ Bit(c, k) => Edge(c, k) = Edge(c, k + 1) + Power(k)
           /\ ~Bit(c, k) => Edge(c, k) = Edge(c, k + 1)
<1>1. PICK p \in Nat \ {0} : p = Power(k) /\ Power(k + 1) = 2 * p
  BY PowerIs
<1>2. PICK q \in Nat, r \in 0 .. p - 1 : q = c \div p /\ c = q * p + r
  BY Divided
<1>3. q * p \in Nat /\ q * p <= c /\ c - q * p < p
  BY <1>2
<1>4. Edge(c, 0) = c
  <2>1. c \div 1 = c /\ c * 1 = c
    OBVIOUS
  <2> QED
    BY <2>1, PowerIs DEF Edge
<1>5. PICK h \in Nat : h = q \div 2
  OBVIOUS
<1>6. Edge(c, k + 1) = h * (2 * p) /\ Edge(c, k) = q * p /\ (Bit(c, k) <=> q % 2 = 1)
  <2>1. c \div (2 * p) = h
    BY <1>2, <1>5, Halves
  <2> QED
    BY <1>1, <1>2, <2>1 DEF Edge, Bit
<1>7. CASE q % 2 = 1
  <2>1. q = 2 * h + 1
    BY <1>5, <1>7
  <2>2. q * p = h * (2 * p) + p
    BY ONLY <2>1, h \in Nat, p \in Nat
  <2> QED
    BY <1>1, <1>3, <1>4, <1>6, <1>7, <2>2
<1>8. CASE q % 2 # 1
  <2>1. q = 2 * h
    BY <1>5, <1>8
  <2>2. q * p = h * (2 * p)
    BY ONLY <2>1, h \in Nat, p \in Nat
  <2> QED
    BY <1>1, <1>3, <1>4, <1>6, <1>8, <2>2
<1> QED
  BY <1>7, <1>8

\* What is carried when the bits below k are folded.
Carried(d, c, k, carry) ==
    carry = IF Edge(c, k) = c THEN NoNode ELSE Hash(d, Edge(c, k), c)

LEMMA CarryOn ==
    ASSUME NEW d, NEW n \in Nat, n = Len(d), NEW c \in Nat, c <= n, NEW k \in Nat,
           NEW carry, Carried(d, c, k, carry)
    PROVE  /\ ~Bit(c, k) => Carried(d, c, k + 1, carry)
           /\ Bit(c, k) => Carried(d, c, k + 1, Merged(Hash(d, Edge(c, k + 1), Edge(c, k)), carry))
<1>1. PICK p \in Nat \ {0} : p = Power(k)
  BY PowerIs
<1>2. PICK s \in Nat : s = Edge(c, k)
  BY EdgeIs
<1>3. PICK t \in Nat : t = Edge(c, k + 1)
  BY EdgeIs
<1>4. s <= c /\ c - s < p
  BY <1>1, <1>2, EdgeIs
<1>5. CASE ~Bit(c, k)
  <2>1. s = t
    BY <1>2, <1>3, <1>5, EdgeIs
  <2> QED
    BY <1>2, <1>3, <1>5, <2>1 DEF Carried
<1>6. CASE Bit(c, k)
  <2>1. s = t + p /\ t # c
    <3>1. s = t + p
      BY <1>1, <1>2, <1>3, <1>6, EdgeIs
    <3> QED
      BY <1>4, <3>1
  <2>2. CASE s = c
    BY <1>2, <1>3, <1>6, <2>1, <2>2 DEF Carried, Merged
  <2>3. CASE s # c
    <3>1. carry = Hash(d, s, c)
      BY <1>2, <2>3 DEF Carried
    <3>2. carry # NoNode
      BY <1>4, <2>3, <3>1, HashIsNode
    <3>3. p < c - t /\ c - t <= 2 * p
      BY <1>4, <2>1, <2>3
    <3>4. Hash(d, t, c) = NodeHash(Hash(d, t, t + p), Hash(d, t + p, c))
      BY <1>1, <3>3, HashJoins
    <3> QED
      BY <1>2, <1>3, <1>6, <2>1, <3>1, <3>2, <3>4 DEF Carried, Merged
  <2> QED
    BY <2>2, <2>3
<1> QED
  BY <1>5, <1>6

\* When the bits of a number are all folded, its hash is carried.
LEMMA CarriedAll ==
    ASSUME NEW d, NEW c \in Nat \ {0}, NEW k \in Nat, c \div Power(k) = 0,
           NEW carry, Carried(d, c, k, carry)
    PROVE  carry = Hash(d, 0, c)
<1>1. Edge(c, k) = 0
  <2>1. PICK p \in Nat : p = Power(k)
    BY PowerIs
  <2>2. 0 * p = 0
    OBVIOUS
  <2> QED
    BY <2>1, <2>2 DEF Edge
<1> QED
  BY <1>1 DEF Carried

-------------------------------------------------------------------------------
(* The root of a prefix.                                                    *)

FoldedTo(levels, size, n, folded) ==
    folded = [k \in 0 .. n |->
                IF k = 0 THEN [end |-> size, carry |-> NoNode]
                ELSE IF Bit(size, k - 1) THEN WithBlock(levels, folded[k - 1], Power(k - 1))
                ELSE folded[k - 1]]

LEMMA FoldedExist ==
    ASSUME NEW levels, NEW size
    PROVE  \A n \in Nat : \E folded : FoldedTo(levels, size, n, folded)
<1> DEFINE T == {n \in Nat : ~ \E folded : FoldedTo(levels, size, n, folded)}
           Next(f, k) == IF Bit(size, k - 1) THEN WithBlock(levels, f[k - 1], Power(k - 1))
                         ELSE f[k - 1]
<1> SUFFICES ASSUME T # {} PROVE FALSE
  OBVIOUS
<1>1. PICK n \in T : \A m \in T : n <= m
  BY LeastOf
<1>2. n # 0
  <2>1. FoldedTo(levels, size, 0, [k \in 0 .. 0 |-> [end |-> size, carry |-> NoNode]])
    BY DEF FoldedTo
  <2> QED
    BY <2>1
<1>3. n \in Nat /\ n - 1 \in Nat /\ ~(n <= n - 1)
  BY <1>2
<1>4. PICK below : FoldedTo(levels, size, n - 1, below)
  BY <1>1, <1>3
<1> DEFINE folded == [k \in 0 .. n |-> IF k < n THEN below[k] ELSE Next(below, n)]
<1>5. DOMAIN folded = 0 .. n /\ folded = [k \in 0 .. n |-> folded[k]]
  OBVIOUS
<1>6. \A k \in 0 .. n - 1 : k \in 0 .. n /\ folded[k] = below[k]
  BY <1>3
<1>7. \A k \in 0 .. n - 1 :
        below[k] = IF k = 0 THEN [end |-> size, carry |-> NoNode] ELSE Next(below, k)
  BY <1>4 DEF FoldedTo
<1>8. folded[n] = Next(below, n)
  BY <1>3
<1> HIDE DEF folded
<1>9. ASSUME NEW k \in 1 .. n PROVE Next(below, k) = Next(folded, k)
  <2>1. k - 1 \in 0 .. n - 1
    BY <1>3
  <2>2. folded[k - 1] = below[k - 1]
    BY <1>6, <2>1
  <2> QED
    BY <2>2
<1> HIDE DEF Next
<1>10. ASSUME NEW k \in 0 .. n
       PROVE  folded[k] = IF k = 0 THEN [end |-> size, carry |-> NoNode] ELSE Next(folded, k)
  <2>1. CASE k = n
    <3>1. k \in 1 .. n
      BY <1>2, <1>3, <2>1
    <3> QED
      BY <1>2, <1>8, <1>9, <2>1, <3>1
  <2>2. CASE k # n
    <3>1. k \in 0 .. n - 1 /\ (k # 0 => k \in 1 .. n)
      BY <1>3, <2>2
    <3> QED
      BY <1>6, <1>7, <1>9, <3>1
  <2> QED
    BY <2>1, <2>2
<1>11. FoldedTo(levels, size, n, folded)
  BY <1>5, <1>10 DEF FoldedTo, Next
<1> QED
  BY <1>11

LEMMA FoldedIs ==
    ASSUME NEW leaves, NEW size \in Nat
    PROVE  \E folded : /\ FoldedTo(Levels(leaves), size, size, folded)
                       /\ RootAt(leaves, size) = folded[size].carry
<1> DEFINE c == CHOOSE f : f = [k \in 0 .. size |->
                IF k = 0 THEN [end |-> size, carry |-> NoNode]
                ELSE IF Bit(size, k - 1) THEN WithBlock(Levels(leaves), f[k - 1], Power(k - 1))
                ELSE f[k - 1]]
<1>1. RootAt(leaves, size) = c[size].carry
  BY DEF RootAt
<1>2. FoldedTo(Levels(leaves), size, size, c)
  <2>1. PICK f : FoldedTo(Levels(leaves), size, size, f)
    BY FoldedExist
  <2> QED
    BY <2>1 DEF FoldedTo
<1> QED
  BY <1>1, <1>2

\* The number of leaves under a node is the power of two for its level.
LEMMA HeightOf ==
    ASSUME NEW k \in Nat
    PROVE  Height(Power(k)) = k
<1>1. PICK n \in Nat \ {0} : n = Power(k)
  BY PowerIs
<1> DEFINE Is(h) == n <= Power(h) /\ (h = 0 \/ Power(h - 1) < n)
<1>2. k \in 0 .. n
  BY <1>1, PowerAbove
<1>3. Is(k)
  <2>1. ASSUME k # 0 PROVE Power(k - 1) < n
    <3>1. k - 1 \in Nat /\ k - 1 < k
      BY <2>1
    <3>2. 2 * Power(k - 1) <= Power(k) /\ Power(k - 1) \in Nat \ {0}
      BY <3>1, PowersGrow, PowerIs
    <3> QED
      BY <1>1, <3>2
  <2> QED
    BY <1>1, <2>1
<1>4. ASSUME NEW h \in 0 .. n, Is(h) PROVE h = k
  <2>1. h \in Nat /\ Power(h) \in Nat \ {0}
    BY PowerIs
  <2>2. ~(h < k)
    <3>1. ASSUME h < k PROVE FALSE
      <4>1. 2 * Power(h) <= Power(k)
        BY <2>1, <3>1, PowersGrow
      <4> QED
        BY <1>1, <1>4, <2>1, <4>1
    <3> QED
      BY <3>1
  <2>3. ~(k < h)
    <3>1. ASSUME k < h PROVE FALSE
      <4>1. h - 1 \in Nat /\ h # 0 /\ Power(h - 1) \in Nat
        BY <2>1, <3>1, PowerIs
      <4>2. Power(h - 1) < n
        BY <1>4, <4>1
      <4>3. CASE k = h - 1
        BY <1>1, <4>1, <4>2, <4>3
      <4>4. CASE k # h - 1
        <5>1. k < h - 1
          BY <2>1, <3>1, <4>4
        <5>2. 2 * Power(k) <= Power(h - 1)
          BY <4>1, <5>1, PowersGrow
        <5> QED
          BY <1>1, <4>1, <4>2, <5>2
      <4> QED
        BY <4>3, <4>4
    <3> QED
      BY <3>1
  <2> QED
    BY <2>1, <2>2, <2>3
<1>5. (CHOOSE h \in 0 .. n : Is(h)) = k
  <2> HIDE DEF Is
  <2> QED
    BY <1>2, <1>3, <1>4
<1> QED
  BY <1>1, <1>5 DEF Height

\* A block of a prefix is a node of the tree.
LEMMA BlockIsNode ==
    ASSUME NEW d, NEW n \in Nat \ {0}, n = Len(d), NEW levels, NEW top \in Nat,
           n <= Power(top), \A h \in 0 .. top : Covers(d, n, levels[h], Power(h)),
           NEW size \in 1 .. n, NEW k \in Nat, Bit(size, k)
    PROVE  /\ Edge(size, k) - Power(k) = Edge(size, k + 1)
           /\ Node(levels, Edge(size, k + 1), Edge(size, k)) =
                Hash(d, Edge(size, k + 1), Edge(size, k))
<1>0. size \in Nat /\ k + 1 \in Nat
  OBVIOUS
<1>1. PICK p \in Nat \ {0} : p = Power(k) /\ Power(k + 1) = 2 * p
  BY PowerIs
<1>2. PICK lo \in Nat : lo = Edge(size, k + 1)
  BY <1>0, EdgeIs
<1>3. PICK hi \in Nat : hi = Edge(size, k)
  BY <1>0, EdgeIs
<1>4. hi = lo + p /\ hi <= n
  <2>1. hi <= size /\ hi = lo + p
    BY <1>0, <1>1, <1>2, <1>3, EdgeIs
  <2> QED
    BY <2>1
<1>5. PICK i \in Nat \ {0} : lo = (i - 1) * p /\ hi = i * p /\ lo \div p + 1 = i
  <2>0. 2 * p \in Nat \ {0}
    OBVIOUS
  <2>1. PICK q \in Nat : q = size \div (2 * p)
    BY <1>0, <2>0, Divided
  <2>2. lo = q * (2 * p)
    BY <1>1, <1>2, <2>1 DEF Edge
  <2>3. lo = (2 * q) * p /\ hi = (2 * q + 1) * p
    BY ONLY <1>4, <2>2, q \in Nat, p \in Nat
  <2>4. lo \div p = 2 * q
    <3>1. 2 * q \in Nat /\ 0 \in 0 .. p - 1 /\ lo = (2 * q) * p + 0
      BY ONLY <2>3, q \in Nat, p \in Nat \ {0}, lo \in Nat
    <3> QED
      BY ONLY <3>1, p \in Nat \ {0}, lo \in Nat, Quotient
  <2>5. 2 * q + 1 \in Nat \ {0} /\ (2 * q + 1) - 1 = 2 * q
    OBVIOUS
  <2> QED
    BY <2>3, <2>4, <2>5
<1>6. k \in 0 .. top
  <2>1. ASSUME top < k PROVE FALSE
    <3>1. 2 * Power(top) <= p /\ Power(top) \in Nat \ {0}
      BY <1>1, <2>1, PowersGrow, PowerIs
    <3> QED
      BY <1>4, <3>1
  <2> QED
    BY <2>1
<1>7. Covers(d, n, levels[k], p)
  BY <1>1, <1>6
<1>8. i \in 1 .. Len(levels[k])
  <2>1. (i - 1) * p < n
    BY <1>4, <1>5
  <2>2. i <= Len(levels[k])
    BY <1>7, <2>1 DEF Covers
  <2> QED
    BY <2>2
<1>9. levels[k][i] = Hash(d, lo, hi)
  BY <1>4, <1>5, <1>7, <1>8 DEF Covers
<1>10. Node(levels, lo, hi) = levels[k][i]
  <2>1. hi - lo = p
    BY <1>4
  <2>2. Height(hi - lo) = k
    BY <1>1, <2>1, HeightOf
  <2> QED
    BY <1>1, <1>5, <2>2 DEF Node
<1>11. hi - p = lo
  BY <1>4
<1> QED
  BY <1>1, <1>2, <1>3, <1>9, <1>10, <1>11

\* After k bits, where their blocks begin and the hash of them.
LEMMA FoldedAlong ==
    ASSUME NEW d, NEW n \in Nat \ {0}, n = Len(d), NEW levels, NEW top \in Nat,
           n <= Power(top), \A h \in 0 .. top : Covers(d, n, levels[h], Power(h)),
           NEW size \in 1 .. n, NEW folded, FoldedTo(levels, size, size, folded)
    PROVE  \A k \in 0 .. size :
             folded[k].end = Edge(size, k) /\ Carried(d, size, k, folded[k].carry)
<1>0. size \in Nat
  OBVIOUS
<1>a. /\ folded[0] = [end |-> size, carry |-> NoNode]
      /\ \A g \in 1 .. size :
           folded[g] = IF Bit(size, g - 1) THEN WithBlock(levels, folded[g - 1], Power(g - 1))
                       ELSE folded[g - 1]
  <2>1. 0 \in 0 .. size /\ \A g \in 1 .. size : g \in 0 .. size /\ g # 0
    OBVIOUS
  <2> QED
    BY <2>1 DEF FoldedTo
<1> DEFINE Done(k) == folded[k].end = Edge(size, k) /\ Carried(d, size, k, folded[k].carry)
           T == {k \in 0 .. size : ~Done(k)}
<1> SUFFICES ASSUME T # {} PROVE FALSE
  OBVIOUS
<1>1. PICK k \in T : \A g \in T : k <= g
  <2>1. T \subseteq Nat
    OBVIOUS
  <2> HIDE DEF T
  <2> QED
    BY <2>1, LeastOf
<1>2. k \in 0 .. size /\ ~Done(k) /\ size \in Nat
  OBVIOUS
<1>3. CASE k = 0
  <2>0. Edge(size, 0) = size
    BY ONLY <1>2, 0 \in Nat, EdgeIs
  <2>1. folded[0] = [end |-> size, carry |-> NoNode] /\ Edge(size, 0) = size
    BY <1>a, <2>0
  <2> QED
    BY <1>2, <1>3, <2>1 DEF Carried
<1>4. CASE k # 0
  <2>1. PICK g \in Nat : g = k - 1 /\ g \in 0 .. size /\ g + 1 = k /\ ~(k <= g) /\ k \in 1 .. size
    BY <1>2, <1>4
  <2>2. Done(g)
    BY <1>1, <2>1
  <2>3. folded[k] = IF Bit(size, g) THEN WithBlock(levels, folded[g], Power(g)) ELSE folded[g]
    <3>1. g = k - 1 /\ k \in 1 .. size
      BY <2>1
    <3> QED
      BY ONLY <1>a, <3>1
  <2>4. CASE ~Bit(size, g)
    <3>1. Edge(size, g) = Edge(size, k)
      BY ONLY <1>2, <2>1, <2>4, EdgeIs
    <3>2. Carried(d, size, k, folded[g].carry)
      BY <2>1, <2>2, <2>4, CarryOn
    <3> QED
      BY <1>2, <2>2, <2>3, <2>4, <3>1, <3>2
  <2>5. CASE Bit(size, g)
    <3> DEFINE left == Hash(d, Edge(size, k), Edge(size, g))
    <3>1. Edge(size, g) - Power(g) = Edge(size, k) /\ Node(levels, Edge(size, k), Edge(size, g)) = left
      BY <2>1, <2>5, BlockIsNode
    <3>2. Carried(d, size, k, Merged(left, folded[g].carry))
      BY <2>1, <2>2, <2>5, CarryOn
    <3>3. folded[k] = [end |-> Edge(size, k), carry |-> Merged(left, folded[g].carry)]
      BY <2>2, <2>3, <2>5, <3>1 DEF WithBlock
    <3> QED
      BY <1>2, <3>2, <3>3
  <2> QED
    BY <2>4, <2>5
<1> QED
  BY <1>3, <1>4

LEMMA PrefixHash ==
    ASSUME NEW S, NEW d \in Seq(S), NEW n \in Nat, n = Len(d), NEW size \in 1 .. n
    PROVE  /\ SubSeq(d, 1, size) \in Seq(S) /\ Len(SubSeq(d, 1, size)) = size
           /\ MTH(SubSeq(d, 1, size)) = Hash(d, 0, size)
<1> DEFINE e == SubSeq(d, 1, size)
<1>1. e \in Seq(S) /\ Len(e) = size /\ \A i \in 1 .. size : e[i] = d[i]
  BY SubSeqProperties
<1> HIDE DEF e
<1>2. size \in Nat \ {0} /\ size <= n /\ 0 < size
  OBVIOUS
<1>3. MTH(e) = Hash(e, 0, size)
  BY <1>1, <1>2, HashAll
<1>4. Hash(e, 0, size) = Hash(d, 0, size)
  BY <1>1, <1>2, HashAgrees
<1> QED
  BY <1>1, <1>3, <1>4 DEF e

\* Of a list of any length: the tree's root is that of RFC 6962, and so is every
\* root it had at an earlier size (MerkleTree.root, root_at).
THEOREM RootsAre ==
    ASSUME NEW S, NEW leaves \in Seq(S), leaves # <<>>
    PROVE  /\ Root(leaves) = MTH(leaves)
           /\ \A size \in 1 .. Len(leaves) :
                RootAt(leaves, size) = MTH(SubSeq(leaves, 1, size))
<1>1. PICK n \in Nat \ {0} : n = Len(leaves)
  <2>1. Len(leaves) \in Nat /\ Len(leaves) # 0
    BY EmptySeq, LenProperties
  <2> QED
    BY <2>1
<1>2. PICK top \in Nat :
        /\ n <= Power(top) /\ Root(leaves) = Hash(leaves, 0, n)
        /\ \A h \in 0 .. top : Covers(leaves, n, Levels(leaves)[h], Power(h))
  BY <1>1, TreeHashes
<1>3. Root(leaves) = MTH(leaves)
  BY <1>1, <1>2, HashAll
<1>4. ASSUME NEW size \in 1 .. n PROVE RootAt(leaves, size) = MTH(SubSeq(leaves, 1, size))
  <2>0. size \in Nat \ {0} /\ size \in 0 .. size
    OBVIOUS
  <2>1. PICK folded : /\ FoldedTo(Levels(leaves), size, size, folded)
                      /\ RootAt(leaves, size) = folded[size].carry
    BY <2>0, FoldedIs
  <2>2. Carried(leaves, size, size, folded[size].carry)
    BY <1>1, <1>2, <2>0, <2>1, FoldedAlong
  <2>3. size \div Power(size) = 0
    <3>1. PICK p \in Nat \ {0} : p = Power(size)
      BY PowerIs
    <3>2. size \in 0 .. p - 1 /\ size = 0 * p + size
      BY <2>0, <3>1, PowerAbove
    <3> QED
      BY <2>0, <3>1, <3>2, Quotient
  <2>4. folded[size].carry = Hash(leaves, 0, size)
    BY <2>0, <2>2, <2>3, CarriedAll
  <2> QED
    BY <1>1, <2>1, <2>4, PrefixHash
<1> QED
  BY <1>1, <1>3, <1>4

-------------------------------------------------------------------------------
(* The builder.                                                             *)

\* A number that ends in k ones: one more, and its last k bits are carried over.
LEMMA LowOnes ==
    ASSUME NEW c \in Nat, NEW f \in Nat, \A j \in 0 .. f - 1 : Bit(c, j)
    PROVE  \A k \in 0 .. f : c + 1 = Edge(c, k) + Power(k)
<1> DEFINE T == {k \in 0 .. f : c + 1 # Edge(c, k) + Power(k)}
<1> SUFFICES ASSUME T # {} PROVE FALSE
  OBVIOUS
<1>1. PICK k \in T : \A g \in T : k <= g
  <2>1. T \subseteq Nat
    OBVIOUS
  <2> HIDE DEF T
  <2> QED
    BY <2>1, LeastOf
<1>2. k \in 0 .. f /\ c + 1 # Edge(c, k) + Power(k)
  OBVIOUS
<1>3. CASE k = 0
  <2>1. Edge(c, 0) = c /\ Power(0) = 1
    BY EdgeIs, PowerIs
  <2> QED
    BY <1>2, <1>3, <2>1
<1>4. CASE k # 0
  <2>1. PICK g \in Nat : g = k - 1
    BY <1>2, <1>4
  <2>2. g \in 0 .. f - 1 /\ g \in 0 .. f /\ ~(k <= g) /\ g + 1 = k
    BY <1>2, <2>1
  <2>3. c + 1 = Edge(c, g) + Power(g)
    BY <1>1, <2>2
  <2>4. Edge(c, g) = Edge(c, k) + Power(g)
    BY <2>2, EdgeIs
  <2>5. Power(k) = 2 * Power(g) /\ Power(g) \in Nat
    BY <2>2, PowerIs
  <2>6. Edge(c, k) \in Nat
    BY <1>2, EdgeIs
  <2> QED
    BY <1>2, <2>3, <2>4, <2>5, <2>6
<1> QED
  BY <1>3, <1>4

\* Its ones become zeros, the zero before them becomes one.
LEMMA OneMore ==
    ASSUME NEW c \in Nat, NEW f \in Nat, \A j \in 0 .. f - 1 : Bit(c, j), ~Bit(c, f)
    PROVE  /\ \A k \in 0 .. f : Edge(c + 1, k) = c + 1
           /\ \A k \in 0 .. f - 1 : ~Bit(c + 1, k)
           /\ Bit(c + 1, f)
           /\ (c + 1) \div Power(f + 1) = c \div Power(f + 1)
<1>1. ASSUME NEW k \in 0 .. f
      PROVE  Edge(c + 1, k) = c + 1 /\ (Bit(c + 1, k) <=> ~Bit(c, k))
  <2>1. PICK p \in Nat \ {0} : p = Power(k)
    BY PowerIs
  <2>2. PICK q \in Nat, r \in 0 .. p - 1 : q = c \div p /\ c = q * p + r
    BY Divided
  <2>3. c + 1 = q * p + p
    BY <2>1, <2>2, LowOnes DEF Edge
  <2>4. (q + 1) * p = q * p + p
    OBVIOUS
  <2>5. (c + 1) \div p = q + 1
    <3>1. c + 1 = (q + 1) * p + 0 /\ c + 1 \in Nat /\ q + 1 \in Nat /\ 0 \in 0 .. p - 1
      BY <2>3, <2>4
    <3> QED
      BY ONLY <3>1, p \in Nat \ {0}, Quotient
  <2>6. Edge(c + 1, k) = c + 1
    BY <2>1, <2>3, <2>4, <2>5 DEF Edge
  <2>7. (q + 1) % 2 = 1 <=> ~(q % 2 = 1)
    OBVIOUS
  <2> QED
    BY <2>1, <2>2, <2>5, <2>6, <2>7 DEF Bit
<1>2. (c + 1) \div Power(f + 1) = c \div Power(f + 1)
  <2>1. PICK p \in Nat \ {0} : p = Power(f) /\ Power(f + 1) = 2 * p
    BY PowerIs
  <2>2. PICK q \in Nat : q = c \div p
    BY Divided
  <2>3. c + 1 = q * p + p
    <3>1. c + 1 = Edge(c, f) + Power(f)
      BY f \in 0 .. f, LowOnes
    <3> QED
      BY <2>1, <2>2, <3>1 DEF Edge
  <2>4. PICK h \in Nat : q = 2 * h
    <3>1. q % 2 # 1
      BY <2>1, <2>2 DEF Bit
    <3>2. q = 2 * (q \div 2) /\ q \div 2 \in Nat
      BY <3>1
    <3> QED
      BY <3>2
  <2>5. q * p = h * (2 * p)
    BY ONLY <2>4, h \in Nat, p \in Nat
  <2>6. c + 1 = h * (2 * p) + p /\ c = h * (2 * p) + (p - 1)
    <3>1. h * (2 * p) \in Nat
      OBVIOUS
    <3> QED
      BY <2>3, <2>5, <3>1
  <2>7. 2 * p \in Nat \ {0} /\ p \in 0 .. 2 * p - 1 /\ p - 1 \in 0 .. 2 * p - 1 /\ c + 1 \in Nat
    OBVIOUS
  <2>8. (c + 1) \div (2 * p) = h
    BY ONLY <2>6, <2>7, h \in Nat, Quotient
  <2>9. c \div (2 * p) = h
    BY ONLY <2>6, <2>7, h \in Nat, c \in Nat, Quotient
  <2> QED
    BY <2>1, <2>8, <2>9
<1> QED
  BY <1>1, <1>2

\* Above, nothing changes.
LEMMA SameAbove ==
    ASSUME NEW c \in Nat, NEW f \in Nat, (c + 1) \div Power(f) = c \div Power(f)
    PROVE  \A k \in Nat : f <= k =>
             /\ (c + 1) \div Power(k) = c \div Power(k)
             /\ Edge(c + 1, k) = Edge(c, k)
             /\ Bit(c + 1, k) <=> Bit(c, k)
<1> DEFINE Same(k) == (c + 1) \div Power(k) = c \div Power(k)
           T == {k \in Nat : f <= k /\ ~Same(k)}
<1>1. T = {}
  <2> SUFFICES ASSUME T # {} PROVE FALSE
    OBVIOUS
  <2>1. PICK k \in T : \A g \in T : k <= g
    <3>1. T \subseteq Nat
      OBVIOUS
    <3> HIDE DEF T
    <3> QED
      BY <3>1, LeastOf
  <2>2. k \in Nat /\ f < k /\ ~Same(k)
    <3>1. k \in Nat /\ f <= k /\ ~Same(k)
      OBVIOUS
    <3> QED
      BY <3>1
  <2>3. PICK g \in Nat : g = k - 1
    BY <2>2
  <2>4. f <= g /\ ~(k <= g) /\ g + 1 = k
    BY <2>2, <2>3
  <2>5. Same(g)
    BY <2>1, <2>4
  <2>6. PICK p \in Nat \ {0} : p = Power(g) /\ Power(k) = 2 * p
    BY <2>4, PowerIs
  <2>7. c \div (2 * p) = (c \div p) \div 2
    BY Halves
  <2>8. (c + 1) \div (2 * p) = ((c + 1) \div p) \div 2
    BY c + 1 \in Nat, Halves
  <2> QED
    BY <2>2, <2>5, <2>6, <2>7, <2>8
<1>2. \A k \in Nat : f <= k => Same(k)
  BY <1>1
<1> QED
  BY <1>2 DEF Edge, Bit

\* What is pending when the leaves d have been added: a node per bit of their number,
\* over the block of leaves for this bit.
PendingOf(d, c, pend) ==
    /\ Len(pend) \in Nat /\ c \div Power(Len(pend)) = 0
    /\ \A k \in 1 .. Len(pend) :
         pend[k] = IF Bit(c, k - 1) THEN Hash(d, Edge(c, k), Edge(c, k - 1)) ELSE NoNode

LEMMA PendingBits ==
    ASSUME NEW d, NEW c \in Nat, c = Len(d), NEW pend, PendingOf(d, c, pend), NEW k \in 1 .. Len(pend)
    PROVE  pend[k] # NoNode <=> Bit(c, k - 1)
<1>1. PICK g \in Nat : g = k - 1 /\ g + 1 = k
  BY DEF PendingOf
<1>2. CASE Bit(c, g)
  <2>1. PICK p \in Nat \ {0} : p = Power(g)
    BY PowerIs
  <2>2. Edge(c, g) = Edge(c, k) + p /\ Edge(c, g) <= c
    BY <1>1, <1>2, <2>1, EdgeIs
  <2>3. Edge(c, g) \in Nat /\ Edge(c, k) \in Nat
    BY <1>1, k \in Nat, EdgeIs
  <2>4. Edge(c, k) < Edge(c, g)
    BY <2>2, <2>3
  <2>5. Hash(d, Edge(c, k), Edge(c, g)) # NoNode
    BY <2>2, <2>3, <2>4, HashIsNode
  <2> QED
    BY <1>1, <1>2, <2>5 DEF PendingOf
<1>3. CASE ~Bit(c, g)
  BY <1>1, <1>3 DEF PendingOf
<1> QED
  BY <1>1, <1>2, <1>3

\* What is added goes up through the pending nodes below the first free level.
NodesTo(leaf, pend, f, node) ==
    node = [k \in 0 .. f |-> IF k = 0 THEN LeafHash(leaf) ELSE NodeHash(pend[k], node[k - 1])]

LEMMA NodesExist ==
    ASSUME NEW leaf, NEW pend
    PROVE  \A f \in Nat : \E node : NodesTo(leaf, pend, f, node)
<1> DEFINE T == {f \in Nat : ~ \E node : NodesTo(leaf, pend, f, node)}
<1> SUFFICES ASSUME T # {} PROVE FALSE
  OBVIOUS
<1>1. PICK f \in T : \A m \in T : f <= m
  BY LeastOf
<1>2. f # 0
  <2>1. NodesTo(leaf, pend, 0, [k \in 0 .. 0 |-> LeafHash(leaf)])
    BY DEF NodesTo
  <2> QED
    BY <2>1
<1>3. f \in Nat /\ f - 1 \in Nat /\ ~(f <= f - 1)
  BY <1>2
<1>4. PICK below : NodesTo(leaf, pend, f - 1, below)
  BY <1>1, <1>3
<1> DEFINE node == [k \in 0 .. f |-> IF k < f THEN below[k] ELSE NodeHash(pend[f], below[f - 1])]
<1>5. DOMAIN node = 0 .. f /\ node = [k \in 0 .. f |-> node[k]]
  OBVIOUS
<1>6. \A k \in 0 .. f - 1 : k \in 0 .. f /\ node[k] = below[k]
  BY <1>3
<1>7. \A k \in 0 .. f - 1 :
        below[k] = IF k = 0 THEN LeafHash(leaf) ELSE NodeHash(pend[k], below[k - 1])
  BY <1>4 DEF NodesTo
<1>8. node[f] = NodeHash(pend[f], below[f - 1])
  BY <1>3
<1> HIDE DEF node
<1>9. ASSUME NEW k \in 1 .. f PROVE below[k - 1] = node[k - 1]
  <2>1. k - 1 \in 0 .. f - 1
    BY <1>3
  <2> QED
    BY <1>6, <2>1
<1>10. ASSUME NEW k \in 0 .. f
       PROVE  node[k] = IF k = 0 THEN LeafHash(leaf) ELSE NodeHash(pend[k], node[k - 1])
  <2>1. CASE k = f
    <3>1. k \in 1 .. f
      BY <1>2, <1>3, <2>1
    <3> QED
      BY <1>2, <1>8, <1>9, <2>1, <3>1
  <2>2. CASE k # f
    <3>1. k \in 0 .. f - 1 /\ (k # 0 => k \in 1 .. f)
      BY <1>3, <2>2
    <3> QED
      BY <1>6, <1>7, <1>9, <3>1
  <2> QED
    BY <2>1, <2>2
<1>11. NodesTo(leaf, pend, f, node)
  BY <1>5, <1>10 DEF NodesTo
<1> QED
  BY <1>11

\* One leaf more, and the hashes of the others stay.
LEMMA HashGrows ==
    ASSUME NEW d, NEW c \in Nat, c = Len(d), NEW e, Len(e) = c + 1,
           \A i \in 1 .. c : e[i] = d[i],
           NEW lo \in Nat, NEW hi \in Nat, lo < hi, hi <= c
    PROVE  Hash(d, lo, hi) = Hash(e, lo, hi)
<1>1. PICK m \in Nat : m = Len(e) /\ c <= m
  OBVIOUS
<1>2. c <= c /\ \A i \in 1 .. c : d[i] = e[i]
  OBVIOUS
<1> QED
  BY <1>1, <1>2, HashAgrees

\* With every node it passes, what goes up covers the leaves of that node too.
LEMMA NodesAlong ==
    ASSUME NEW d, NEW c \in Nat, c = Len(d), NEW e, Len(e) = c + 1,
           \A i \in 1 .. c : e[i] = d[i],
           NEW pend, PendingOf(d, c, pend), NEW f \in Nat, f <= Len(pend),
           \A j \in 0 .. f - 1 : Bit(c, j),
           NEW node, NodesTo(e[c + 1], pend, f, node)
    PROVE  \A k \in 0 .. f : node[k] = Hash(e, Edge(c, k), c + 1)
<1>0. /\ node[0] = LeafHash(e[c + 1])
      /\ \A k \in 1 .. f : node[k] = NodeHash(pend[k], node[k - 1])
  <2>1. 0 \in 0 .. f /\ \A k \in 1 .. f : k \in 0 .. f /\ k # 0
    OBVIOUS
  <2> QED
    BY <2>1 DEF NodesTo
<1> DEFINE Done(k) == node[k] = Hash(e, Edge(c, k), c + 1)
           T == {k \in 0 .. f : ~Done(k)}
<1> SUFFICES ASSUME T # {} PROVE FALSE
  OBVIOUS
<1>1. PICK k \in T : \A g \in T : k <= g
  <2>1. T \subseteq Nat
    OBVIOUS
  <2> HIDE DEF T
  <2> QED
    BY <2>1, LeastOf
<1>2. k \in 0 .. f /\ ~Done(k) /\ k \in Nat /\ c + 1 \in Nat
  OBVIOUS
<1>3. CASE k = 0
  <2>1. Edge(c, 0) = c
    BY EdgeIs
  <2>2. Hash(e, c, c + 1) = LeafHash(e[c + 1])
    BY <1>2, c \in 0 .. (c + 1) - 1, HashLeaf
  <2> QED
    BY <1>0, <1>2, <1>3, <2>1, <2>2
<1>4. CASE k # 0
  <2>1. PICK g \in Nat : g = k - 1
    BY <1>2, <1>4
  <2>2. g \in 0 .. f - 1 /\ g \in 0 .. f /\ ~(k <= g) /\ g + 1 = k /\ k \in 1 .. f
    BY <1>2, <1>4, <2>1
  <2>3. node[g] = Hash(e, Edge(c, g), c + 1)
    BY <1>1, <2>2
  <2>4. PICK p \in Nat \ {0} : p = Power(g) /\ Power(k) = 2 * p
    BY <2>2, PowerIs
  <2>5. PICK s \in Nat : s = Edge(c, g) /\ s <= c
    BY EdgeIs
  <2>6. PICK t \in Nat : t = Edge(c, k)
    BY <1>2, EdgeIs
  <2>7. Bit(c, g) /\ s = t + p
    <3>1. Bit(c, g)
      BY <2>2
    <3>2. Edge(c, g) = Edge(c, g + 1) + Power(g)
      BY <3>1, EdgeIs
    <3> QED
      BY <2>2, <2>4, <2>5, <2>6, <3>1, <3>2
  <2>8. c + 1 = t + 2 * p
    <3>1. c + 1 = Edge(c, k) + Power(k)
      BY <1>2, LowOnes
    <3> QED
      BY <2>4, <2>6, <3>1
  <2>9. pend[k] = Hash(e, t, s)
    <3>1. k \in 1 .. Len(pend)
      BY <2>2 DEF PendingOf
    <3>2. pend[k] = Hash(d, t, s)
      BY <2>1, <2>5, <2>6, <2>7, <3>1 DEF PendingOf
    <3>3. t < s /\ s <= c
      BY <2>5, <2>7
    <3>4. Hash(d, t, s) = Hash(e, t, s)
      BY ONLY <3>3, c \in Nat, c = Len(d), Len(e) = c + 1, \A i \in 1 .. c : e[i] = d[i],
              s \in Nat, t \in Nat, HashGrows
    <3> QED
      BY <3>2, <3>4
  <2>10. Hash(e, t, c + 1) = NodeHash(Hash(e, t, s), Hash(e, s, c + 1))
    <3>1. p < (c + 1) - t /\ (c + 1) - t <= 2 * p /\ c + 1 <= c + 1
      BY <2>8
    <3> QED
      BY ONLY <1>2, <2>2, <2>4, <2>7, <3>1, Len(e) = c + 1, t \in Nat, c \in Nat, g \in Nat,
              HashJoins
  <2>11. node[k] = NodeHash(pend[k], node[g])
    BY <1>0, <2>1, <2>2
  <2> QED
    BY <1>2, <2>3, <2>5, <2>6, <2>9, <2>10, <2>11
<1> QED
  BY <1>3, <1>4

\* It comes to lie on the first free level, and the levels below it are free now.
Placed(pend, f, node, next) ==
    LET m == IF f + 1 > Len(pend) THEN f + 1 ELSE Len(pend)
    IN  /\ Len(next) = m
        /\ \A k \in 1 .. m :
             next[k] = IF k < f + 1 THEN NoNode ELSE IF k = f + 1 THEN node[f] ELSE pend[k]

LEMMA PendingAfter ==
    ASSUME NEW d, NEW c \in Nat, c = Len(d), NEW e, Len(e) = c + 1,
           \A i \in 1 .. c : e[i] = d[i],
           NEW pend, PendingOf(d, c, pend), NEW f \in Nat, f <= Len(pend),
           \A j \in 0 .. f - 1 : Bit(c, j), ~Bit(c, f),
           NEW node, NodesTo(e[c + 1], pend, f, node),
           NEW next, Placed(pend, f, node, next)
    PROVE  PendingOf(e, c + 1, next)
<1>1. /\ \A k \in 0 .. f : Edge(c + 1, k) = c + 1
      /\ \A k \in 0 .. f - 1 : ~Bit(c + 1, k)
      /\ Bit(c + 1, f)
      /\ (c + 1) \div Power(f + 1) = c \div Power(f + 1)
  BY OneMore
<1>2. \A k \in Nat : f + 1 <= k =>
        /\ (c + 1) \div Power(k) = c \div Power(k)
        /\ Edge(c + 1, k) = Edge(c, k)
        /\ Bit(c + 1, k) <=> Bit(c, k)
  BY <1>1, f + 1 \in Nat, SameAbove
<1>3. Edge(c, f) = Edge(c, f + 1)
  BY EdgeIs
<1>4. node[f] = Hash(e, Edge(c, f), c + 1)
  <2>1. \A k \in 0 .. f : node[k] = Hash(e, Edge(c, k), c + 1)
    BY ONLY c \in Nat, c = Len(d), Len(e) = c + 1, \A i \in 1 .. c : e[i] = d[i],
            PendingOf(d, c, pend), f \in Nat, f <= Len(pend), \A j \in 0 .. f - 1 : Bit(c, j),
            NodesTo(e[c + 1], pend, f, node), NodesAlong
  <2> QED
    BY <2>1
<1>5. PICK l \in Nat : l = Len(pend) /\ c \div Power(l) = 0
  BY DEF PendingOf
<1>6. PICK m \in Nat :
        /\ m = IF f + 1 > Len(pend) THEN f + 1 ELSE Len(pend)
        /\ Len(next) = m
        /\ \A k \in 1 .. m :
             next[k] = IF k < f + 1 THEN NoNode ELSE IF k = f + 1 THEN node[f] ELSE pend[k]
  <2> DEFINE most == IF f + 1 > Len(pend) THEN f + 1 ELSE Len(pend)
  <2>1. most \in Nat
    BY <1>5
  <2>2. /\ Len(next) = most
        /\ \A k \in 1 .. most :
             next[k] = IF k < f + 1 THEN NoNode ELSE IF k = f + 1 THEN node[f] ELSE pend[k]
    BY Zenon DEF Placed
  <2>3. PICK m \in Nat : m = most
    BY <2>1
  <2> QED
    BY <2>2, <2>3, Zenon
<1>7. (c + 1) \div Power(m) = 0
  <2>1. CASE m = f + 1
    <3>1. l = f \/ l = f + 1
      BY <1>6, <1>5, <2>1
    <3>2. CASE l = f
      <4>1. PICK p \in Nat \ {0} : p = Power(f) /\ Power(f + 1) = 2 * p
        BY PowerIs
      <4>2. c \div (2 * p) = (c \div p) \div 2
        BY Halves
      <4>3. 0 \div 2 = 0
        OBVIOUS
      <4> QED
        BY <1>1, <1>5, <2>1, <3>2, <4>1, <4>2, <4>3
    <3>3. CASE l = f + 1
      BY <1>1, <1>5, <2>1, <3>3
    <3> QED
      BY <3>1, <3>2, <3>3
  <2>2. CASE m # f + 1
    <3>1. m = l /\ f + 1 <= m
      BY <1>6, <1>5, <2>2
    <3> QED
      BY <1>2, <1>5, <3>1
  <2> QED
    BY <2>1, <2>2
<1>8. ASSUME NEW k \in 1 .. m
      PROVE  next[k] = IF Bit(c + 1, k - 1) THEN Hash(e, Edge(c + 1, k), Edge(c + 1, k - 1))
                       ELSE NoNode
  <2>1. CASE k < f + 1
    <3>1. k - 1 \in 0 .. f - 1
      BY <2>1
    <3>2. ~Bit(c + 1, k - 1)
      BY <1>1, <3>1
    <3> QED
      BY <1>6, <2>1, <3>2
  <2>2. CASE k = f + 1
    <3>1. k - 1 = f /\ f \in 0 .. f /\ k \in Nat /\ f + 1 <= k
      BY <2>2
    <3>2. Edge(c + 1, f) = c + 1 /\ Edge(c + 1, k) = Edge(c, f)
      BY <1>1, <1>2, <1>3, <2>2, <3>1
    <3>3. next[k] = node[f]
      BY <1>6, <2>2
    <3> QED
      BY <1>1, <1>4, <3>1, <3>2, <3>3
  <2>3. CASE f + 1 < k
    <3>1. PICK g \in Nat : g = k - 1 /\ g + 1 = k /\ f + 1 <= g /\ k \in Nat /\ f + 1 <= k
      BY <2>3
    <3>2. k \in 1 .. Len(pend)
      BY <1>6, <1>5, <2>3
    <3>3. next[k] = IF Bit(c, g) THEN Hash(d, Edge(c, k), Edge(c, g)) ELSE NoNode
      <4>1. next[k] = pend[k]
        BY <1>6, <2>3
      <4> QED
        BY <3>1, <3>2, <4>1 DEF PendingOf
    <3>4. /\ Edge(c + 1, k) = Edge(c, k) /\ Edge(c + 1, g) = Edge(c, g)
          /\ Bit(c + 1, g) <=> Bit(c, g)
      BY <1>2, <3>1
    <3>5. ASSUME Bit(c, g)
          PROVE  Hash(d, Edge(c, k), Edge(c, g)) = Hash(e, Edge(c, k), Edge(c, g))
      <4>1. PICK p \in Nat \ {0} : p = Power(g)
        BY PowerIs
      <4>2. PICK s \in Nat : s = Edge(c, g) /\ s <= c
        BY EdgeIs
      <4>3. PICK t \in Nat : t = Edge(c, k)
        BY <3>1, EdgeIs
      <4>4. Edge(c, g) = Edge(c, g + 1) + Power(g)
        BY <3>5, EdgeIs
      <4>5. t < s
        BY <3>1, <4>1, <4>2, <4>3, <4>4
      <4>6. Hash(d, t, s) = Hash(e, t, s)
        BY ONLY <4>2, <4>5, c \in Nat, c = Len(d), Len(e) = c + 1, \A i \in 1 .. c : e[i] = d[i],
                s \in Nat, t \in Nat, HashGrows
      <4> QED
        BY <4>2, <4>3, <4>6
    <3> QED
      BY <3>1, <3>3, <3>4, <3>5
  <2> QED
    BY <2>1, <2>2, <2>3
<1> QED
  BY <1>6, <1>7, <1>8 DEF PendingOf

-------------------------------------------------------------------------------
(* The builder's root.                                                      *)

CarriesTo(pend, n, carry) ==
    carry = [k \in 0 .. n |->
               IF k = 0 THEN NoNode
               ELSE IF pend[k] = NoNode THEN carry[k - 1]
               ELSE Merged(pend[k], carry[k - 1])]

LEMMA CarriesExist ==
    ASSUME NEW pend
    PROVE  \A n \in Nat : \E carry : CarriesTo(pend, n, carry)
<1> DEFINE T == {n \in Nat : ~ \E carry : CarriesTo(pend, n, carry)}
           Next(f, k) == IF pend[k] = NoNode THEN f[k - 1] ELSE Merged(pend[k], f[k - 1])
<1> SUFFICES ASSUME T # {} PROVE FALSE
  OBVIOUS
<1>1. PICK n \in T : \A m \in T : n <= m
  BY LeastOf
<1>2. n # 0
  <2>1. CarriesTo(pend, 0, [k \in 0 .. 0 |-> NoNode])
    BY DEF CarriesTo
  <2> QED
    BY <2>1
<1>3. n \in Nat /\ n - 1 \in Nat /\ ~(n <= n - 1)
  BY <1>2
<1>4. PICK below : CarriesTo(pend, n - 1, below)
  BY <1>1, <1>3
<1> DEFINE carry == [k \in 0 .. n |-> IF k < n THEN below[k] ELSE Next(below, n)]
<1>5. DOMAIN carry = 0 .. n /\ carry = [k \in 0 .. n |-> carry[k]]
  OBVIOUS
<1>6. \A k \in 0 .. n - 1 : k \in 0 .. n /\ carry[k] = below[k]
  BY <1>3
<1>7. \A k \in 0 .. n - 1 : below[k] = IF k = 0 THEN NoNode ELSE Next(below, k)
  BY <1>4 DEF CarriesTo
<1>8. carry[n] = Next(below, n)
  BY <1>3
<1> HIDE DEF carry
<1>9. ASSUME NEW k \in 1 .. n PROVE Next(below, k) = Next(carry, k)
  <2>1. k - 1 \in 0 .. n - 1
    BY <1>3
  <2>2. carry[k - 1] = below[k - 1]
    BY <1>6, <2>1
  <2> QED
    BY <2>2
<1> HIDE DEF Next
<1>10. ASSUME NEW k \in 0 .. n
       PROVE  carry[k] = IF k = 0 THEN NoNode ELSE Next(carry, k)
  <2>1. CASE k = n
    <3>1. k \in 1 .. n
      BY <1>2, <1>3, <2>1
    <3> QED
      BY <1>2, <1>8, <1>9, <2>1, <3>1
  <2>2. CASE k # n
    <3>1. k \in 0 .. n - 1 /\ (k # 0 => k \in 1 .. n)
      BY <1>3, <2>2
    <3> QED
      BY <1>6, <1>7, <1>9, <3>1
  <2> QED
    BY <2>1, <2>2
<1>11. CarriesTo(pend, n, carry)
  BY <1>5, <1>10 DEF CarriesTo, Next
<1> QED
  BY <1>11

\* Folded from the smallest up, the pending nodes are the hash of all leaves.
LEMMA PendingRoot ==
    ASSUME NEW d, NEW c \in Nat \ {0}, c = Len(d), NEW pend, PendingOf(d, c, pend),
           NEW carry, CarriesTo(pend, Len(pend), carry)
    PROVE  carry[Len(pend)] = Hash(d, 0, c)
<1>1. PICK n \in Nat : n = Len(pend) /\ c \div Power(n) = 0
  BY DEF PendingOf
<1>2. /\ carry[0] = NoNode
      /\ \A k \in 1 .. n : carry[k] = IF pend[k] = NoNode THEN carry[k - 1]
                                      ELSE Merged(pend[k], carry[k - 1])
  <2>1. 0 \in 0 .. n /\ \A k \in 1 .. n : k \in 0 .. n /\ k # 0
    OBVIOUS
  <2> QED
    BY <1>1, <2>1 DEF CarriesTo
<1> DEFINE T == {k \in 0 .. n : ~Carried(d, c, k, carry[k])}
<1>3. T = {}
  <2> SUFFICES ASSUME T # {} PROVE FALSE
    OBVIOUS
  <2>1. PICK k \in T : \A g \in T : k <= g
    <3>1. T \subseteq Nat
      OBVIOUS
    <3> HIDE DEF T
    <3> QED
      BY <3>1, LeastOf
  <2>2. k \in 0 .. n /\ ~Carried(d, c, k, carry[k])
    OBVIOUS
  <2>3. k # 0
    <3>1. Edge(c, 0) = c
      BY EdgeIs
    <3> QED
      BY <1>2, <2>2, <3>1 DEF Carried
  <2>4. PICK g \in Nat : g = k - 1
    BY <2>2, <2>3
  <2>5. g \in 0 .. n /\ ~(k <= g) /\ g + 1 = k /\ k \in 1 .. n
    BY <2>2, <2>3, <2>4
  <2>6. Carried(d, c, g, carry[g])
    BY <2>1, <2>5
  <2>7. c \in Nat /\ c <= c
    OBVIOUS
  <2>8. /\ ~Bit(c, g) => Carried(d, c, g + 1, carry[g])
        /\ Bit(c, g) =>
             Carried(d, c, g + 1, Merged(Hash(d, Edge(c, g + 1), Edge(c, g)), carry[g]))
    BY <2>6, <2>7, CarryOn
  <2>9. pend[k] # NoNode <=> Bit(c, g)
    BY <1>1, <2>4, <2>5, PendingBits
  <2>10. carry[k] = IF pend[k] = NoNode THEN carry[g] ELSE Merged(pend[k], carry[g])
    BY <1>2, <2>4, <2>5
  <2>11. Bit(c, g) => pend[k] = Hash(d, Edge(c, k), Edge(c, g))
    BY <1>1, <2>4, <2>5 DEF PendingOf
  <2>12. CASE Bit(c, g)
    BY <2>2, <2>5, <2>8, <2>9, <2>10, <2>11, <2>12
  <2>13. CASE ~Bit(c, g)
    BY <2>2, <2>5, <2>8, <2>9, <2>10, <2>13
  <2> QED
    BY <2>12, <2>13
<1>4. Carried(d, c, n, carry[n])
  BY <1>3
<1> QED
  BY <1>1, <1>4, CarriedAll

\* The step of the code: the first free level, and what has gone up to it.
LEMMA AddStep ==
    ASSUME NEW leaf, Add(leaf), Len(pending) \in Nat
    PROVE  \E f \in Nat : \E node :
             /\ f <= Len(pending) /\ NodesTo(leaf, pending, f, node)
             /\ f < Len(pending) => pending[f + 1] = NoNode
             /\ \A j \in 1 .. f : pending[j] # NoNode
             /\ pending' = [k \in 1 .. IF f + 1 > Len(pending) THEN f + 1 ELSE Len(pending) |->
                              IF k < f + 1 THEN NoNode ELSE IF k = f + 1 THEN node[f]
                              ELSE pending[k]]
<1> DEFINE Free(k) == /\ k > Len(pending) \/ pending[k] = NoNode
                      /\ \A j \in 1 .. k - 1 : pending[j] # NoNode
           free == CHOOSE k \in 1 .. Len(pending) + 1 : Free(k)
           node == CHOOSE node : node = [k \in 0 .. free - 1 |->
                     IF k = 0 THEN LeafHash(leaf) ELSE NodeHash(pending[k], node[k - 1])]
<1>1. pending' = [k \in 1 .. IF free > Len(pending) THEN free ELSE Len(pending) |->
                    IF k < free THEN NoNode ELSE IF k = free THEN node[free - 1]
                    ELSE pending[k]]
  BY DEF Add
<1>2. \E k \in 1 .. Len(pending) + 1 : Free(k)
  <2> DEFINE T == {k \in 1 .. Len(pending) + 1 : k > Len(pending) \/ pending[k] = NoNode}
  <2>1. T \subseteq Nat /\ Len(pending) + 1 \in T
    OBVIOUS
  <2>2. PICK k \in T : \A g \in T : k <= g
    <3> HIDE DEF T
    <3> QED
      BY <2>1, LeastOf
  <2>3. ASSUME NEW j \in 1 .. k - 1 PROVE pending[j] # NoNode
    <3>1. j \in 1 .. Len(pending) + 1 /\ ~(k <= j)
      OBVIOUS
    <3>2. j \notin T
      <4> HIDE DEF T
      <4> QED
        BY <2>2, <3>1
    <3> QED
      BY <3>1, <3>2
  <2> QED
    BY <2>3
<1>3. free \in 1 .. Len(pending) + 1 /\ Free(free)
  <2> HIDE DEF Free
  <2> QED
    BY <1>2
<1> HIDE DEF free
<1>4. PICK f \in Nat : f = free - 1 /\ f + 1 = free
  BY <1>3
<1>5. NodesTo(leaf, pending, f, node)
  <2>1. PICK other : NodesTo(leaf, pending, f, other)
    BY NodesExist
  <2>2. other = [k \in 0 .. free - 1 |->
                  IF k = 0 THEN LeafHash(leaf) ELSE NodeHash(pending[k], other[k - 1])]
    BY <1>4, <2>1 DEF NodesTo
  <2>3. node = [k \in 0 .. free - 1 |->
                 IF k = 0 THEN LeafHash(leaf) ELSE NodeHash(pending[k], node[k - 1])]
    BY <2>2
  <2> QED
    BY <1>4, <2>3 DEF NodesTo
<1> HIDE DEF node
<1>6. f <= Len(pending) /\ (f < Len(pending) => pending[f + 1] = NoNode)
  BY <1>3, <1>4
<1>7. \A j \in 1 .. f : pending[j] # NoNode
  BY <1>3, <1>4
<1>8. pending' = [k \in 1 .. IF f + 1 > Len(pending) THEN f + 1 ELSE Len(pending) |->
                    IF k < f + 1 THEN NoNode ELSE IF k = f + 1 THEN node[f] ELSE pending[k]]
  BY <1>1, <1>4
<1> HIDE DEF Free
<1> QED
  BY ONLY f \in Nat, <1>5, <1>6, <1>7, <1>8, Zenon

\* The leaves so far, and their nodes.
Pending ==
    /\ added \in Seq(FileDigests) /\ Len(added) <= MaxLeaves
    /\ PendingOf(added, Len(added), pending)

LEMMA PendingInit == BuilderInit => Pending
<1> SUFFICES ASSUME BuilderInit PROVE Pending
  OBVIOUS
<1>1. added = <<>> /\ pending = <<>> /\ Len(<<>>) = 0
  BY DEF BuilderInit
<1>2. 0 \div 1 = 0
  OBVIOUS
<1>3. PendingOf(added, Len(added), pending)
  BY <1>1, <1>2, PowerIs DEF PendingOf
<1> QED
  BY <1>1, <1>3, MerkleAssumption DEF Pending

LEMMA PendingStep ==
    ASSUME Pending, NEW leaf \in FileDigests, Add(leaf)
    PROVE  Pending'
<1>1. PICK c \in Nat : c = Len(added)
  BY LenProperties DEF Pending
<1>2. Len(added) < MaxLeaves /\ added' = Append(added, leaf)
  BY Zenon DEF Add
<1>3. /\ added' \in Seq(FileDigests) /\ Len(added') = c + 1
      /\ \A i \in 1 .. c : added'[i] = added[i]
      /\ added'[c + 1] = leaf
  BY <1>1, <1>2, AppendProperties DEF Pending
<1>4. PICK l \in Nat : l = Len(pending) /\ PendingOf(added, c, pending) /\ c \div Power(l) = 0
  BY <1>1 DEF Pending, PendingOf
<1>5. PICK f \in Nat : \E node :
        /\ f <= l /\ NodesTo(leaf, pending, f, node)
        /\ f < l => pending[f + 1] = NoNode
        /\ \A j \in 1 .. f : pending[j] # NoNode
        /\ pending' = [k \in 1 .. IF f + 1 > l THEN f + 1 ELSE l |->
                         IF k < f + 1 THEN NoNode ELSE IF k = f + 1 THEN node[f]
                         ELSE pending[k]]
  BY <1>4, AddStep
<1>6. PICK node :
        /\ f <= l /\ NodesTo(leaf, pending, f, node)
        /\ f < l => pending[f + 1] = NoNode
        /\ \A j \in 1 .. f : pending[j] # NoNode
        /\ pending' = [k \in 1 .. IF f + 1 > l THEN f + 1 ELSE l |->
                         IF k < f + 1 THEN NoNode ELSE IF k = f + 1 THEN node[f]
                         ELSE pending[k]]
  BY <1>5
<1>7. ASSUME NEW j \in 0 .. f - 1 PROVE Bit(c, j)
  <2>1. j + 1 \in 1 .. Len(pending) /\ j + 1 \in 1 .. f /\ (j + 1) - 1 = j
    BY <1>4, <1>6
  <2>2. pending[j + 1] # NoNode
    BY <1>6, <2>1
  <2> QED
    BY <1>1, <1>4, <2>1, <2>2, PendingBits
<1>8. ~Bit(c, f)
  <2>1. CASE f < l
    <3>1. f + 1 \in 1 .. Len(pending) /\ (f + 1) - 1 = f
      BY <1>4, <2>1
    <3> QED
      BY <1>1, <1>4, <1>6, <2>1, <3>1, PendingBits
  <2>2. CASE f = l
    <3>1. 0 % 2 # 1
      OBVIOUS
    <3> QED
      BY <1>4, <2>2, <3>1 DEF Bit
  <2> QED
    BY <1>6, <2>1, <2>2
<1>9. Placed(pending, f, node, pending')
  BY <1>4, <1>6 DEF Placed
<1>10. PendingOf(added', c + 1, pending')
  <2>1. PICK e, next : e = added' /\ next = pending'
    OBVIOUS
  <2>2. /\ c = Len(added) /\ Len(e) = c + 1 /\ \A i \in 1 .. c : e[i] = added[i]
        /\ PendingOf(added, c, pending) /\ f <= Len(pending)
        /\ \A k \in 0 .. f - 1 : Bit(c, k)
        /\ NodesTo(e[c + 1], pending, f, node)
        /\ Placed(pending, f, node, next)
    BY <1>1, <1>3, <1>4, <1>6, <1>7, <1>9, <2>1
  <2>3. PendingOf(e, c + 1, next)
    BY ONLY <1>8, <2>2, c \in Nat, f \in Nat, PendingAfter
  <2> QED
    BY <2>1, <2>3
<1>11. Len(added') <= MaxLeaves
  BY <1>1, <1>2, <1>3, MerkleAssumption
<1> QED
  BY <1>3, <1>10, <1>11, Zenon DEF Pending

\* Of any number of leaves: MerkleRootBuilder's pending nodes stand at the set bits of
\* their number, and folded up they give the root of RFC 6962, which is the tree's
\* root too, and so at every earlier size that root_at can answer for.
THEOREM BuilderAlwaysRFC6962 ==
    BuilderSpec => []BuilderInv
<1>1. BuilderInit => Pending
  BY PendingInit
<1>2. Pending /\ [BuilderNext]_builderVars => Pending'
  <2>1. Pending /\ UNCHANGED builderVars => Pending'
    BY DEF builderVars, Pending
  <2> QED
    BY <2>1, PendingStep DEF BuilderNext
<1>3. Pending => BuilderInv
  <2> SUFFICES ASSUME Pending PROVE BuilderInv
    OBVIOUS
  <2>1. PICK c \in Nat : c = Len(added) /\ PendingOf(added, c, pending)
    BY LenProperties DEF Pending
  <2>2. BuilderTypeOK
    BY <2>1, PendingBits DEF BuilderTypeOK, Pending
  <2>3. ASSUME added # <<>> PROVE BuilderRoot = MTH(added)
    <3>1. c # 0
      BY <2>1, <2>3, EmptySeq DEF Pending
    <3> DEFINE carry == CHOOSE carry : carry = [k \in 0 .. Len(pending) |->
                          IF k = 0 THEN NoNode
                          ELSE IF pending[k] = NoNode THEN carry[k - 1]
                          ELSE Merged(pending[k], carry[k - 1])]
    <3>2. BuilderRoot = carry[Len(pending)]
      BY DEF BuilderRoot
    <3>3. CarriesTo(pending, Len(pending), carry)
      <4>1. PICK other : CarriesTo(pending, Len(pending), other)
        BY <2>1, CarriesExist DEF PendingOf
      <4> QED
        BY <4>1 DEF CarriesTo
    <3> HIDE DEF carry
    <3>4. carry[Len(pending)] = Hash(added, 0, c)
      BY <2>1, <3>1, <3>3, PendingRoot
    <3>5. MTH(added) = Hash(added, 0, c)
      BY <2>1, <3>1, HashAll
    <3> QED
      BY <3>2, <3>4, <3>5
  <2>4. added # <<>> =>
          /\ Root(added) = MTH(added)
          /\ \A m \in Sizes : RootAt(added, m) = MTH(Prefix(m))
    BY RootsAre DEF Pending, Sizes, Prefix
  <2> QED
    BY <2>2, <2>3, <2>4 DEF BuilderInv, RootsAreRFC6962
<1> QED
  BY <1>1, <1>2, <1>3, PTL DEF BuilderSpec

-------------------------------------------------------------------------------
(* Consistency: the bits of two sizes.                                      *)

\* Shifts add up.
LEMMA Shifts ==
    ASSUME NEW c \in Nat, NEW g \in Nat
    PROVE  \A k \in Nat : /\ (c \div Power(g)) \div Power(k) = c \div Power(g + k)
                          /\ Bit(c \div Power(g), k) <=> Bit(c, g + k)
<1> DEFINE Adds(k) == (c \div Power(g)) \div Power(k) = c \div Power(g + k)
           T == {k \in Nat : ~Adds(k)}
<1>0. PICK q \in Nat : q = c \div Power(g)
  BY PowerIs, Divided
<1>1. T = {}
  <2> SUFFICES ASSUME T # {} PROVE FALSE
    OBVIOUS
  <2>1. PICK k \in T : \A i \in T : k <= i
    BY LeastOf
  <2>2. k \in Nat /\ ~Adds(k)
    OBVIOUS
  <2>3. k # 0
    <3>1. q \div 1 = q /\ g + 0 = g
      OBVIOUS
    <3> QED
      BY <1>0, <2>2, <3>1, PowerIs
  <2>4. PICK i \in Nat : i + 1 = k /\ ~(k <= i) /\ (g + i) + 1 = g + k /\ g + i \in Nat
    <3>1. k - 1 \in Nat /\ (k - 1) + 1 = k /\ ~(k <= k - 1)
      BY <2>2, <2>3
    <3> QED
      BY <3>1
  <2>5. Adds(i)
    BY <2>1, <2>4
  <2>6. PICK p \in Nat \ {0} : p = Power(i) /\ Power(k) = 2 * p
    BY <2>4, PowerIs
  <2>7. PICK r \in Nat \ {0} : r = Power(g + i) /\ Power(g + k) = 2 * r
    BY <2>4, PowerIs
  <2>8. q \div (2 * p) = (q \div p) \div 2
    BY Halves
  <2>9. c \div (2 * r) = (c \div r) \div 2
    BY Halves
  <2> QED
    BY <1>0, <2>2, <2>5, <2>6, <2>7, <2>8, <2>9
<1>2. \A k \in Nat : Adds(k)
  BY <1>1
<1> QED
  BY <1>2 DEF Bit

\* The edges of higher bits are further to the left.
LEMMA EdgesFall ==
    ASSUME NEW c \in Nat, NEW j \in Nat
    PROVE  \A k \in Nat : j <= k => Edge(c, k) <= Edge(c, j)
<1> DEFINE T == {k \in Nat : j <= k /\ ~(Edge(c, k) <= Edge(c, j))}
<1> SUFFICES ASSUME T # {} PROVE FALSE
  OBVIOUS
<1>1. PICK k \in T : \A i \in T : k <= i
  <2>1. T \subseteq Nat
    OBVIOUS
  <2> HIDE DEF T
  <2> QED
    BY <2>1, LeastOf
<1>2. k \in Nat /\ j <= k /\ ~(Edge(c, k) <= Edge(c, j)) /\ Edge(c, j) \in Nat
  BY EdgeIs
<1>3. k # j
  BY <1>2
<1>4. PICK i \in Nat : i + 1 = k /\ ~(k <= i) /\ j <= i
  <2>1. k - 1 \in Nat /\ (k - 1) + 1 = k /\ ~(k <= k - 1) /\ j <= k - 1
    BY <1>2, <1>3
  <2> QED
    BY <2>1
<1>5. Edge(c, i) <= Edge(c, j)
  BY <1>1, <1>4
<1>6. Edge(c, k) <= Edge(c, i)
  <2>1. Edge(c, i) = Edge(c, k) + Power(i) \/ Edge(c, i) = Edge(c, k)
    BY <1>4, EdgeIs
  <2>2. Edge(c, i) \in Nat /\ Edge(c, k) \in Nat /\ Power(i) \in Nat
    BY <1>2, EdgeIs, PowerIs
  <2> QED
    BY <2>1, <2>2
<1> QED
  BY <1>2, <1>5, <1>6, EdgeIs

\* Bits that are not set move no edge, and an edge that does not move has no bit set.
LEMMA EdgeStays ==
    ASSUME NEW c \in Nat, NEW j \in Nat
    PROVE  \A k \in Nat : j <= k =>
             (Edge(c, k) = Edge(c, j) <=> \A i \in j .. k - 1 : ~Bit(c, i))
<1>1. ASSUME NEW k \in Nat, j <= k, Edge(c, k) = Edge(c, j), NEW i \in j .. k - 1
      PROVE  ~Bit(c, i)
  <2>1. i \in Nat /\ i + 1 \in Nat /\ i + 1 <= k /\ j <= i
    BY <1>1
  <2>2. Edge(c, k) <= Edge(c, i + 1) /\ Edge(c, i) <= Edge(c, j)
    BY <1>1, <2>1, EdgesFall
  <2>3. /\ Edge(c, i) \in Nat /\ Edge(c, i + 1) \in Nat /\ Edge(c, k) \in Nat
        /\ Power(i) \in Nat \ {0}
    BY <1>1, <2>1, EdgeIs, PowerIs
  <2>4. Bit(c, i) => Edge(c, i) = Edge(c, i + 1) + Power(i)
    BY <2>1, EdgeIs
  <2> QED
    BY <1>1, <2>2, <2>3, <2>4
<1>2. \A k \in Nat : (j <= k /\ \A i \in j .. k - 1 : ~Bit(c, i)) => Edge(c, k) = Edge(c, j)
  <2> DEFINE T == {k \in Nat : /\ j <= k /\ \A i \in j .. k - 1 : ~Bit(c, i)
                               /\ Edge(c, k) # Edge(c, j)}
  <2> SUFFICES ASSUME T # {} PROVE FALSE
    OBVIOUS
  <2>1. PICK k \in T : \A i \in T : k <= i
    <3>1. T \subseteq Nat
      OBVIOUS
    <3> HIDE DEF T
    <3> QED
      BY <3>1, LeastOf
  <2>2. k \in Nat /\ j <= k /\ (\A i \in j .. k - 1 : ~Bit(c, i)) /\ Edge(c, k) # Edge(c, j)
    OBVIOUS
  <2>3. k # j
    BY <2>2
  <2>4. PICK g \in Nat : g + 1 = k /\ ~(k <= g) /\ j <= g /\ g \in j .. k - 1
    <3>1. k - 1 \in Nat /\ (k - 1) + 1 = k /\ ~(k <= k - 1) /\ j <= k - 1
      BY <2>2, <2>3
    <3> QED
      BY <3>1
  <2>5. \A i \in j .. g - 1 : i \in j .. k - 1
    BY <2>4
  <2>6. \A i \in j .. g - 1 : ~Bit(c, i)
    BY <2>2, <2>5
  <2>7. Edge(c, g) = Edge(c, j)
    BY <2>1, <2>4, <2>6
  <2>8. ~Bit(c, g)
    BY <2>2, <2>4
  <2>9. Edge(c, g) = Edge(c, g + 1)
    BY <2>8, EdgeIs
  <2> QED
    BY <2>2, <2>4, <2>7, <2>9
<1> QED
  BY <1>1, <1>2

\* A number that lies in the first small block of a large one.
LEMMA EdgeLow ==
    ASSUME NEW c \in Nat, NEW j \in Nat, NEW k \in Nat, j <= k, c < Edge(c, k) + Power(j)
    PROVE  Edge(c, j) = Edge(c, k)
<1>1. ASSUME NEW i \in j .. k - 1 PROVE ~Bit(c, i)
  <2>1. i \in Nat /\ i + 1 \in Nat /\ i + 1 <= k /\ j <= i
    OBVIOUS
  <2>2. Edge(c, k) <= Edge(c, i + 1) /\ Edge(c, i) <= c
    BY <2>1, EdgesFall, EdgeIs
  <2>3. /\ Edge(c, i) \in Nat /\ Edge(c, i + 1) \in Nat /\ Edge(c, k) \in Nat
        /\ Power(i) \in Nat /\ Power(j) \in Nat
    BY <2>1, EdgeIs, PowerIs
  <2>4. Power(j) <= Power(i)
    <3>1. CASE j = i
      BY <2>3, <3>1
    <3>2. CASE j < i
      <4>1. 2 * Power(j) <= Power(i)
        BY <2>1, <3>2, PowersGrow
      <4> QED
        BY <2>3, <4>1
    <3> QED
      BY <2>1, <3>1, <3>2
  <2>5. Bit(c, i) => Edge(c, i) = Edge(c, i + 1) + Power(i)
    BY <2>1, EdgeIs
  <2> QED
    BY <2>2, <2>3, <2>4, <2>5
<1> QED
  BY <1>1, EdgeStays

\* A number that is the last one before an edge ends in ones.
LEMMA OnesBefore ==
    ASSUME NEW c \in Nat, NEW h \in Nat, c + 1 = Edge(c, h) + Power(h)
    PROVE  \A k \in 0 .. h - 1 : Bit(c, k)
<1> DEFINE Lowest(k) == c + 1 = Edge(c, k) + Power(k)
<1>1. ASSUME NEW k \in Nat, Lowest(k + 1) PROVE Bit(c, k) /\ Lowest(k)
  <2>1. PICK p \in Nat \ {0} : p = Power(k) /\ Power(k + 1) = 2 * p
    BY PowerIs
  <2>2. Edge(c, k) \in Nat /\ Edge(c, k) <= c /\ c - Edge(c, k) < p
    BY <2>1, EdgeIs
  <2>3. Edge(c, k + 1) \in Nat
    BY k + 1 \in Nat, EdgeIs
  <2>4. /\ Bit(c, k) => Edge(c, k) = Edge(c, k + 1) + p
        /\ ~Bit(c, k) => Edge(c, k) = Edge(c, k + 1)
    BY <2>1, EdgeIs
  <2>5. c + 1 = Edge(c, k + 1) + 2 * p
    BY <1>1, <2>1
  <2> QED
    BY <2>1, <2>2, <2>3, <2>4, <2>5
<1> DEFINE T == {i \in 0 .. h : ~Lowest(h - i)}
<1>2. T = {}
  <2> SUFFICES ASSUME T # {} PROVE FALSE
    OBVIOUS
  <2>1. PICK i \in T : \A g \in T : i <= g
    <3>1. T \subseteq Nat
      OBVIOUS
    <3> HIDE DEF T
    <3> QED
      BY <3>1, LeastOf
  <2>2. i \in 0 .. h /\ ~Lowest(h - i)
    OBVIOUS
  <2>3. i # 0
    <3>1. h - 0 = h
      OBVIOUS
    <3> QED
      BY <2>2, <3>1
  <2>4. i - 1 \in 0 .. h /\ ~(i <= i - 1) /\ h - i \in Nat /\ h - (i - 1) = (h - i) + 1
    BY <2>2, <2>3
  <2>5. Lowest((h - i) + 1)
    <3>1. Lowest(h - (i - 1))
      BY <2>1, <2>4
    <3> QED
      BY <2>4, <3>1
  <2> HIDE DEF Lowest
  <2> QED
    BY <1>1, <2>2, <2>4, <2>5
<1>3. ASSUME NEW k \in 0 .. h - 1 PROVE Bit(c, k)
  <2>1. k \in Nat /\ h - (k + 1) \in 0 .. h /\ h - (h - (k + 1)) = k + 1
    OBVIOUS
  <2>2. Lowest(k + 1)
    BY <1>2, <2>1
  <2> HIDE DEF Lowest
  <2> QED
    BY <1>1, <2>1, <2>2
<1> QED
  BY <1>3

\* How many low bits are equal.
LEMMA LowBitsIs ==
    ASSUME NEW n \in Nat, NEW b \in BOOLEAN
    PROVE  \E t \in Nat : /\ LowBits(n, b) = t
                          /\ \A k \in 0 .. t - 1 : Bit(n, k) = b
                          /\ Bit(n, t) # b \/ n \div Power(t) = 0
<1> DEFINE Ends(t) == Bit(n, t) # b \/ n \div Power(t) = 0
           Is(t) == (\A k \in 0 .. t - 1 : Bit(n, k) = b) /\ Ends(t)
           T == {t \in 0 .. n : Ends(t)}
<1>1. n \in T
  <2>1. PICK p \in Nat \ {0} : p = Power(n)
    BY PowerIs
  <2>2. n \in 0 .. p - 1 /\ n = 0 * p + n
    BY <2>1, PowerAbove
  <2>3. n \div p = 0
    BY ONLY <2>2, n \in Nat, p \in Nat \ {0}, 0 \in Nat, Quotient
  <2> QED
    BY <2>1, <2>3
<1>2. PICK t \in T : \A g \in T : t <= g
  <2>1. T \subseteq Nat /\ T # {}
    BY <1>1
  <2> HIDE DEF T
  <2> QED
    BY <2>1, LeastOf
<1>3. t \in 0 .. n /\ Ends(t)
  OBVIOUS
<1>4. ASSUME NEW k \in 0 .. t - 1 PROVE Bit(n, k) = b
  <2>1. k \in 0 .. n /\ ~(t <= k)
    BY <1>3
  <2>2. ~Ends(k)
    <3> HIDE DEF Ends
    <3> QED
      BY <1>2, <2>1
  <2> QED
    BY <2>2, Zenon
<1>5. \E g \in 0 .. n : Is(g)
  <2> HIDE DEF Ends
  <2> QED
    BY <1>3, <1>4
<1> DEFINE low == CHOOSE g \in 0 .. n : Is(g)
<1>6. low \in 0 .. n /\ Is(low)
  <2> HIDE DEF Is
  <2> QED
    BY <1>5
<1>7. LowBits(n, b) = low
  BY Zenon DEF LowBits
<1> HIDE DEF low
<1>8. low \in Nat
  BY <1>6
<1> QED
  BY <1>6, <1>7, <1>8, Zenon

\* The last ones of a number.
LEMMA LowOnesAre ==
    ASSUME NEW n \in Nat
    PROVE  \E t \in Nat : /\ LowBits(n, TRUE) = t
                          /\ \A k \in 0 .. t - 1 : Bit(n, k)
                          /\ ~Bit(n, t)
<1>1. PICK t \in Nat : /\ LowBits(n, TRUE) = t
                       /\ \A k \in 0 .. t - 1 : Bit(n, k) = TRUE
                       /\ Bit(n, t) # TRUE \/ n \div Power(t) = 0
  BY TRUE \in BOOLEAN, LowBitsIs, Zenon
<1>2. \A k \in 0 .. t - 1 : Bit(n, k)
  BY <1>1, Zenon
<1>3. ~Bit(n, t)
  <2>1. CASE Bit(n, t) # TRUE
    BY <2>1 DEF Bit
  <2>2. CASE n \div Power(t) = 0
    <3>1. 0 % 2 # 1
      OBVIOUS
    <3> QED
      BY <2>2, <3>1 DEF Bit
  <2> QED
    BY <1>1, <2>1, <2>2
<1> QED
  BY <1>1, <1>2, <1>3

\* The last zeros of a number, before its lowest one.
LEMMA LowZerosAre ==
    ASSUME NEW n \in Nat \ {0}
    PROVE  \E t \in Nat : /\ LowBits(n, FALSE) = t
                          /\ \A k \in 0 .. t - 1 : ~Bit(n, k)
                          /\ Bit(n, t)
<1>0. n \in Nat
  OBVIOUS
<1>1. PICK t \in Nat : /\ LowBits(n, FALSE) = t
                       /\ \A k \in 0 .. t - 1 : Bit(n, k) = FALSE
                       /\ Bit(n, t) # FALSE \/ n \div Power(t) = 0
  BY <1>0, FALSE \in BOOLEAN, LowBitsIs, Zenon
<1>2. \A k \in 0 .. t - 1 : ~Bit(n, k)
  BY <1>1, Zenon
<1>3. Bit(n, t)
  <2>1. CASE Bit(n, t) # FALSE
    BY <2>1 DEF Bit
  <2>2. ASSUME n \div Power(t) = 0 PROVE FALSE
    <3>1. Edge(n, 0) = n
      BY <1>0, EdgeIs
    <3>2. Edge(n, t) = Edge(n, 0)
      <4>1. 0 <= t /\ 0 \in Nat
        OBVIOUS
      <4> QED
        BY ONLY <1>0, <1>2, <4>1, t \in Nat, EdgeStays
    <3>3. PICK p \in Nat : p = Power(t)
      BY PowerIs
    <3>4. Edge(n, t) = 0 * p
      BY <2>2, <3>3 DEF Edge
    <3> QED
      BY <3>1, <3>2, <3>4
  <2> QED
    BY <1>1, <2>1, <2>2
<1> QED
  BY <1>1, <1>2, <1>3

-------------------------------------------------------------------------------
(* Consistency: one hash of a proof.  The climb starts at the last leaf of the *)
(* old tree, number b from 0; the last one of the new tree is number e.        *)

\* The numbers of the two nodes, on level g.
Reached(s, b, e, g) == s.fn = b \div Power(g) /\ s.sn = e \div Power(g)

\* The node of the new tree over leaf b on level g, and that of the old tree.
New(d, e, b, g) ==
    Hash(d, Edge(b, g), IF Edge(b, g) + Power(g) <= e THEN Edge(b, g) + Power(g) ELSE e + 1)
Old(d, b, g) == Hash(d, Edge(b, g), b + 1)

\* A hash for the left is taken on the next level k where the old tree's node is a right
\* child.
LEMMA LeftStep ==
    ASSUME NEW b \in Nat, NEW e \in Nat, b <= e, NEW g \in Nat, NEW s, NEW c,
           Reached(s, b, e, g), s.sn # 0, s.fn % 2 = 1 \/ s.fn = s.sn
    PROVE  \E k \in Nat :
             /\ g <= k /\ Bit(b, k) /\ Edge(b, k) = Edge(b, g)
             /\ k = g \/ s.fn = s.sn
             /\ Reached(WithHash(s, c), b, e, k + 1)
             /\ WithHash(s, c).fr = NodeHash(c, s.fr) /\ WithHash(s, c).sr = NodeHash(c, s.sr)
             /\ WithHash(s, c).ok = (s.ok /\ s.sn # 0)
<1>1. PICK fn \in Nat : fn = s.fn /\ fn = b \div Power(g)
  BY PowerIs, Divided DEF Reached
<1>2. PICK sn \in Nat : sn = s.sn /\ sn = e \div Power(g)
  BY PowerIs, Divided DEF Reached
<1>3. fn \in Nat \ {0}
  BY <1>1, <1>2
<1>4. PICK t \in Nat : LowBits(fn, FALSE) = t /\ (\A k \in 0 .. t - 1 : ~Bit(fn, k)) /\ Bit(fn, t)
  BY <1>3, LowZerosAre
<1>5. PICK k \in Nat : k = g + t
  OBVIOUS
<1>6. Bit(b, k) /\ g <= k
  BY <1>1, <1>4, <1>5, Shifts
<1>7. Edge(b, k) = Edge(b, g)
  <2>1. ASSUME NEW i \in g .. k - 1 PROVE ~Bit(b, i)
    <3>1. PICK j \in Nat : j = i - g /\ j \in 0 .. t - 1 /\ g + j = i
      <4>1. i - g \in Nat /\ i - g \in 0 .. t - 1 /\ g + (i - g) = i
        BY <1>5
      <4> QED
        BY <4>1
    <3>2. ~Bit(fn, j)
      BY <1>4, <3>1
    <3> QED
      BY <1>1, <3>1, <3>2, Shifts
  <2> QED
    BY <1>6, <2>1, EdgeStays
<1>8. k = g \/ s.fn = s.sn
  <2>1. ASSUME s.fn % 2 = 1 PROVE t = 0
    <3>1. fn \div 1 = fn
      OBVIOUS
    <3>2. Bit(fn, 0)
      BY <1>1, <2>1, <3>1, PowerIs DEF Bit
    <3>3. t # 0 => 0 \in 0 .. t - 1
      OBVIOUS
    <3> QED
      BY <1>4, <3>2, <3>3
  <2> QED
    BY <1>5, <2>1
<1>9. WithHash(s, c) = [fn |-> s.fn \div Power(1 + t), sn |-> s.sn \div Power(1 + t),
                        fr |-> NodeHash(c, s.fr), sr |-> NodeHash(c, s.sr),
                        ok |-> s.ok /\ s.sn # 0]
  <2>1. s.fn # 0 /\ LowBits(s.fn, FALSE) = t
    BY <1>1, <1>3, <1>4
  <2> QED
    BY <2>1 DEF WithHash
<1>10. fn \div Power(1 + t) = b \div Power(k + 1) /\ sn \div Power(1 + t) = e \div Power(k + 1)
  <2>1. PICK i \in Nat : i = 1 + t /\ g + i = k + 1
    BY <1>5
  <2>2. (b \div Power(g)) \div Power(i) = b \div Power(g + i)
    BY ONLY b \in Nat, g \in Nat, i \in Nat, Shifts
  <2>3. (e \div Power(g)) \div Power(i) = e \div Power(g + i)
    BY ONLY e \in Nat, g \in Nat, i \in Nat, Shifts
  <2> QED
    BY <1>1, <1>2, <2>1, <2>2, <2>3
<1>11. Reached(WithHash(s, c), b, e, k + 1)
  BY <1>1, <1>2, <1>9, <1>10 DEF Reached
<1> QED
  BY <1>6, <1>7, <1>8, <1>9, <1>11

\* A hash for the right is taken on this level.
LEMMA RightStep ==
    ASSUME NEW b \in Nat, NEW e \in Nat, b <= e, NEW g \in Nat, NEW s, NEW c,
           Reached(s, b, e, g), s.sn # 0, ~(s.fn % 2 = 1 \/ s.fn = s.sn)
    PROVE  /\ ~Bit(b, g) /\ Edge(b, g) + Power(g) <= e
           /\ Reached(WithHash(s, c), b, e, g + 1)
           /\ WithHash(s, c).fr = s.fr /\ WithHash(s, c).sr = NodeHash(s.sr, c)
           /\ WithHash(s, c).ok = (s.ok /\ s.sn # 0)
<1>0. PICK p \in Nat \ {0} : p = Power(g)
  BY PowerIs
<1>1. PICK fn \in Nat, r \in 0 .. p - 1 : fn = b \div p /\ b = fn * p + r
  BY Divided
<1>2. PICK sn \in Nat, q \in 0 .. p - 1 : sn = e \div p /\ e = sn * p + q
  BY Divided
<1>3. s.fn = fn /\ s.sn = sn
  BY <1>0, <1>1, <1>2 DEF Reached
<1>4. ~Bit(b, g)
  BY <1>0, <1>1, <1>3 DEF Bit
<1>5. Edge(b, g) + Power(g) <= e
  <2>1. ~(sn < fn)
    <3>1. ASSUME sn < fn PROVE FALSE
      <4>1. PICK i \in Nat : fn = sn + 1 + i
        <5>1. fn - sn - 1 \in Nat /\ fn = sn + 1 + (fn - sn - 1)
          BY <3>1
        <5> QED
          BY <5>1
      <4>2. fn * p = sn * p + p + i * p /\ i * p \in Nat /\ sn * p \in Nat
        BY ONLY <4>1, sn \in Nat, i \in Nat, p \in Nat
      <4> QED
        BY <1>1, <1>2, <4>2
    <3> QED
      BY <3>1
  <2>2. PICK i \in Nat : sn = fn + 1 + i
    <3>1. fn # sn
      BY <1>3
    <3>2. sn - fn - 1 \in Nat /\ sn = fn + 1 + (sn - fn - 1)
      BY <2>1, <3>1
    <3> QED
      BY <3>2
  <2>3. sn * p = fn * p + p + i * p /\ i * p \in Nat /\ fn * p \in Nat
    BY ONLY <2>2, fn \in Nat, i \in Nat, p \in Nat
  <2>4. fn * p + p <= e
    BY <1>2, <2>3
  <2> QED
    BY <1>0, <1>1, <2>4 DEF Edge
<1>6. WithHash(s, c) = [fn |-> s.fn \div Power(1 + 0), sn |-> s.sn \div Power(1 + 0),
                        fr |-> s.fr, sr |-> NodeHash(s.sr, c), ok |-> s.ok /\ s.sn # 0]
  BY DEF WithHash
<1>7. fn \div Power(1) = b \div Power(g + 1) /\ sn \div Power(1) = e \div Power(g + 1)
  <2>1. (b \div Power(g)) \div Power(1) = b \div Power(g + 1)
    BY ONLY b \in Nat, g \in Nat, 1 \in Nat, Shifts
  <2>2. (e \div Power(g)) \div Power(1) = e \div Power(g + 1)
    BY ONLY e \in Nat, g \in Nat, 1 \in Nat, Shifts
  <2> QED
    BY <1>0, <1>1, <1>2, <2>1, <2>2
<1>8. Reached(WithHash(s, c), b, e, g + 1)
  <2>1. 1 + 0 = 1
    OBVIOUS
  <2> QED
    BY <1>3, <1>6, <1>7, <2>1 DEF Reached
<1> QED
  BY <1>4, <1>5, <1>6, <1>8

\* What such a hash has to be, if it stands on the left.
LEMMA LeftHashes ==
    ASSUME NEW d, NEW e \in Nat, Len(d) = e + 1, NEW b \in Nat, b <= e,
           NEW g \in Nat, NEW k \in Nat, g <= k, Bit(b, k), Edge(b, k) = Edge(b, g),
           k = g \/ Edge(e, g) = Edge(b, g)
    PROVE  /\ New(d, e, b, k + 1) =
                NodeHash(Hash(d, Edge(b, k + 1), Edge(b, k)), New(d, e, b, g))
           /\ Old(d, b, k + 1) = NodeHash(Hash(d, Edge(b, k + 1), Edge(b, k)), Old(d, b, g))
<1>1. PICK p \in Nat \ {0} : p = Power(k) /\ Power(k + 1) = 2 * p
  BY PowerIs
<1>2. PICK r \in Nat \ {0} : r = Power(g)
  BY PowerIs
<1>3. r <= p
  <2>1. CASE g = k
    BY <1>1, <1>2, <2>1
  <2>2. CASE g < k
    <3>1. 2 * Power(g) <= Power(k)
      BY <2>2, PowersGrow
    <3> QED
      BY <1>1, <1>2, <3>1
  <2> QED
    BY <2>1, <2>2
<1>4. PICK x \in Nat : x = Edge(b, k) /\ x = Edge(b, g) /\ x <= b /\ b < x + r
  <2>1. Edge(b, g) \in Nat /\ Edge(b, g) <= b /\ b - Edge(b, g) < Power(g)
    BY ONLY b \in Nat, g \in Nat, EdgeIs
  <2>2. PICK x \in Nat : x = Edge(b, g)
    BY <2>1
  <2>3. b < x + r
    BY <1>2, <2>1, <2>2
  <2> QED
    BY <2>1, <2>2, <2>3
<1>5. PICK a \in Nat : a = Edge(b, k + 1) /\ x = a + p
  <2>1. Edge(b, k) = Edge(b, k + 1) + Power(k)
    BY EdgeIs
  <2>2. Edge(b, k + 1) \in Nat
    BY k + 1 \in Nat, EdgeIs
  <2> QED
    BY <1>1, <1>4, <2>1, <2>2
<1>6. PICK n \in Nat : n = e + 1 /\ n = Len(d)
  OBVIOUS
<1>7. PICK hi \in Nat : hi = IF a + 2 * p <= e THEN a + 2 * p ELSE n
  OBVIOUS
<1>8. hi = IF x + r <= e THEN x + r ELSE n
  <2>1. CASE k = g
    <3>1. r = p
      BY <1>1, <1>2, <2>1
    <3> QED
      BY ONLY <1>5, <1>7, <3>1, x \in Nat, a \in Nat, p \in Nat, n \in Nat, e \in Nat
  <2>2. CASE Edge(e, g) = Edge(b, g)
    <3>1. Edge(e, g) = x
      BY <1>4, <2>2
    <3>2. e - Edge(e, g) < Power(g)
      BY EdgeIs
    <3>3. e < x + r
      BY <1>2, <3>1, <3>2
    <3> QED
      BY ONLY <1>3, <1>5, <1>7, <3>3, x \in Nat, a \in Nat, p \in Nat, r \in Nat, n \in Nat, e \in Nat
  <2> QED
    BY <2>1, <2>2
<1>9. New(d, e, b, k + 1) = Hash(d, a, hi) /\ New(d, e, b, g) = Hash(d, x, hi)
  <2>1. New(d, e, b, k + 1) = Hash(d, a, hi)
    BY <1>1, <1>5, <1>6, <1>7 DEF New
  <2>2. New(d, e, b, g) = Hash(d, x, hi)
    BY <1>2, <1>4, <1>6, <1>8 DEF New
  <2> QED
    BY <2>1, <2>2
<1>10. Hash(d, a, hi) = NodeHash(Hash(d, a, x), Hash(d, x, hi))
  <2>1. p < hi - a /\ hi - a <= 2 * p /\ hi <= n
    <3>1. CASE a + 2 * p <= e
      <4>1. hi = a + 2 * p
        BY <1>7, <3>1
      <4> QED
        BY <1>6, <3>1, <4>1
    <3>2. CASE ~(a + 2 * p <= e)
      <4>1. hi = n
        BY <1>7, <3>2
      <4>2. a + p <= e
        BY <1>4, <1>5
      <4> QED
        BY <1>6, <3>2, <4>1, <4>2
    <3> QED
      BY <3>1, <3>2
  <2>2. Hash(d, a, hi) = NodeHash(Hash(d, a, a + Power(k)), Hash(d, a + Power(k), hi))
    BY ONLY <1>1, <1>6, <2>1, k \in Nat, a \in Nat, hi \in Nat, n \in Nat, HashJoins
  <2> QED
    BY <1>1, <1>5, <2>2
<1>11. Hash(d, a, b + 1) = NodeHash(Hash(d, a, x), Hash(d, x, b + 1))
  <2>1. PICK m \in Nat : m = b + 1
    OBVIOUS
  <2>2. p < m - a /\ m - a <= 2 * p /\ m <= n
    <3>1. x <= b /\ b < x + r /\ b <= e /\ m = b + 1 /\ r <= p /\ x = a + p /\ n = e + 1
      BY ONLY <1>3, <1>4, <1>5, <1>6, <2>1, b <= e
    <3> QED
      BY ONLY <3>1, a \in Nat, p \in Nat, x \in Nat, r \in Nat,
              m \in Nat, n \in Nat, b \in Nat, e \in Nat
  <2>3. Hash(d, a, m) = NodeHash(Hash(d, a, a + Power(k)), Hash(d, a + Power(k), m))
    BY ONLY <1>1, <1>6, <2>2, k \in Nat, a \in Nat, m \in Nat, n \in Nat, HashJoins
  <2> QED
    BY <1>1, <1>5, <2>1, <2>3
<1> QED
  BY <1>4, <1>5, <1>9, <1>10, <1>11 DEF Old

\* And if it stands on the right.
Beside(d, e, b, g) ==
    Hash(d, Edge(b, g) + Power(g),
         IF Edge(b, g) + 2 * Power(g) <= e THEN Edge(b, g) + 2 * Power(g) ELSE e + 1)

LEMMA RightHashes ==
    ASSUME NEW d, NEW e \in Nat, Len(d) = e + 1, NEW b \in Nat, b <= e,
           NEW g \in Nat, ~Bit(b, g), Edge(b, g) + Power(g) <= e
    PROVE  /\ New(d, e, b, g + 1) = NodeHash(New(d, e, b, g), Beside(d, e, b, g))
           /\ Old(d, b, g + 1) = Old(d, b, g)
<1>1. PICK p \in Nat \ {0} : p = Power(g) /\ Power(g + 1) = 2 * p
  BY PowerIs
<1>2. PICK a \in Nat : a = Edge(b, g) /\ a = Edge(b, g + 1) /\ a + p <= e
  BY <1>1, EdgeIs
<1>3. PICK n \in Nat : n = e + 1 /\ n = Len(d)
  OBVIOUS
<1>4. PICK hi \in Nat : hi = IF a + 2 * p <= e THEN a + 2 * p ELSE n
  OBVIOUS
<1>5. p < hi - a /\ hi - a <= 2 * p /\ hi <= n
  BY <1>2, <1>3, <1>4
<1>6. Hash(d, a, hi) = NodeHash(Hash(d, a, a + Power(g)), Hash(d, a + Power(g), hi))
  BY ONLY <1>1, <1>3, <1>5, g \in Nat, a \in Nat, hi \in Nat, n \in Nat, HashJoins
<1>7. /\ New(d, e, b, g + 1) = Hash(d, a, hi) /\ New(d, e, b, g) = Hash(d, a, a + p)
      /\ Beside(d, e, b, g) = Hash(d, a + p, hi)
  BY <1>1, <1>2, <1>3, <1>4 DEF New, Beside
<1> QED
  BY <1>1, <1>2, <1>6, <1>7 DEF Old

\* Where the climb starts, the two trees have the same node.
LEMMA StartHashes ==
    ASSUME NEW d, NEW e \in Nat, NEW b \in Nat, b <= e,
           NEW g \in Nat, \A j \in 0 .. g - 1 : Bit(b, j)
    PROVE  New(d, e, b, g) = Old(d, b, g)
<1>1. b + 1 = Edge(b, g) + Power(g)
  BY g \in 0 .. g, LowOnes
<1>2. PICK p \in Nat \ {0} : p = Power(g)
  BY PowerIs
<1>3. PICK a \in Nat : a = Edge(b, g)
  BY EdgeIs
<1>4. b + 1 = IF a + p <= e THEN a + p ELSE e + 1
  BY <1>1, <1>2, <1>3
<1> QED
  BY <1>2, <1>3, <1>4 DEF New, Old

-------------------------------------------------------------------------------
(* Consistency: the climb.                                                  *)

\* The states of the climb along n + 1 hashes.
ClimbTo(start, path, n, climbed) ==
    climbed = [k \in 0 .. n |-> IF k = 0 THEN start ELSE WithHash(climbed[k - 1], path[k + 1])]

LEMMA ClimbExist ==
    ASSUME NEW start, NEW path
    PROVE  \A n \in Nat : \E climbed : ClimbTo(start, path, n, climbed)
<1> DEFINE T == {n \in Nat : ~ \E climbed : ClimbTo(start, path, n, climbed)}
<1> SUFFICES ASSUME T # {} PROVE FALSE
  OBVIOUS
<1>1. PICK n \in T : \A m \in T : n <= m
  BY LeastOf
<1>2. n # 0
  <2>1. ClimbTo(start, path, 0, [k \in 0 .. 0 |-> start])
    BY DEF ClimbTo
  <2> QED
    BY <2>1
<1>3. n \in Nat /\ n - 1 \in Nat /\ ~(n <= n - 1)
  BY <1>2
<1>4. PICK below : ClimbTo(start, path, n - 1, below)
  BY <1>1, <1>3
<1> DEFINE climbed == [k \in 0 .. n |-> IF k < n THEN below[k] ELSE WithHash(below[n - 1], path[n + 1])]
<1>5. DOMAIN climbed = 0 .. n /\ climbed = [k \in 0 .. n |-> climbed[k]]
  OBVIOUS
<1>6. \A k \in 0 .. n - 1 : k \in 0 .. n /\ climbed[k] = below[k]
  BY <1>3
<1>7. \A k \in 0 .. n - 1 :
        below[k] = IF k = 0 THEN start ELSE WithHash(below[k - 1], path[k + 1])
  BY <1>4 DEF ClimbTo
<1>8. climbed[n] = WithHash(below[n - 1], path[n + 1])
  BY <1>3
<1> HIDE DEF climbed
<1>9. ASSUME NEW k \in 1 .. n PROVE below[k - 1] = climbed[k - 1]
  <2>1. k - 1 \in 0 .. n - 1
    BY <1>3
  <2> QED
    BY <1>6, <2>1
<1>10. ASSUME NEW k \in 0 .. n
       PROVE  climbed[k] = IF k = 0 THEN start ELSE WithHash(climbed[k - 1], path[k + 1])
  <2>1. CASE k = n
    <3>1. k \in 1 .. n
      BY <1>2, <1>3, <2>1
    <3> QED
      BY <1>2, <1>8, <1>9, <2>1, <3>1
  <2>2. CASE k # n
    <3>1. k \in 0 .. n - 1 /\ (k # 0 => k \in 1 .. n)
      BY <1>3, <2>2
    <3> QED
      BY <1>6, <1>7, <1>9, <3>1
  <2> QED
    BY <2>1, <2>2
<1>11. ClimbTo(start, path, n, climbed)
  BY <1>5, <1>10 DEF ClimbTo
<1> QED
  BY <1>11

LEMMA ClimbValues ==
    ASSUME NEW start, NEW path, NEW l \in Nat, NEW climbed, ClimbTo(start, path, l, climbed)
    PROVE  /\ climbed[0] = start
           /\ \A k \in 0 .. l - 1 : climbed[k + 1] = WithHash(climbed[k], path[k + 2])
<1>1. 0 \in 0 .. l
  OBVIOUS
<1>2. ASSUME NEW k \in 0 .. l - 1 PROVE climbed[k + 1] = WithHash(climbed[k], path[k + 2])
  <2>1. k + 1 \in 0 .. l /\ k + 1 # 0 /\ (k + 1) - 1 = k /\ (k + 1) + 1 = k + 2
    OBVIOUS
  <2>2. climbed[k + 1] = WithHash(climbed[(k + 1) - 1], path[(k + 1) + 1])
    BY ONLY <2>1, ClimbTo(start, path, l, climbed), Zenon DEF ClimbTo
  <2> QED
    BY <2>1, <2>2
<1> QED
  BY <1>1, <1>2 DEF ClimbTo

\* One step upwards: whatever hash c it takes, if it ends at a node of the new tree, it
\* came from one, and if it came from the old tree's, it ends at the old tree's.
LEMMA StepKeeps ==
    ASSUME NEW d, NEW e \in Nat, Len(d) = e + 1, NEW b \in Nat, b <= e,
           NEW h \in Nat, NEW s, NEW c, Reached(s, b, e, h), s.sn # 0,
           NEW t, t = WithHash(s, c)
    PROVE  \E i \in Nat :
             /\ Reached(t, b, e, i)
             /\ t.sr = New(d, e, b, i) =>
                  /\ s.sr = New(d, e, b, h)
                  /\ s.fr = Old(d, b, h) => t.fr = Old(d, b, i)
<1>1. CASE s.fn % 2 = 1 \/ s.fn = s.sn
  <2>1. PICK k \in Nat :
          /\ h <= k /\ Bit(b, k) /\ Edge(b, k) = Edge(b, h)
          /\ k = h \/ s.fn = s.sn
          /\ Reached(t, b, e, k + 1)
          /\ t.fr = NodeHash(c, s.fr) /\ t.sr = NodeHash(c, s.sr)
    BY <1>1, LeftStep
  <2>2. k = h \/ Edge(e, h) = Edge(b, h)
    BY <2>1 DEF Reached, Edge
  <2> DEFINE left == Hash(d, Edge(b, k + 1), Edge(b, k))
  <2>3. /\ New(d, e, b, k + 1) = NodeHash(left, New(d, e, b, h))
        /\ Old(d, b, k + 1) = NodeHash(left, Old(d, b, h))
    BY <2>1, <2>2, LeftHashes
  <2> HIDE DEF left
  <2>4. PICK i \in Nat : i = k + 1
    OBVIOUS
  <2>5. ASSUME t.sr = New(d, e, b, i)
        PROVE  c = left /\ s.sr = New(d, e, b, h)
    <3>1. NodeHash(c, s.sr) = NodeHash(left, New(d, e, b, h))
      BY <2>1, <2>3, <2>4, <2>5
    <3> QED
      BY <3>1 DEF NodeHash
  <2>6. ASSUME c = left, s.fr = Old(d, b, h)
        PROVE  t.fr = Old(d, b, i)
    BY <2>1, <2>3, <2>4, <2>6
  <2> QED
    BY <2>1, <2>4, <2>5, <2>6
<1>2. CASE ~(s.fn % 2 = 1 \/ s.fn = s.sn)
  <2>1. /\ ~Bit(b, h) /\ Edge(b, h) + Power(h) <= e
        /\ Reached(t, b, e, h + 1)
        /\ t.fr = s.fr /\ t.sr = NodeHash(s.sr, c)
    BY <1>2, RightStep
  <2>2. /\ New(d, e, b, h + 1) = NodeHash(New(d, e, b, h), Beside(d, e, b, h))
        /\ Old(d, b, h + 1) = Old(d, b, h)
    BY <2>1, RightHashes
  <2>3. ASSUME t.sr = New(d, e, b, h + 1) PROVE s.sr = New(d, e, b, h)
    <3>1. NodeHash(s.sr, c) = NodeHash(New(d, e, b, h), Beside(d, e, b, h))
      BY <2>1, <2>2, <2>3
    <3> QED
      BY <3>1 DEF NodeHash
  <2>4. ASSUME s.fr = Old(d, b, h) PROVE t.fr = Old(d, b, h + 1)
    BY <2>1, <2>2, <2>4
  <2>5. h + 1 \in Nat
    OBVIOUS
  <2> QED
    BY <2>1, <2>3, <2>4, <2>5
<1> QED
  BY <1>1, <1>2

\* On a level with one node over everything, it is the root.
LEMMA AtTheTop ==
    ASSUME NEW d, NEW e \in Nat, NEW b \in Nat, b <= e, NEW h \in Nat, e \div Power(h) = 0
    PROVE  b \div Power(h) = 0 /\ New(d, e, b, h) = Hash(d, 0, e + 1) /\ Old(d, b, h) = Hash(d, 0, b + 1)
<1>1. PICK p \in Nat \ {0} : p = Power(h)
  BY PowerIs
<1>2. e < p
  <2>1. PICK q \in Nat, r \in 0 .. p - 1 : q = e \div p /\ e = q * p + r
    BY Divided
  <2>2. q * p = 0
    BY <1>1, <2>1
  <2> QED
    BY <2>1, <2>2
<1>3. b \div p = 0
  <2>1. b \in 0 .. p - 1 /\ b = 0 * p + b
    BY <1>2
  <2> QED
    BY ONLY <2>1, p \in Nat \ {0}, b \in Nat, 0 \in Nat, Quotient
<1>4. Edge(b, h) = 0
  BY <1>1, <1>3 DEF Edge
<1> QED
  BY <1>1, <1>2, <1>3, <1>4 DEF New, Old

\* Where the climb starts: above the low ones of b.
First(b, e, g, node) ==
    [fn |-> b \div Power(g), sn |-> e \div Power(g), fr |-> node, sr |-> node, ok |-> TRUE]

\* The climb along a path, from above the last ones of b.
ClimbsFrom(b, e, path, g, l, climbed) ==
    /\ l + 1 = Len(path)
    /\ (\A j \in 0 .. g - 1 : Bit(b, j)) /\ ~Bit(b, g)
    /\ ClimbTo(First(b, e, g, path[1]), path, l, climbed)

\* A climb that ends at the new tree's root ends at the old tree's too, whatever hashes
\* it took.
LEMMA ClimbSound ==
    ASSUME NEW d, NEW e \in Nat, Len(d) = e + 1, NEW b \in Nat, b <= e,
           NEW g \in Nat, NEW l \in Nat, NEW path, NEW climbed,
           ClimbsFrom(b, e, path, g, l, climbed),
           climbed[l].ok, climbed[l].sn = 0, climbed[l].sr = Hash(d, 0, e + 1)
    PROVE  climbed[l].fr = Hash(d, 0, b + 1)
<1>0. /\ \A j \in 0 .. g - 1 : Bit(b, j)
      /\ ClimbTo(First(b, e, g, path[1]), path, l, climbed)
  BY DEF ClimbsFrom
<1> DEFINE End == climbed[l].fr = Hash(d, 0, b + 1)
           Claim(k) == /\ climbed[k].ok
                       /\ \A h \in Nat : Reached(climbed[k], b, e, h) =>
                            /\ climbed[k].sr = New(d, e, b, h)
                            /\ climbed[k].fr = Old(d, b, h) => End
           T == {i \in 0 .. l : ~Claim(l - i)}
<1>1. Claim(l)
  <2> SUFFICES ASSUME NEW h \in Nat, Reached(climbed[l], b, e, h)
               PROVE  climbed[l].sr = New(d, e, b, h) /\ (climbed[l].fr = Old(d, b, h) => End)
    OBVIOUS
  <2>1. e \div Power(h) = 0
    BY DEF Reached
  <2> QED
    BY <2>1, AtTheTop
<1>2. ASSUME NEW k \in 0 .. l - 1, Claim(k + 1) PROVE Claim(k)
  <2>1. PICK s, t, c : s = climbed[k] /\ t = climbed[k + 1] /\ c = path[k + 2]
    OBVIOUS
  <2>2. t = WithHash(s, c)
    BY <1>0, <2>1, ClimbValues
  <2>3. t.ok = (s.ok /\ s.sn # 0)
    BY <2>2 DEF WithHash
  <2>4. s.ok /\ s.sn # 0
    BY <1>2, <2>1, <2>3
  <2>5. ASSUME NEW h \in Nat, Reached(s, b, e, h)
        PROVE  s.sr = New(d, e, b, h) /\ (s.fr = Old(d, b, h) => End)
    <3>1. PICK i \in Nat :
            /\ Reached(t, b, e, i)
            /\ t.sr = New(d, e, b, i) =>
                 /\ s.sr = New(d, e, b, h)
                 /\ s.fr = Old(d, b, h) => t.fr = Old(d, b, i)
      BY <2>2, <2>4, <2>5, StepKeeps
    <3>2. t.sr = New(d, e, b, i) /\ (t.fr = Old(d, b, i) => End)
      BY <1>2, <2>1, <3>1
    <3> QED
      BY <3>1, <3>2
  <2> QED
    BY <2>1, <2>4, <2>5
<1> HIDE DEF Claim
<1>3. T = {}
  <2> SUFFICES ASSUME T # {} PROVE FALSE
    OBVIOUS
  <2>1. PICK i \in T : \A j \in T : i <= j
    <3>1. T \subseteq Nat
      OBVIOUS
    <3> HIDE DEF T
    <3> QED
      BY <3>1, LeastOf
  <2>2. i \in 0 .. l /\ ~Claim(l - i)
    OBVIOUS
  <2>3. i # 0
    <3>1. l - 0 = l
      OBVIOUS
    <3> QED
      BY <1>1, <2>2, <3>1
  <2>4. /\ i - 1 \in 0 .. l /\ ~(i <= i - 1) /\ l - i \in 0 .. l - 1
        /\ l - (i - 1) = (l - i) + 1
    BY <2>2, <2>3
  <2>5. Claim((l - i) + 1)
    <3>1. Claim(l - (i - 1))
      BY <2>1, <2>4
    <3> QED
      BY <2>4, <3>1
  <2> QED
    BY <1>2, <2>2, <2>4, <2>5
<1>4. Claim(0)
  <2>1. l \in 0 .. l /\ l - l = 0
    OBVIOUS
  <2> QED
    BY <1>3, <2>1
<1>5. climbed[0] = First(b, e, g, path[1])
  <2>1. PICK start : start = First(b, e, g, path[1])
    OBVIOUS
  <2>2. ClimbTo(start, path, l, climbed)
    BY <1>0, <2>1
  <2>3. climbed[0] = start
    BY ONLY <2>2, l \in Nat, ClimbValues
  <2> QED
    BY <2>1, <2>3
<1>6. Reached(climbed[0], b, e, g) /\ climbed[0].sr = path[1] /\ climbed[0].fr = path[1]
  BY <1>5 DEF First, Reached
<1>7. path[1] = New(d, e, b, g) /\ (path[1] = Old(d, b, g) => End)
  BY <1>4, <1>6 DEF Claim
<1> QED
  BY <1>0, <1>7, StartHashes

-------------------------------------------------------------------------------
(* Consistency: what a proof that verifies shows.                           *)

\* The hashes that are climbed: a size that is a power of two brings its own root.
Path(m, old_root, proof) ==
    (IF \E k \in 0 .. m : m = Power(k) THEN <<old_root>> ELSE <<>>) \o proof

\* The climb was never past the top, and it has the two roots.
EndsRight(s, old_root, new_root) == s.ok /\ EndsAt(s, old_root, new_root)

\* verify_consistency is the climb, from above the last ones of the last old leaf.
LEMMA VerifyIs ==
    ASSUME NEW b \in Nat, NEW e \in Nat, b < e, NEW T, NEW proof \in Seq(T), proof # <<>>,
           NEW old_root, NEW new_root,
           NEW path, path = Path(b + 1, old_root, proof)
    PROVE  \E g \in Nat, l \in Nat : \E climbed :
             /\ ClimbsFrom(b, e, path, g, l, climbed)
             /\ VerifyConsistency(b + 1, e + 1, old_root, new_root, proof) <=>
                  EndsRight(climbed[l], old_root, new_root)
<1>1. PICK g \in Nat : /\ LowBits(b, TRUE) = g
                       /\ \A k \in 0 .. g - 1 : Bit(b, k)
                       /\ ~Bit(b, g)
  BY LowOnesAre
<1>2. path \in Seq(T \cup {old_root}) /\ Len(path) >= Len(proof)
  <2>1. proof \in Seq(T \cup {old_root})
    OBVIOUS
  <2>2. CASE \E k \in 0 .. b + 1 : b + 1 = Power(k)
    <3>1. path = <<old_root>> \o proof /\ <<old_root>> \in Seq(T \cup {old_root})
      <4>1. path = <<old_root>> \o proof
        BY <2>2, Zenon DEF Path
      <4>2. <<old_root>> \in Seq(T \cup {old_root})
        OBVIOUS
      <4> QED
        BY <4>1, <4>2
    <3>2. path \in Seq(T \cup {old_root}) /\ Len(path) = Len(<<old_root>>) + Len(proof)
      BY <2>1, <3>1, ConcatProperties
    <3>3. Len(<<old_root>>) = 1 /\ Len(proof) \in Nat
      BY LenProperties
    <3> QED
      BY <3>2, <3>3
  <2>3. CASE ~ \E k \in 0 .. b + 1 : b + 1 = Power(k)
    <3>1. path = <<>> \o proof
      BY <2>3, Zenon DEF Path
    <3>2. path = proof
      BY <2>1, <3>1, ConcatEmptySeq
    <3> QED
      BY <2>1, <3>2, LenProperties
  <2> QED
    BY <2>2, <2>3
<1>3. Len(proof) \in Nat /\ Len(proof) # 0
  BY LenProperties, EmptySeq
<1>4. PICK l \in Nat : l = Len(path) - 1 /\ l + 1 = Len(path)
  BY <1>2, <1>3, LenProperties
<1> DEFINE first == First(b, e, g, path[1])
<1> HIDE DEF first
<1>5. \E climbed :
        /\ ClimbTo(first, path, l, climbed)
        /\ VerifyConsistency(b + 1, e + 1, old_root, new_root, proof) <=>
             climbed[l].ok /\ EndsAt(climbed[l], old_root, new_root)
  <2>1. PICK m \in Nat, n \in Nat : m = b + 1 /\ n = e + 1
    OBVIOUS
  <2> DEFINE p    == (IF \E k \in 0 .. m : m = Power(k) THEN <<old_root>> ELSE <<>>) \o proof
             skip == LowBits(m - 1, TRUE)
             start == [fn |-> (m - 1) \div Power(skip), sn |-> (n - 1) \div Power(skip),
                       fr |-> p[1], sr |-> p[1], ok |-> TRUE]
             climbed == CHOOSE f : f = [k \in 0 .. Len(p) - 1 |->
                          IF k = 0 THEN start ELSE WithHash(f[k - 1], p[k + 1])]
             end == climbed[Len(p) - 1]
  <2>2. VerifyConsistency(m, n, old_root, new_root, proof) <=>
          /\ 1 <= m /\ m <= n
          /\ IF m = n
               THEN proof = <<>> /\ old_root = new_root
               ELSE /\ proof # <<>>
                    /\ end.ok /\ EndsAt(end, old_root, new_root)
    BY DEF VerifyConsistency
  <2>3. p = path
    BY <2>1 DEF Path
  <2> HIDE DEF p
  <2>4. start = first
    <3>1. m - 1 = b /\ n - 1 = e
      BY <2>1
    <3> QED
      BY <1>1, <2>3, <3>1 DEF first, First
  <2> HIDE DEF start
  <2>5. ClimbTo(start, p, Len(p) - 1, climbed)
    <3>1. PICK f : ClimbTo(start, p, Len(p) - 1, f)
      BY <1>4, <2>3, ClimbExist
    <3>2. f = [k \in 0 .. Len(p) - 1 |->
                 IF k = 0 THEN start ELSE WithHash(f[k - 1], p[k + 1])]
      BY <3>1 DEF ClimbTo
    <3> QED
      BY <3>2 DEF ClimbTo
  <2> HIDE DEF climbed
  <2>6. ClimbTo(first, path, l, climbed)
    BY <1>4, <2>3, <2>4, <2>5
  <2>7. 1 <= m /\ m <= n /\ m # n /\ end = climbed[l]
    BY <1>4, <2>1, <2>3
  <2> QED
    BY <2>1, <2>2, <2>6, <2>7
<1> QED
  BY <1>1, <1>4, <1>5 DEF first, ClimbsFrom, EndsRight

\* A proof that verifies against the tree's root shows the root of the tree's first
\* leaves, whatever hashes it is made of and whatever root was claimed.
THEOREM ConsistencySound ==
    ASSUME NEW S, NEW leaves \in Seq(S), leaves # <<>>, NEW size \in 1 .. Len(leaves),
           NEW T, NEW proof \in Seq(T), NEW old_root,
           VerifyConsistency(size, Len(leaves), old_root, Root(leaves), proof)
    PROVE  old_root = Root(SubSeq(leaves, 1, size))
<1>1. PICK n \in Nat \ {0} : n = Len(leaves)
  BY LenProperties, EmptySeq
<1>2. Root(leaves) = Hash(leaves, 0, n)
  BY <1>1, TreeHashes
<1>3. Root(SubSeq(leaves, 1, size)) = Hash(leaves, 0, size)
  <2>1. /\ SubSeq(leaves, 1, size) \in Seq(S) /\ Len(SubSeq(leaves, 1, size)) = size
        /\ MTH(SubSeq(leaves, 1, size)) = Hash(leaves, 0, size)
    BY <1>1, PrefixHash
  <2>2. SubSeq(leaves, 1, size) # <<>>
    <3>1. Len(<<>>) = 0 /\ size # 0
      OBVIOUS
    <3> QED
      BY <2>1, <3>1
  <2> QED
    BY <2>1, <2>2, RootsAre
<1>4. CASE size = n
  <2>1. old_root = Root(leaves)
    BY <1>1, <1>4 DEF VerifyConsistency
  <2> QED
    BY <1>2, <1>3, <1>4, <2>1
<1>5. CASE size # n
  <2>1. PICK b \in Nat, e \in Nat : b + 1 = size /\ e + 1 = n /\ b < e
    <3>1. size - 1 \in Nat /\ n - 1 \in Nat /\ (size - 1) + 1 = size /\ (n - 1) + 1 = n
          /\ size - 1 < n - 1
      BY <1>1, <1>5
    <3> QED
      BY <3>1
  <2>2. proof # <<>>
    BY <1>1, <1>5 DEF VerifyConsistency
  <2>3. PICK path, new_root : path = Path(b + 1, old_root, proof) /\ new_root = Root(leaves)
    OBVIOUS
  <2>4. PICK g \in Nat, l \in Nat : \E climbed :
          /\ ClimbsFrom(b, e, path, g, l, climbed)
          /\ VerifyConsistency(b + 1, e + 1, old_root, new_root, proof) <=>
               EndsRight(climbed[l], old_root, new_root)
    BY <2>1, <2>2, <2>3, VerifyIs
  <2>5. PICK climbed :
          /\ ClimbsFrom(b, e, path, g, l, climbed)
          /\ VerifyConsistency(b + 1, e + 1, old_root, new_root, proof) <=>
               EndsRight(climbed[l], old_root, new_root)
    BY <2>4
  <2>6. /\ climbed[l].ok /\ climbed[l].fr = old_root
        /\ climbed[l].sr = new_root /\ climbed[l].sn = 0
    BY <1>1, <2>1, <2>3, <2>5 DEF EndsRight, EndsAt
  <2>7. climbed[l].fr = Hash(leaves, 0, b + 1)
    <3>1. climbed[l].sr = Hash(leaves, 0, e + 1) /\ Len(leaves) = e + 1 /\ b <= e
      BY <1>1, <1>2, <2>1, <2>3, <2>6
    <3> QED
      BY <2>5, <2>6, <3>1, ClimbSound
  <2> QED
    BY <1>3, <2>1, <2>6, <2>7
<1> QED
  BY <1>4, <1>5

-------------------------------------------------------------------------------
(* Consistency: the nodes of a proof.                                       *)

\* The height of a tree of n leaves: the least power of two that they fit into.
LEMMA HeightIs ==
    ASSUME NEW n \in Nat \ {0}
    PROVE  \E h \in Nat : /\ Height(n) = h /\ n <= Power(h)
                          /\ \A j \in Nat : j < h => Power(j) < n
<1> DEFINE Is(h) == n <= Power(h) /\ (h = 0 \/ Power(h - 1) < n)
           T == {h \in 0 .. n : n <= Power(h)}
<1>1. n \in T
  <2>1. n < Power(n) /\ Power(n) \in Nat
    BY PowerAbove, PowerIs
  <2> QED
    BY <2>1
<1>2. PICK h \in T : \A g \in T : h <= g
  <2>1. T \subseteq Nat /\ T # {}
    BY <1>1
  <2> HIDE DEF T
  <2> QED
    BY <2>1, LeastOf
<1>3. h \in 0 .. n /\ Is(h)
  <2>1. ASSUME h # 0 PROVE Power(h - 1) < n
    <3>1. h - 1 \in 0 .. n /\ h - 1 \in Nat /\ ~(h <= h - 1)
      BY <2>1
    <3>2. ~(n <= Power(h - 1))
      BY <1>2, <3>1
    <3>3. Power(h - 1) \in Nat
      BY <3>1, PowerIs
    <3> QED
      BY <3>2, <3>3
  <2> QED
    BY <2>1
<1> DEFINE height == CHOOSE g \in 0 .. n : Is(g)
<1>4. height \in 0 .. n /\ Is(height)
  <2> HIDE DEF Is
  <2> QED
    BY <1>3
<1>5. Height(n) = height
  BY DEF Height
<1> HIDE DEF height
<1>6. ASSUME NEW j \in Nat, j < height PROVE Power(j) < n
  <2>1. PICK g \in Nat : g = height - 1
    BY <1>4, <1>6
  <2>2. Power(g) < n /\ Power(g) \in Nat /\ Power(j) \in Nat
    BY <1>4, <1>6, <2>1, PowerIs
  <2>3. CASE j = g
    BY <2>2, <2>3
  <2>4. CASE j # g
    <3>1. j < g
      BY <1>4, <1>6, <2>1, <2>4
    <3>2. 2 * Power(j) <= Power(g)
      BY <3>1, PowersGrow
    <3> QED
      BY <2>2, <3>2
  <2> QED
    BY <2>3, <2>4
<1>7. height \in Nat /\ n <= Power(height)
  BY <1>4
<1> QED
  BY <1>5, <1>6, <1>7

LEMMA HeightOnly ==
    ASSUME NEW n \in Nat \ {0}, NEW h \in Nat, n <= Power(h),
           \A j \in Nat : j < h => Power(j) < n
    PROVE  Height(n) = h
<1>1. PICK g \in Nat : /\ Height(n) = g /\ n <= Power(g)
                       /\ \A j \in Nat : j < g => Power(j) < n
  BY HeightIs
<1>2. Power(g) \in Nat /\ Power(h) \in Nat
  BY PowerIs
<1>3. ~(g < h) /\ ~(h < g)
  BY <1>1, <1>2
<1> QED
  BY <1>1, <1>3

\* An edge is its own edge.
LEMMA EdgeItself ==
    ASSUME NEW q \in Nat, NEW k \in Nat
    PROVE  q * Power(k) \in Nat /\ Edge(q * Power(k), k) = q * Power(k)
<1>1. PICK p \in Nat \ {0} : p = Power(k)
  BY PowerIs
<1>2. PICK c \in Nat : c = q * p /\ c = q * p + 0 /\ 0 \in 0 .. p - 1
  BY q * p \in Nat
<1>3. c \div p = q
  BY ONLY <1>2, c \in Nat, p \in Nat \ {0}, q \in Nat, Quotient
<1> QED
  BY <1>1, <1>2, <1>3 DEF Edge

\* The levels of the tree over a list.
Covered(d, n, levels, top) ==
    /\ n \in Nat \ {0} /\ n = Len(d) /\ top \in Nat /\ n <= Power(top)
    /\ \A h \in 0 .. top : Covers(d, n, levels[h], Power(h))

\* A whole block, or the last one, is a node of the tree.
LEMMA NodeIs ==
    ASSUME NEW d, NEW n \in Nat, NEW levels, NEW top, Covered(d, n, levels, top),
           NEW lo \in Nat, NEW size \in Nat \ {0}, lo + size <= n,
           NEW h \in Nat, Height(size) = h, Edge(lo, h) = lo,
           size = Power(h) \/ lo + size = n
    PROVE  Node(levels, lo, lo + size) = Hash(d, lo, lo + size)
<1>0. /\ n \in Nat \ {0} /\ top \in Nat /\ n <= Power(top)
      /\ \A g \in 0 .. top : Covers(d, n, levels[g], Power(g))
  BY DEF Covered
<1>1. PICK p \in Nat \ {0} : p = Power(h)
  BY PowerIs
<1>2. size <= p /\ \A j \in Nat : j < h => Power(j) < size
  BY <1>1, HeightIs
<1>3. PICK q \in Nat : q = lo \div p /\ lo = q * p
  <2>1. lo \div p \in Nat
    BY Divided
  <2> QED
    BY <1>1, <2>1 DEF Edge
<1>4. PICK i \in Nat \ {0} : i = q + 1 /\ (i - 1) * p = lo /\ i * p = lo + p
  <2>1. PICK i \in Nat \ {0} : i = q + 1 /\ i - 1 = q
    BY q + 1 \in Nat \ {0}
  <2>2. i * p = q * p + p
    BY ONLY <2>1, q \in Nat, p \in Nat
  <2> QED
    BY <1>3, <2>1, <2>2
<1>5. h \in 0 .. top
  <2>1. ASSUME top < h PROVE FALSE
    <3>1. Power(top) < size /\ Power(top) \in Nat
      BY <1>0, <1>2, <2>1, PowerIs
    <3> QED
      BY <1>0, <3>1
  <2> QED
    BY <1>0, <2>1
<1>6. Covers(d, n, levels[h], p)
  BY <1>0, <1>1, <1>5
<1>7. i \in 1 .. Len(levels[h])
  <2>1. (i - 1) * p < n
    BY <1>0, <1>4
  <2>2. i <= Len(levels[h])
    BY <1>6, <2>1 DEF Covers
  <2> QED
    BY <2>2
<1>8. levels[h][i] = Hash(d, lo, lo + size)
  <2>1. levels[h][i] = Hash(d, lo, IF lo + p <= n THEN lo + p ELSE n)
    BY <1>4, <1>6, <1>7 DEF Covers
  <2>2. (IF lo + p <= n THEN lo + p ELSE n) = lo + size
    BY <1>0, <1>1, <1>2
  <2> QED
    BY <2>1, <2>2
<1>9. (lo + size) - lo = size
  OBVIOUS
<1> QED
  BY <1>1, <1>3, <1>4, <1>8, <1>9 DEF Node

-------------------------------------------------------------------------------
(* Consistency: the proof, piece by piece.                                  *)

\* The proof of a part of the tree, of which the first m leaves are old.
SubAt(levels, sub, size, m, lo, complete) ==
    LET k == Power(Height(size) - 1)
    IN  IF m = size
          THEN IF complete THEN <<>> ELSE <<Node(levels, lo, lo + size)>>
        ELSE IF m <= k
          THEN Append(sub[k][m][lo][complete], Node(levels, lo + k, lo + size))
        ELSE Append(sub[size - k][m - k][lo + k][FALSE], Node(levels, lo, lo + k))

\* The proofs of all parts of at most `most` leaves.
SubTo(levels, n, most, sub) ==
    sub = [size \in 1 .. most |->
            [m \in 1 .. size |-> [lo \in 0 .. n - size |-> [complete \in BOOLEAN |->
               SubAt(levels, sub, size, m, lo, complete)]]]]

\* The largest power of two that is smaller than a size.
LEMMA HalfIs ==
    ASSUME NEW size \in Nat, size > 1
    PROVE  \E g \in Nat : /\ Height(size) = g + 1 /\ Height(size) - 1 = g
                          /\ Power(g) \in 1 .. size - 1 /\ size <= 2 * Power(g)
                          /\ size - Power(g) \in 1 .. size - 1
<1>1. PICK h \in Nat : /\ Height(size) = h /\ size <= Power(h)
                       /\ \A j \in Nat : j < h => Power(j) < size
  BY HeightIs
<1>2. h # 0
  BY <1>1, PowerIs
<1>3. PICK g \in Nat : h = g + 1 /\ g = h - 1 /\ g < h
  BY <1>2
<1>4. PICK p \in Nat \ {0} : p = Power(g) /\ Power(h) = 2 * p
  BY <1>3, PowerIs
<1>5. p < size
  BY <1>1, <1>3, <1>4
<1>6. p \in 1 .. size - 1 /\ size - p \in 1 .. size - 1
  BY <1>5
<1> QED
  BY <1>1, <1>3, <1>4, <1>6

\* A part's proof needs those of smaller parts only.
LEMMA SubAgrees ==
    ASSUME NEW levels, NEW most \in Nat, NEW sub, NEW other,
           \A s \in 1 .. most : sub[s] = other[s],
           NEW size \in 1 .. most + 1, NEW m \in 1 .. size, NEW lo, NEW complete
    PROVE  SubAt(levels, sub, size, m, lo, complete) = SubAt(levels, other, size, m, lo, complete)
<1>1. CASE m = size
  BY <1>1 DEF SubAt
<1>2. CASE m # size
  <2>1. size \in Nat /\ size > 1
    BY <1>2
  <2>2. PICK k : k = Power(Height(size) - 1)
    OBVIOUS
  <2>3. k \in 1 .. size - 1 /\ size - k \in 1 .. size - 1
    BY <2>1, <2>2, HalfIs
  <2>4. sub[k] = other[k] /\ sub[size - k] = other[size - k]
    <3>1. k \in 1 .. most /\ size - k \in 1 .. most
      BY <2>3
    <3> QED
      BY <3>1
  <2> QED
    BY <2>2, <2>4 DEF SubAt
<1> QED
  BY <1>1, <1>2

LEMMA SubExist ==
    ASSUME NEW levels, NEW n
    PROVE  \A most \in Nat : \E sub : SubTo(levels, n, most, sub)
<1> DEFINE T == {most \in Nat : ~ \E sub : SubTo(levels, n, most, sub)}
<1> SUFFICES ASSUME T # {} PROVE FALSE
  OBVIOUS
<1>1. PICK most \in T : \A m \in T : most <= m
  BY LeastOf
<1>2. most # 0
  <2>1. SubTo(levels, n, 0, [size \in 1 .. 0 |-> <<>>])
    BY DEF SubTo
  <2> QED
    BY <2>1
<1>3. PICK less \in Nat : most \in Nat /\ less = most - 1 /\ most = less + 1 /\ ~(most <= less)
  <2>1. most - 1 \in Nat /\ most = (most - 1) + 1 /\ ~(most <= most - 1)
    BY <1>2
  <2> QED
    BY <2>1
<1>4. PICK below : SubTo(levels, n, less, below)
  BY <1>1, <1>3
<1> DEFINE Cell(s, size, m, lo, complete) == SubAt(levels, s, size, m, lo, complete)
           Part(s, size) == [m \in 1 .. size |-> [lo \in 0 .. n - size |->
                              [complete \in BOOLEAN |-> Cell(s, size, m, lo, complete)]]]
           sub == [size \in 1 .. most |-> IF size < most THEN below[size] ELSE Part(below, most)]
<1>5. DOMAIN sub = 1 .. most /\ sub = [size \in 1 .. most |-> sub[size]]
  OBVIOUS
<1>6. \A size \in 1 .. less : size \in 1 .. most /\ sub[size] = below[size]
  BY <1>3
<1>7. \A size \in 1 .. less : below[size] = Part(below, size)
  BY <1>4 DEF SubTo
<1>8. sub[most] = Part(below, most)
  BY <1>2, <1>3
<1> HIDE DEF sub
<1>9. ASSUME NEW size \in 1 .. most PROVE Part(below, size) = Part(sub, size)
  <2>1. ASSUME NEW m \in 1 .. size, NEW lo, NEW complete
        PROVE  Cell(below, size, m, lo, complete) = Cell(sub, size, m, lo, complete)
    <3>1. size \in 1 .. less + 1
      BY <1>3
    <3> QED
      BY <1>6, <3>1, SubAgrees
  <2> HIDE DEF Cell
  <2> QED
    BY <2>1
<1>10. ASSUME NEW size \in 1 .. most PROVE sub[size] = Part(sub, size)
  <2>1. sub[size] = Part(below, size)
    <3>1. CASE size = most
      BY <1>8, <3>1
    <3>2. CASE size # most
      <4>1. size \in 1 .. less
        BY <1>3, <3>2
      <4> HIDE DEF Part
      <4> QED
        BY <1>6, <1>7, <4>1
    <3> QED
      BY <3>1, <3>2
  <2> HIDE DEF Part
  <2> QED
    BY <1>9, <2>1
<1>11. sub = [size \in 1 .. most |-> Part(sub, size)]
  <2> HIDE DEF Part
  <2> QED
    BY <1>5, <1>10
<1>12. SubTo(levels, n, most, sub)
  BY <1>11 DEF SubTo
<1> QED
  BY <1>12

\* A table of it for every part of a tree of n leaves.
Subs(levels, n, sub) ==
    \A size \in 1 .. n : \A m \in 1 .. size : \A lo \in 0 .. n - size :
      \A complete \in BOOLEAN :
        sub[size][m][lo][complete] = SubAt(levels, sub, size, m, lo, complete)

\* consistency_proof is an entry of such a table.
LEMMA SubIs ==
    ASSUME NEW leaves, NEW n \in Nat \ {0}, n = Len(leaves), NEW old_size
    PROVE  \E sub : /\ ConsistencyProof(leaves, old_size) = sub[n][old_size][0][TRUE]
                    /\ Subs(Levels(leaves), n, sub)
<1>1. PICK levels : levels = Levels(leaves)
  OBVIOUS
<1> DEFINE sub == CHOOSE s : SubTo(levels, n, n, s)
<1>2. SubTo(levels, n, n, sub)
  <2>1. PICK other : SubTo(levels, n, n, other)
    BY SubExist
  <2> QED
    BY <2>1
<1>3. ConsistencyProof(leaves, old_size) = sub[n][old_size][0][TRUE]
  BY <1>1 DEF ConsistencyProof, SubAt, SubTo
<1> HIDE DEF sub
<1>4. ASSUME NEW size \in 1 .. n, NEW m \in 1 .. size, NEW lo \in 0 .. n - size,
             NEW complete \in BOOLEAN
      PROVE  sub[size][m][lo][complete] = SubAt(levels, sub, size, m, lo, complete)
  <2> DEFINE Cell(s, z, i, l, c) == SubAt(levels, s, z, i, l, c)
  <2>1. sub[size] = [i \in 1 .. size |-> [l \in 0 .. n - size |->
                      [c \in BOOLEAN |-> Cell(sub, size, i, l, c)]]]
    BY <1>2 DEF SubTo
  <2> HIDE DEF Cell
  <2>2. sub[size][m][lo][complete] = Cell(sub, size, m, lo, complete)
    BY <2>1
  <2> QED
    BY <2>2 DEF Cell
<1>5. Subs(Levels(leaves), n, sub)
  BY ONLY <1>1, <1>4, Zenon DEF Subs
<1> QED
  BY ONLY <1>3, <1>5, Zenon

-------------------------------------------------------------------------------
(* Consistency: the climb along a proof that the code makes.                *)

\* The climb stands on level h, with the nodes of both trees.
StandsOn(s, d, e, b, h) ==
    Reached(s, b, e, h) /\ s.fr = Old(d, b, h) /\ s.sr = New(d, e, b, h) /\ s.ok

\* The hash of what stands beside the new node leads one level up.
LEMMA StandsRight ==
    ASSUME NEW d, NEW e \in Nat, Len(d) = e + 1, NEW b \in Nat, b <= e,
           NEW h \in Nat, ~Bit(b, h), Edge(b, h) + Power(h) <= e,
           NEW s, StandsOn(s, d, e, b, h)
    PROVE  StandsOn(WithHash(s, Beside(d, e, b, h)), d, e, b, h + 1)
<1>1. PICK p \in Nat \ {0} : p = Power(h)
  BY PowerIs
<1>2. PICK fn \in Nat : fn = b \div p /\ s.fn = fn
  BY <1>1, Divided DEF StandsOn, Reached
<1>3. PICK sn \in Nat, r \in 0 .. p - 1 : sn = e \div p /\ s.sn = sn /\ e = sn * p + r
  <2>1. PICK sn \in Nat, r \in 0 .. p - 1 : sn = e \div p /\ e = sn * p + r
    BY Divided
  <2> QED
    BY <1>1, <2>1 DEF StandsOn, Reached
<1>4. fn % 2 # 1
  BY <1>1, <1>2 DEF Bit
<1>5. fn # sn
  <2>1. ASSUME fn = sn PROVE FALSE
    <3>1. PICK a \in Nat : a = fn * p /\ a = Edge(b, h)
      <4>1. fn * p \in Nat
        OBVIOUS
      <4> QED
        BY <1>1, <1>2, <4>1 DEF Edge
    <3>2. a + p <= e /\ e = a + r
      BY <1>1, <1>3, <2>1, <3>1
    <3> QED
      BY <3>2
  <2> QED
    BY <2>1
<1>6. sn # 0
  <2>1. ASSUME sn = 0 PROVE FALSE
    <3>1. e = r
      BY <1>3, <2>1
    <3>2. Edge(b, h) \in Nat
      BY EdgeIs
    <3> QED
      BY <1>1, <3>1, <3>2
  <2> QED
    BY <2>1
<1>7. PICK c : c = Beside(d, e, b, h)
  OBVIOUS
<1>8. /\ Reached(WithHash(s, c), b, e, h + 1)
      /\ WithHash(s, c).fr = s.fr /\ WithHash(s, c).sr = NodeHash(s.sr, c)
      /\ WithHash(s, c).ok = (s.ok /\ s.sn # 0)
  <2>1. Reached(s, b, e, h) /\ s.sn # 0 /\ ~(s.fn % 2 = 1 \/ s.fn = s.sn)
    BY <1>2, <1>3, <1>4, <1>5, <1>6 DEF StandsOn
  <2> QED
    BY <2>1, RightStep
<1>9. /\ New(d, e, b, h + 1) = NodeHash(New(d, e, b, h), c)
      /\ Old(d, b, h + 1) = Old(d, b, h)
  BY <1>7, RightHashes
<1> QED
  BY <1>3, <1>6, <1>7, <1>8, <1>9 DEF StandsOn

\* The hash of what stands to the left leads above the level where it does.
LEMMA StandsLeft ==
    ASSUME NEW d, NEW e \in Nat, Len(d) = e + 1, NEW b \in Nat, b <= e,
           NEW i \in Nat, NEW j \in Nat, i <= j, Bit(b, j), Edge(b, j) = Edge(b, i),
           i = j \/ Edge(e, i) = Edge(b, i),
           NEW s, StandsOn(s, d, e, b, i)
    PROVE  StandsOn(WithHash(s, Hash(d, Edge(b, j + 1), Edge(b, j))), d, e, b, j + 1)
<1>1. PICK p \in Nat \ {0} : p = Power(i)
  BY PowerIs
<1>2. PICK fn \in Nat : fn = b \div p /\ s.fn = fn
  BY <1>1, Divided DEF StandsOn, Reached
<1>3. PICK sn \in Nat, r \in 0 .. p - 1 : sn = e \div p /\ s.sn = sn /\ e = sn * p + r
  <2>1. PICK sn \in Nat, r \in 0 .. p - 1 : sn = e \div p /\ e = sn * p + r
    BY Divided
  <2> QED
    BY <1>1, <2>1 DEF StandsOn, Reached
<1>4. PICK t \in Nat \ {0} : t = Power(j) /\ p <= t
  <2>1. PICK t \in Nat \ {0} : t = Power(j)
    BY PowerIs
  <2>2. CASE i = j
    BY <1>1, <2>1, <2>2
  <2>3. CASE i # j
    <3>1. 2 * Power(i) <= Power(j)
      BY <2>3, PowersGrow
    <3> QED
      BY <1>1, <2>1, <3>1
  <2> QED
    BY <2>2, <2>3
<1>5. p <= b
  <2>1. Edge(b, j) = Edge(b, j + 1) + Power(j) /\ Edge(b, j) <= b
    BY EdgeIs
  <2>2. Edge(b, j + 1) \in Nat
    BY j + 1 \in Nat, EdgeIs
  <2> QED
    BY <1>4, <2>1, <2>2
<1>6. sn # 0
  <2>1. ASSUME sn = 0 PROVE FALSE
    <3>1. e = r
      BY <1>3, <2>1
    <3> QED
      BY <1>5, <3>1
  <2> QED
    BY <2>1
<1>7. fn % 2 = 1 \/ fn = sn
  <2>1. CASE i = j
    BY <1>1, <1>2, <2>1 DEF Bit
  <2>2. CASE Edge(e, i) = Edge(b, i)
    <3>1. PICK a \in Nat : a = fn * p /\ a = Edge(b, i)
      <4>1. fn * p \in Nat
        OBVIOUS
      <4> QED
        BY <1>1, <1>2, <4>1 DEF Edge
    <3>2. a = sn * p
      BY <1>1, <1>3, <2>2, <3>1 DEF Edge
    <3>3. e = fn * p + r
      BY <1>3, <3>1, <3>2
    <3>4. e \div p = fn
      BY ONLY <3>3, e \in Nat, p \in Nat \ {0}, fn \in Nat, r \in 0 .. p - 1, Quotient
    <3> QED
      BY <1>3, <3>4
  <2> QED
    BY <2>1, <2>2
<1>8. PICK c : c = Hash(d, Edge(b, j + 1), Edge(b, j))
  OBVIOUS
<1>9. PICK k \in Nat :
        /\ i <= k /\ Bit(b, k) /\ Edge(b, k) = Edge(b, i)
        /\ Reached(WithHash(s, c), b, e, k + 1)
        /\ WithHash(s, c).fr = NodeHash(c, s.fr) /\ WithHash(s, c).sr = NodeHash(c, s.sr)
        /\ WithHash(s, c).ok = (s.ok /\ s.sn # 0)
  <2>1. Reached(s, b, e, i) /\ s.sn # 0 /\ (s.fn % 2 = 1 \/ s.fn = s.sn)
    BY <1>2, <1>3, <1>6, <1>7 DEF StandsOn
  <2> QED
    BY <2>1, LeftStep
<1>10. k = j
  <2>1. \A x \in i .. k - 1 : ~Bit(b, x)
    BY <1>9, EdgeStays
  <2>2. \A x \in i .. j - 1 : ~Bit(b, x)
    BY EdgeStays
  <2>3. j < k => j \in i .. k - 1
    OBVIOUS
  <2>4. k < j => k \in i .. j - 1
    BY <1>9
  <2> QED
    BY <1>9, <2>1, <2>2, <2>3, <2>4
<1>11. /\ New(d, e, b, j + 1) = NodeHash(c, New(d, e, b, i))
       /\ Old(d, b, j + 1) = NodeHash(c, Old(d, b, i))
  BY <1>8, LeftHashes
<1> QED
  BY <1>3, <1>6, <1>8, <1>9, <1>10, <1>11 DEF StandsOn

\* However a path is climbed, it ends on level h.
Arrives(d, e, b, g, path, h) ==
    \A l \in Nat : \A climbed :
      l + 1 = Len(path) /\ ClimbTo(First(b, e, g, path[1]), path, l, climbed)
        => StandsOn(climbed[l], d, e, b, h)

\* One more hash is one more step.
LEMMA ClimbBegins ==
    ASSUME NEW start, NEW T, NEW path \in Seq(T), NEW c \in T,
           NEW l \in Nat, l + 1 = Len(path),
           NEW climbed, ClimbTo(start, Append(path, c), l + 1, climbed)
    PROVE  \E below : ClimbTo(start, path, l, below) /\ climbed[l + 1] = WithHash(below[l], c)
<1>1. PICK longer : longer = Append(path, c)
  OBVIOUS
<1>2. (\A k \in 1 .. l + 1 : longer[k] = path[k]) /\ longer[l + 2] = c
  BY <1>1, AppendProperties
<1> DEFINE below == [k \in 0 .. l |-> climbed[k]]
<1>3. \A k \in 0 .. l + 1 :
        climbed[k] = IF k = 0 THEN start ELSE WithHash(climbed[k - 1], longer[k + 1])
  BY <1>1 DEF ClimbTo
<1>4. ASSUME NEW k \in 0 .. l
      PROVE  below[k] = IF k = 0 THEN start ELSE WithHash(below[k - 1], path[k + 1])
  <2>1. k \in 0 .. l + 1 /\ k + 1 \in 1 .. l + 1 /\ (k # 0 => k - 1 \in 0 .. l)
    OBVIOUS
  <2>2. climbed[k] = IF k = 0 THEN start ELSE WithHash(climbed[k - 1], path[k + 1])
    BY <1>2, <1>3, <2>1
  <2> QED
    BY <2>1, <2>2
<1>5. climbed[l + 1] = WithHash(below[l], c)
  <2>1. l + 1 \in 0 .. l + 1 /\ l + 1 # 0 /\ (l + 1) - 1 = l /\ (l + 1) + 1 = l + 2
    OBVIOUS
  <2>2. climbed[l + 1] = WithHash(climbed[(l + 1) - 1], longer[(l + 1) + 1])
    BY <1>3, <2>1
  <2> QED
    BY <1>2, <2>1, <2>2
<1>6. below = [k \in 0 .. l |-> below[k]]
  OBVIOUS
<1> HIDE DEF below
<1>7. ClimbTo(start, path, l, below)
  BY <1>4, <1>6 DEF ClimbTo
<1> QED
  BY <1>5, <1>7

LEMMA ArrivesOn ==
    ASSUME NEW d, NEW e \in Nat, NEW b \in Nat, NEW g \in Nat, NEW h \in Nat, NEW i \in Nat,
           NEW T, NEW path \in Seq(T), path # <<>>, NEW c \in T, Arrives(d, e, b, g, path, h),
           \A s : StandsOn(s, d, e, b, h) => StandsOn(WithHash(s, c), d, e, b, i)
    PROVE  Arrives(d, e, b, g, Append(path, c), i)
<1>1. PICK longer : longer = Append(path, c)
  OBVIOUS
<1>2. PICK l \in Nat : l + 1 = Len(path)
  <2>1. Len(path) \in Nat /\ Len(path) # 0
    BY LenProperties, EmptySeq
  <2>2. Len(path) - 1 \in Nat /\ (Len(path) - 1) + 1 = Len(path)
    BY <2>1
  <2> QED
    BY <2>2
<1>3. longer[1] = path[1] /\ Len(longer) = l + 2
  <2>1. 1 \in 1 .. Len(path)
    BY <1>2
  <2> QED
    BY <1>1, <1>2, <2>1, AppendProperties
<1>4. ASSUME NEW m \in Nat, NEW climbed, m + 1 = Len(longer),
             ClimbTo(First(b, e, g, longer[1]), longer, m, climbed)
      PROVE  StandsOn(climbed[m], d, e, b, i)
  <2>1. m = l + 1
    BY <1>3, <1>4
  <2>2. PICK start : start = First(b, e, g, path[1])
    OBVIOUS
  <2>3. ClimbTo(start, longer, l + 1, climbed)
    BY <1>3, <1>4, <2>1, <2>2
  <2>4. PICK below : ClimbTo(start, path, l, below) /\ climbed[l + 1] = WithHash(below[l], c)
    BY <1>1, <1>2, <2>3, ClimbBegins
  <2>5. StandsOn(below[l], d, e, b, h)
    BY <1>2, <2>2, <2>4 DEF Arrives
  <2> QED
    BY <2>1, <2>4, <2>5
<1>5. Arrives(d, e, b, g, longer, i)
  BY <1>4 DEF Arrives
<1> QED
  BY <1>1, <1>5

\* A path of one hash, the node where the climb starts.
LEMMA ArrivesAtOnce ==
    ASSUME NEW d, NEW e \in Nat, Len(d) = e + 1, NEW b \in Nat, b <= e,
           NEW g \in Nat, \A j \in 0 .. g - 1 : Bit(b, j)
    PROVE  Arrives(d, e, b, g, <<Old(d, b, g)>>, g)
<1>1. PICK path : path = <<Old(d, b, g)>> /\ Len(path) = 1 /\ path[1] = Old(d, b, g)
  <2>1. \A x : Len(<<x>>) = 1 /\ <<x>>[1] = x
    OBVIOUS
  <2> QED
    BY <2>1
<1>2. ASSUME NEW l \in Nat, NEW climbed, l + 1 = Len(path),
             ClimbTo(First(b, e, g, path[1]), path, l, climbed)
      PROVE  StandsOn(climbed[l], d, e, b, g)
  <2>1. l = 0 /\ 0 \in 0 .. l
    BY <1>1, <1>2
  <2>2. climbed[0] = First(b, e, g, path[1])
    BY <1>2, <2>1 DEF ClimbTo
  <2>3. New(d, e, b, g) = Old(d, b, g)
    BY StartHashes
  <2> QED
    BY <1>1, <2>1, <2>2, <2>3 DEF First, Reached, StandsOn
<1>3. Arrives(d, e, b, g, path, g)
  BY <1>2 DEF Arrives
<1> QED
  BY <1>1, <1>3

-------------------------------------------------------------------------------
(* Consistency: the parts of the tree that consistency_proof descends into. *)

\* The part of `size` leaves after lo is what the new tree's node of level h over leaf b
\* stands for; if b is its last leaf, no node further up ends there.
Piece(b, n, size, lo, h) ==
    /\ Height(size) = h /\ Edge(b, h) = lo
    /\ size = Power(h) \/ lo + size = n
    /\ b + 1 <= lo + size /\ lo + size <= n
    /\ b + 1 = lo + size => ~Bit(b, h)

\* Its first k leaves are the half that RFC 6962 cuts off.
Halved(b, n, size, lo, j, k) ==
    Piece(b, n, size, lo, j + 1) /\ k = Power(j) /\ k < size /\ size <= 2 * k

\* Half a piece is its first node: the other half stands to the right of leaf b.
LEMMA PieceOnLeft ==
    ASSUME NEW d, NEW n \in Nat, NEW levels, NEW top, Covered(d, n, levels, top),
           NEW e \in Nat, n = e + 1, NEW b \in Nat, b < e,
           NEW size \in Nat, NEW lo \in Nat, NEW j \in Nat, NEW k \in Nat,
           Halved(b, n, size, lo, j, k), b < lo + k
    PROVE  /\ Piece(b, n, k, lo, j)
           /\ ~Bit(b, j) /\ Edge(b, j) + Power(j) <= e
           /\ Node(levels, lo + k, lo + size) = Beside(d, e, b, j)
<1>0. /\ n # 0 /\ n = Len(d) /\ Piece(b, n, size, lo, j + 1)
      /\ k = Power(j) /\ 0 < k /\ k < size /\ size <= 2 * k
  BY PowerIs DEF Covered, Halved
<1> USE <1>0
<1>1. Edge(b, j + 1) = lo /\ Power(j + 1) = 2 * k /\ lo + size <= n
      /\ (size = 2 * k \/ lo + size = n)
  BY PowerIs DEF Piece
<1>2. ~Bit(b, j) /\ Edge(b, j) = lo
  <2>1. Bit(b, j) => Edge(b, j) = lo + k
    BY <1>1, EdgeIs
  <2>2. Edge(b, j) <= b
    BY EdgeIs
  <2>3. ~Bit(b, j)
    BY <2>1, <2>2
  <2> QED
    BY <1>1, <2>3, EdgeIs
<1>3. Height(k) = j
  BY HeightOf
<1>4. lo + k <= e
  BY <1>1
<1>5. Piece(b, n, k, lo, j)
  BY <1>2, <1>3, <1>4 DEF Piece
<1>6. PICK q \in Nat : lo = q * Power(j + 1)
  <2>1. PICK p \in Nat \ {0} : p = Power(j + 1)
    BY j + 1 \in Nat, PowerIs
  <2>2. b \div p \in Nat
    BY Divided
  <2> QED
    BY <1>1, <2>1, <2>2 DEF Edge
<1>7. Edge(lo + k, j) = lo + k
  <2>1. q * (2 * k) + k = (2 * q + 1) * k /\ 2 * q + 1 \in Nat
    BY ONLY q \in Nat, k \in Nat
  <2>2. lo + k = (2 * q + 1) * Power(j)
    BY <1>1, <1>6, <2>1
  <2> QED
    BY <2>1, <2>2, EdgeItself
<1>8. PICK rest \in Nat \ {0} : rest = size - k /\ (lo + k) + rest = lo + size
  <2>1. size - k \in Nat \ {0} /\ (lo + k) + (size - k) = lo + size
    BY ONLY <1>0, size \in Nat, k \in Nat, lo \in Nat
  <2> QED
    BY <2>1
<1>9. PICK i \in Nat : /\ Height(rest) = i /\ rest <= Power(i)
                       /\ \A x \in Nat : x < i => Power(x) < rest
  BY HeightIs
<1>10. i <= j
  <2>1. rest <= k
    BY ONLY <1>0, <1>8, size \in Nat, k \in Nat, lo \in Nat
  <2>2. ~(j < i)
    BY <1>9, <2>1
  <2> QED
    BY ONLY <2>2, i \in Nat, j \in Nat
<1>11. PICK x \in Nat : x = lo + k
  OBVIOUS
<1>12. Edge(x, i) = x
  <2>1. x < Edge(x, j) + Power(i)
    <3>1. PICK p \in Nat \ {0} : p = Power(i)
      BY PowerIs
    <3>2. Edge(x, j) = x
      BY <1>7, <1>11
    <3>3. x < x + p
      BY ONLY x \in Nat, p \in Nat \ {0}
    <3> QED
      BY ONLY <3>1, <3>2, <3>3
  <2>2. Edge(x, i) = Edge(x, j)
    BY <1>10, <2>1, EdgeLow
  <2> QED
    BY <1>7, <1>11, <2>2
<1>13. rest = Power(i) \/ x + rest = n
  <2>1. CASE size = 2 * k
    <3>1. rest = Power(j)
      BY <1>8, <2>1
    <3> QED
      BY <1>9, <3>1, HeightOf
  <2>2. CASE lo + size = n
    BY <1>8, <1>11, <2>2
  <2> QED
    BY <1>1, <2>1, <2>2
<1>14. Node(levels, x, x + rest) = Hash(d, x, x + rest)
  <2>1. x + rest <= n
    BY <1>1, <1>8, <1>11
  <2> QED
    BY ONLY n \in Nat, Covered(d, n, levels, top), x \in Nat, rest \in Nat \ {0}, i \in Nat, <1>9, <1>12, <1>13, <2>1, NodeIs
<1>15. Beside(d, e, b, j) = Hash(d, lo + k, lo + size)
  <2>1. (IF lo + 2 * k <= e THEN lo + 2 * k ELSE e + 1) = lo + size
    <3>1. /\ lo + size <= e + 1 /\ size <= 2 * k
          /\ size = 2 * k \/ lo + size = e + 1
      BY <1>1
    <3> QED
      BY ONLY <3>1, e \in Nat, lo \in Nat, size \in Nat, k \in Nat
  <2> QED
    BY <1>2, <2>1 DEF Beside
<1> QED
  BY <1>2, <1>4, <1>5, <1>8, <1>11, <1>14, <1>15

\* Or it is what stands to the left, and the rest of the piece is a piece.
LEMMA PieceOnRight ==
    ASSUME NEW d, NEW n \in Nat, NEW levels, NEW top, Covered(d, n, levels, top),
           NEW e \in Nat, n = e + 1, NEW b \in Nat, b < e,
           NEW size \in Nat, NEW lo \in Nat, NEW j \in Nat, NEW k \in Nat,
           Halved(b, n, size, lo, j, k),
           lo + k <= b, b + 1 < lo + size, NEW i, i = Height(size - k)
    PROVE  /\ i \in Nat /\ Piece(b, n, size - k, lo + k, i)
           /\ i <= j /\ Bit(b, j) /\ Edge(b, j) = Edge(b, i)
           /\ i = j \/ Edge(e, i) = Edge(b, i)
           /\ Node(levels, lo, lo + k) = Hash(d, Edge(b, j + 1), Edge(b, j))
<1>0. /\ n # 0 /\ n = Len(d) /\ Piece(b, n, size, lo, j + 1)
      /\ k = Power(j) /\ 0 < k /\ k < size /\ size <= 2 * k
  BY PowerIs DEF Covered, Halved
<1> USE <1>0
<1>1. /\ Edge(b, j + 1) = lo /\ Power(j + 1) = 2 * k /\ lo + size <= n
      /\ size = 2 * k \/ lo + size = n
      /\ b + 1 <= lo + size
  BY PowerIs DEF Piece
<1>2. Bit(b, j) /\ Edge(b, j) = lo + k
  <2>1. ~Bit(b, j) => Edge(b, j) = lo
    BY <1>1, EdgeIs
  <2>2. b - Edge(b, j) < k /\ Edge(b, j) \in Nat
    BY EdgeIs
  <2>3. Bit(b, j)
    BY <2>1, <2>2
  <2> QED
    BY <1>1, <2>3, EdgeIs
<1>3. PICK rest \in Nat \ {0} : rest = size - k /\ (lo + k) + rest = lo + size
  <2>1. size - k \in Nat \ {0} /\ (lo + k) + (size - k) = lo + size
    BY ONLY <1>0, size \in Nat, k \in Nat, lo \in Nat
  <2> QED
    BY <2>1
<1>4. PICK h \in Nat : /\ Height(rest) = h /\ rest <= Power(h)
                       /\ \A x \in Nat : x < h => Power(x) < rest
  BY <1>3, HeightIs
<1>5. h <= j
  <2>1. rest <= k
    BY ONLY <1>0, <1>3, size \in Nat, k \in Nat, lo \in Nat
  <2>2. ~(j < h)
    BY <1>4, <2>1
  <2> QED
    BY ONLY <2>2, h \in Nat, j \in Nat
<1>6. PICK p \in Nat \ {0} : p = Power(h)
  BY <1>4, PowerIs
<1>7. Edge(b, h) = lo + k
  <2>1. rest <= p /\ b + 1 <= (lo + k) + rest
    BY <1>1, <1>3, <1>4, <1>6
  <2>2. b < (lo + k) + p
    BY ONLY <2>1, b \in Nat, lo \in Nat, k \in Nat, rest \in Nat, p \in Nat
  <2>3. b < Edge(b, j) + Power(h)
    BY <1>2, <1>6, <2>2
  <2>4. Edge(b, h) = Edge(b, j)
    BY <1>5, <2>3, EdgeLow
  <2> QED
    BY <1>2, <2>4
<1>8. rest = Power(h) \/ (lo + k) + rest = n
  <2>1. CASE size = 2 * k
    <3>1. rest = Power(j)
      BY <1>3, <2>1
    <3> QED
      BY <1>4, <3>1, HeightOf
  <2>2. CASE lo + size = n
    BY <1>3, <2>2
  <2> QED
    BY <1>1, <2>1, <2>2
<1>9. h = j \/ Edge(e, h) = Edge(b, h)
  <2>1. CASE size = 2 * k
    <3>1. rest = Power(j)
      BY <1>3, <2>1
    <3> QED
      BY <1>4, <3>1, HeightOf
  <2>2. CASE lo + size = n
    <3>1. Edge(e, j + 1) = lo
      <4>1. PICK t \in Nat \ {0} : t = Power(j + 1) /\ t = 2 * k
        BY <1>1, PowerIs
      <4>2. PICK q \in Nat : q = b \div t
        BY Divided
      <4>3. lo = q * t
        BY <1>1, <4>1, <4>2 DEF Edge
      <4>4. PICK r \in 0 .. t - 1 : e = q * t + r
        <5>1. lo + size = e + 1 /\ lo + k <= b /\ b < e /\ size <= t
          BY <2>2, <4>1
        <5>2. e - lo \in 0 .. t - 1 /\ e = lo + (e - lo)
          BY ONLY <5>1, e \in Nat, lo \in Nat, size \in Nat, b \in Nat, k \in Nat,
                  t \in Nat \ {0}
        <5> QED
          BY <4>3, <5>2
      <4>5. e \div t = q
        BY ONLY <4>4, e \in Nat, t \in Nat \ {0}, q \in Nat, r \in 0 .. t - 1, Quotient
      <4> QED
        BY <4>1, <4>3, <4>5 DEF Edge
    <3>2. Edge(e, j) = lo + k
      <4>1. ~Bit(e, j) => Edge(e, j) = lo
        BY <3>1, EdgeIs
      <4>2. e - Edge(e, j) < k /\ Edge(e, j) \in Nat
        BY EdgeIs
      <4>3. Bit(e, j)
        <5>1. PICK edge \in Nat : edge = Edge(e, j) /\ e - edge < k
          BY <4>2
        <5>2. lo + size = e + 1 /\ k < size
          BY <2>2
        <5>3. edge # lo
          BY ONLY <5>1, <5>2, e \in Nat, lo \in Nat, size \in Nat, k \in Nat
        <5> QED
          BY <4>1, <5>1, <5>3
      <4> QED
        BY <3>1, <4>3, EdgeIs
    <3>3. e < Edge(e, j) + Power(h)
      <4>1. rest <= p /\ e + 1 = (lo + k) + rest
        BY <1>3, <1>4, <1>6, <2>2
      <4>2. e < (lo + k) + p
        BY ONLY <4>1, e \in Nat, lo \in Nat, k \in Nat, rest \in Nat, p \in Nat
      <4> QED
        BY <1>6, <3>2, <4>2
    <3>4. Edge(e, h) = Edge(e, j)
      BY <1>4, <1>5, <3>3, EdgeLow
    <3> QED
      BY <1>7, <3>2, <3>4
  <2> QED
    BY <1>1, <2>1, <2>2
<1>10. Piece(b, n, rest, lo + k, h)
  <2>1. /\ (lo + k) + rest = lo + size /\ lo + size <= n
        /\ b + 1 <= lo + size /\ b + 1 # lo + size
    <3>1. (lo + k) + rest = lo + size
      BY <1>3
    <3>2. lo + size <= n
      BY <1>1
    <3>3. b + 1 < lo + size
      OBVIOUS
    <3>4. b + 1 <= lo + size /\ b + 1 # lo + size
      BY ONLY <3>3, b \in Nat, lo \in Nat, size \in Nat
    <3> QED
      BY ONLY <3>1, <3>2, <3>4
  <2> QED
    BY <1>4, <1>7, <1>8, <2>1 DEF Piece
<1>11. Edge(lo, j) = lo
  <2>1. PICK t \in Nat \ {0} : t = Power(j + 1) /\ t = 2 * k
    BY <1>1, PowerIs
  <2>2. PICK q \in Nat : q = b \div t
    BY Divided
  <2>3. lo = q * t
    BY <1>1, <2>1, <2>2 DEF Edge
  <2>4. q * t = (2 * q) * k /\ 2 * q \in Nat
    BY ONLY <2>1, q \in Nat, k \in Nat
  <2> QED
    BY <2>3, <2>4, EdgeItself
<1>12. Node(levels, lo, lo + k) = Hash(d, lo, lo + k)
  <2>1. lo + k <= n /\ Height(k) = j
    BY <1>1, HeightOf
  <2>2. k \in Nat \ {0}
    OBVIOUS
  <2> QED
    BY ONLY n \in Nat, Covered(d, n, levels, top), lo \in Nat, k = Power(j), j \in Nat, <1>11, <2>1, <2>2, NodeIs
<1> QED
  BY <1>1, <1>2, <1>3, <1>4, <1>5, <1>7, <1>9, <1>10, <1>12

-------------------------------------------------------------------------------
(* Consistency: the proof that the code makes verifies.                     *)

\* A piece that is all old is a node of both trees, and the climb starts at it.
LEMMA PieceWhole ==
    ASSUME NEW d, NEW n \in Nat, NEW levels, NEW top, Covered(d, n, levels, top),
           NEW e \in Nat, n = e + 1, NEW b \in Nat, b < e,
           NEW size \in Nat \ {0}, NEW lo \in Nat, NEW h \in Nat,
           Piece(b, n, size, lo, h), b + 1 = lo + size,
           NEW g \in Nat, \A j \in 0 .. g - 1 : Bit(b, j), ~Bit(b, g)
    PROVE  /\ size = Power(h) /\ g = h
           /\ Node(levels, lo, lo + size) = Old(d, b, h)
<1>0. n \in Nat \ {0} /\ n = Len(d)
  BY DEF Covered
<1>1. /\ Height(size) = h /\ Edge(b, h) = lo /\ lo + size <= n /\ ~Bit(b, h)
      /\ size = Power(h) \/ lo + size = n
  BY DEF Piece
<1>2. size = Power(h)
  BY <1>1
<1>3. b + 1 = Edge(b, h) + Power(h)
  BY <1>1, <1>2
<1>4. \A k \in 0 .. h - 1 : Bit(b, k)
  BY <1>3, OnesBefore
<1>5. g = h
  <2>1. g < h => g \in 0 .. h - 1
    OBVIOUS
  <2>2. h < g => h \in 0 .. g - 1
    OBVIOUS
  <2> QED
    BY <1>1, <1>4, <2>1, <2>2
<1>6. Edge(lo, h) = lo
  <2>1. PICK p \in Nat \ {0} : p = Power(h)
    BY PowerIs
  <2>2. PICK q \in Nat : q = b \div p
    BY Divided
  <2>3. lo = q * Power(h)
    BY <1>1, <2>1, <2>2 DEF Edge
  <2> QED
    BY <2>3, EdgeItself
<1>7. Node(levels, lo, lo + size) = Hash(d, lo, lo + size)
  BY ONLY Covered(d, n, levels, top), lo \in Nat, size \in Nat \ {0}, h \in Nat, <1>1, <1>2, <1>6, NodeIs
<1> QED
  BY <1>1, <1>2, <1>5, <1>7 DEF Old

\* The hashes a proof may be made of.
Parts(d) == UNION {{Hash(d, x, y) : y \in Nat} : x \in Nat}

LEMMA PartIs ==
    ASSUME NEW d, NEW x \in Nat, NEW y \in Nat
    PROVE  Hash(d, x, y) \in Parts(d)
BY DEF Parts

\* What the verifier puts before a proof of m old leaves.
Lead(d, m, complete) ==
    IF complete /\ \E k \in 0 .. m : m = Power(k) THEN <<Hash(d, 0, m)>> ELSE <<>>

\* Climbing a proof s of a piece arrives at the piece.
Shows(d, e, b, g, m, complete, s, h) ==
    /\ s \in Seq(Parts(d)) /\ Lead(d, m, complete) \o s # <<>>
    /\ Arrives(d, e, b, g, Lead(d, m, complete) \o s, h)

LEMMA LeadIs ==
    ASSUME NEW d, NEW m \in Nat, NEW complete, NEW s \in Seq(Parts(d))
    PROVE  /\ Lead(d, m, complete) \o s \in Seq(Parts(d))
           /\ \A x \in Parts(d) :
                Lead(d, m, complete) \o Append(s, x) = Append(Lead(d, m, complete) \o s, x)
<1>1. PICK lead : lead = Lead(d, m, complete)
  OBVIOUS
<1>2. lead \in Seq(Parts(d))
  <2>1. Hash(d, 0, m) \in Parts(d)
    BY PartIs
  <2> QED
    BY <1>1, <2>1 DEF Lead
<1>3. lead \o s \in Seq(Parts(d))
  BY <1>2, ConcatProperties
<1>4. ASSUME NEW x \in Parts(d) PROVE lead \o Append(s, x) = Append(lead \o s, x)
  <2>1. Append(s, x) = s \o <<x>> /\ Append(lead \o s, x) = (lead \o s) \o <<x>>
    BY <1>3, AppendIsConcat
  <2>2. <<x>> \in Seq(Parts(d))
    OBVIOUS
  <2>3. lead \o (s \o <<x>>) = (lead \o s) \o <<x>>
    BY <1>2, <2>2, ConcatAssociative
  <2> QED
    BY <2>1, <2>3
<1> QED
  BY <1>1, <1>3, <1>4

\* One hash more leads from level h to level i.
LeadsOn(d, e, b, h, x, i) ==
    \A t : StandsOn(t, d, e, b, h) => StandsOn(WithHash(t, x), d, e, b, i)

LEMMA ShowsOn ==
    ASSUME NEW d, NEW e \in Nat, NEW b \in Nat, NEW g \in Nat, NEW h \in Nat, NEW i \in Nat,
           NEW m \in Nat, NEW complete, NEW s, Shows(d, e, b, g, m, complete, s, h),
           NEW x \in Parts(d),
           LeadsOn(d, e, b, h, x, i)
    PROVE  Shows(d, e, b, g, m, complete, Append(s, x), i)
<1>1. PICK path : path = Lead(d, m, complete) \o s
  OBVIOUS
<1>2. s \in Seq(Parts(d)) /\ path # <<>> /\ Arrives(d, e, b, g, path, h)
  BY <1>1 DEF Shows
<1>3. path \in Seq(Parts(d)) /\ Lead(d, m, complete) \o Append(s, x) = Append(path, x)
  <2>1. /\ Lead(d, m, complete) \o s \in Seq(Parts(d))
        /\ \A y \in Parts(d) :
             Lead(d, m, complete) \o Append(s, y) = Append(Lead(d, m, complete) \o s, y)
    BY ONLY <1>2, m \in Nat, LeadIs
  <2> QED
    BY ONLY <1>1, <2>1, x \in Parts(d), Zenon
<1>4. Arrives(d, e, b, g, Append(path, x), i)
  BY <1>2, <1>3, ArrivesOn DEF LeadsOn
<1>5. Append(path, x) # <<>> /\ Append(s, x) \in Seq(Parts(d))
  <2>1. Len(Append(path, x)) = Len(path) + 1 /\ Len(path) \in Nat /\ Len(<<>>) = 0
    BY <1>3, AppendProperties, LenProperties
  <2>2. Append(path, x) # <<>>
    BY <2>1
  <2> QED
    BY <1>2, <2>2, AppendProperties
<1> QED
  BY <1>3, <1>4, <1>5 DEF Shows

\* Every proof of a part of the tree arrives at the node over the part.
AllShow(d, n, e, b, g, sub) ==
    \A size \in 1 .. n : \A m \in 1 .. size : \A lo \in 0 .. n - size :
      \A complete \in BOOLEAN : \A h \in Nat :
        lo + m = b + 1 /\ (complete => lo = 0) /\ Piece(b, n, size, lo, h) =>
          Shows(d, e, b, g, m, complete, sub[size][m][lo][complete], h)

LEMMA ProofArrives ==
    ASSUME NEW d, NEW n \in Nat, NEW levels, NEW top, Covered(d, n, levels, top),
           NEW e \in Nat, n = e + 1, NEW b \in Nat, b < e,
           NEW g \in Nat, \A j \in 0 .. g - 1 : Bit(b, j), ~Bit(b, g),
           NEW sub, Subs(levels, n, sub)
    PROVE  AllShow(d, n, e, b, g, sub)
<1>0. n \in Nat \ {0} /\ n = Len(d)
  BY DEF Covered
<1> DEFINE Claim(size) ==
             \A m \in 1 .. size : \A lo \in 0 .. n - size :
               \A complete \in BOOLEAN : \A h \in Nat :
                 lo + m = b + 1 /\ (complete => lo = 0) /\ Piece(b, n, size, lo, h) =>
                   Shows(d, e, b, g, m, complete, sub[size][m][lo][complete], h)
<1> HIDE DEF Claim
<1>1. ASSUME NEW size \in 1 .. n, \A i \in 1 .. size - 1 : Claim(i)
      PROVE  Claim(size)
  <2>0. n \in Nat /\ size \in Nat \ {0}
    BY <1>0
  <2>1. ASSUME NEW m \in 1 .. size, NEW lo \in 0 .. n - size, NEW complete \in BOOLEAN,
               NEW h \in Nat, lo + m = b + 1, complete => lo = 0, Piece(b, n, size, lo, h)
        PROVE  Shows(d, e, b, g, m, complete, sub[size][m][lo][complete], h)
    <3>0. sub[size][m][lo][complete] = SubAt(levels, sub, size, m, lo, complete)
      BY <2>0 DEF Subs
    <3>1. CASE m = size
      <4>1. /\ size = Power(h) /\ g = h
            /\ Node(levels, lo, lo + size) = Old(d, b, h)
        <5>1. size \in Nat \ {0} /\ lo \in Nat /\ b + 1 = lo + size
          BY <2>0, <2>1, <3>1
        <5> QED
          BY ONLY Covered(d, n, levels, top), e \in Nat, n = e + 1, b \in Nat, b < e, h \in Nat, Piece(b, n, size, lo, h),
                  g \in Nat, \A j \in 0 .. g - 1 : Bit(b, j), ~Bit(b, g), <5>1, PieceWhole
      <4>2. PICK node : node = Old(d, b, h)
        OBVIOUS
      <4>3. node \in Parts(d) /\ (lo = 0 => node = Hash(d, 0, m))
        <5>1. Edge(b, h) = lo
          BY <2>1 DEF Piece
        <5> QED
          BY <2>1, <4>2, <5>1, PartIs DEF Old
      <4>4. Arrives(d, e, b, g, <<node>>, h)
        <5>1. Len(d) = e + 1 /\ b <= e
          BY <1>0
        <5>2. Arrives(d, e, b, g, <<Old(d, b, g)>>, g)
          BY <5>1, ArrivesAtOnce
        <5> QED
          BY <4>1, <4>2, <5>2
      <4>5. CASE complete
        <5>1. sub[size][m][lo][complete] = <<>>
          BY <3>0, <3>1, <4>5 DEF SubAt
        <5>2. Lead(d, m, complete) = <<node>>
          <6>1. h \in 0 .. m
            BY <3>1, <4>1, PowerAbove
          <6> QED
            BY <2>1, <3>1, <4>1, <4>3, <4>5, <6>1 DEF Lead
        <5>3. <<node>> \o <<>> = <<node>> /\ <<node>> # <<>> /\ <<>> \in Seq(Parts(d))
          OBVIOUS
        <5> QED
          BY <4>4, <5>1, <5>2, <5>3 DEF Shows
      <4>6. CASE ~complete
        <5>1. sub[size][m][lo][complete] = <<node>>
          BY <3>0, <3>1, <4>1, <4>2, <4>6 DEF SubAt
        <5>2. Lead(d, m, complete) = <<>>
          BY <4>6 DEF Lead
        <5>3. <<>> \o <<node>> = <<node>> /\ <<node>> # <<>> /\ <<node>> \in Seq(Parts(d))
          BY <4>3
        <5> QED
          BY <4>4, <5>1, <5>2, <5>3 DEF Shows
      <4> QED
        BY <4>5, <4>6
    <3>2. CASE m # size
      <4>1. size \in Nat /\ size > 1 /\ m < size /\ m \in Nat
        BY <2>0, <3>2
      <4>2. PICK j \in Nat : /\ Height(size) = j + 1 /\ Height(size) - 1 = j
                             /\ Power(j) \in 1 .. size - 1 /\ size <= 2 * Power(j)
                             /\ size - Power(j) \in 1 .. size - 1
        BY <4>1, HalfIs
      <4>3. PICK k \in 1 .. size - 1 :
              k = Power(j) /\ size <= 2 * k /\ size - k \in 1 .. size - 1
        BY <4>2
      <4>4. h = j + 1 /\ lo + size <= n
        BY <2>1, <4>2 DEF Piece
      <4>5. sub[size][m][lo][complete] =
              IF m <= k THEN Append(sub[k][m][lo][complete], Node(levels, lo + k, lo + size))
              ELSE Append(sub[size - k][m - k][lo + k][FALSE], Node(levels, lo, lo + k))
        BY <3>0, <3>2, <4>2, <4>3 DEF SubAt
      <4>6. CASE m <= k
        <5>1. b < lo + k
          BY <2>1, <4>6
        <5>2. /\ Piece(b, n, k, lo, j)
              /\ ~Bit(b, j) /\ Edge(b, j) + Power(j) <= e
              /\ Node(levels, lo + k, lo + size) = Beside(d, e, b, j)
          <6>1. Halved(b, n, size, lo, j, k)
            BY <2>1, <4>1, <4>3, <4>4 DEF Halved
          <6> QED
            BY ONLY Covered(d, n, levels, top), e \in Nat, n = e + 1, b \in Nat, b < e,
                    <5>1, <6>1, PieceOnLeft
        <5>3. PICK s : s = sub[k][m][lo][complete]
          OBVIOUS
        <5>4. Shows(d, e, b, g, m, complete, s, j)
          <6>1. m \in 1 .. k /\ lo \in 0 .. n - k
            BY <4>4, <4>6
          <6> QED
            BY <1>1, <2>1, <4>3, <5>2, <5>3, <6>1 DEF Claim
        <5>5. PICK x : x = Beside(d, e, b, j)
          OBVIOUS
        <5>6. x \in Parts(d)
          <6>1. PICK a \in Nat, p \in Nat : a = Edge(b, j) /\ p = Power(j)
            BY EdgeIs, PowerIs
          <6>2. a + p \in Nat /\ a + 2 * p \in Nat /\ e + 1 \in Nat
            OBVIOUS
          <6> QED
            BY <5>5, <6>1, <6>2, PartIs DEF Beside
        <5>7. LeadsOn(d, e, b, j, x, h)
          <6>1. Len(d) = e + 1 /\ b <= e
            BY <1>0
          <6> QED
            BY <5>2, <5>5, <4>4, <6>1, StandsRight DEF LeadsOn
        <5>8. Shows(d, e, b, g, m, complete, Append(s, x), h)
          BY <4>1, <5>4, <5>6, <5>7, ShowsOn
        <5> QED
          <6>1. sub[size][m][lo][complete] = Append(s, x)
            BY <4>5, <4>6, <5>2, <5>3, <5>5
          <6> QED
            BY <5>8, <6>1
      <4>7. CASE ~(m <= k)
        <5>1. lo + k <= b /\ b + 1 < lo + size
          <6>1. lo \in Nat /\ lo + m = b + 1 /\ m # size
            BY <2>1, <3>2
          <6>2. k \in Nat
            BY <4>3
          <6> QED
            BY ONLY <4>1, <4>7, <6>1, <6>2, b \in Nat
        <5>2. PICK i \in Nat :
                /\ Piece(b, n, size - k, lo + k, i)
                /\ i <= j /\ Bit(b, j) /\ Edge(b, j) = Edge(b, i)
                /\ i = j \/ Edge(e, i) = Edge(b, i)
                /\ Node(levels, lo, lo + k) = Hash(d, Edge(b, j + 1), Edge(b, j))
          <6>1. Halved(b, n, size, lo, j, k)
            BY <2>1, <4>1, <4>3, <4>4 DEF Halved
          <6>2. PICK i : i = Height(size - k)
            OBVIOUS
          <6>3. /\ i \in Nat /\ Piece(b, n, size - k, lo + k, i)
                /\ i <= j /\ Bit(b, j) /\ Edge(b, j) = Edge(b, i)
                /\ i = j \/ Edge(e, i) = Edge(b, i)
                /\ Node(levels, lo, lo + k) = Hash(d, Edge(b, j + 1), Edge(b, j))
            BY ONLY Covered(d, n, levels, top), e \in Nat, n = e + 1, b \in Nat, b < e,
                    <5>1, <6>1, <6>2, PieceOnRight
          <6> QED
            BY ONLY <6>3, Zenon
        <5>3. PICK s : s = sub[size - k][m - k][lo + k][FALSE]
          OBVIOUS
        <5>4. Shows(d, e, b, g, m - k, FALSE, s, i)
          <6>1. /\ m - k \in 1 .. size - k /\ lo + k \in 0 .. n - (size - k)
                /\ (lo + k) + (m - k) = b + 1
            BY <2>1, <4>1, <4>4, <4>7
          <6>2. Claim(size - k)
            BY <1>1, <4>3
          <6> QED
            BY <5>2, <5>3, <6>1, <6>2 DEF Claim
        <5>5. Shows(d, e, b, g, m, complete, s, i)
          <6>1. ASSUME NEW f \in 0 .. m, m = Power(f) PROVE FALSE
            <7>1. ~(f < j) /\ f # j
              <8>1. ASSUME f < j PROVE FALSE
                <9>1. 2 * Power(f) <= Power(j)
                  BY <8>1, PowersGrow
                <9> QED
                  BY <4>3, <4>7, <6>1, <9>1
              <8> QED
                BY <4>3, <4>7, <6>1, <8>1
            <7>2. 2 * Power(j) <= Power(f)
              BY <7>1, PowersGrow
            <7> QED
              BY <4>1, <4>3, <6>1, <7>2
          <6>2. Lead(d, m, complete) = <<>> /\ Lead(d, m - k, FALSE) = <<>>
            BY <6>1 DEF Lead
          <6> QED
            BY <5>4, <6>2 DEF Shows
        <5>6. PICK x : x = Hash(d, Edge(b, j + 1), Edge(b, j))
          OBVIOUS
        <5>7. x \in Parts(d)
          <6>1. Edge(b, j + 1) \in Nat /\ Edge(b, j) \in Nat
            BY j + 1 \in Nat, EdgeIs
          <6> QED
            BY <5>6, <6>1, PartIs
        <5>8. LeadsOn(d, e, b, i, x, h)
          <6>1. Len(d) = e + 1 /\ b <= e
            BY <1>0
          <6> QED
            BY <5>2, <5>6, <4>4, <6>1, StandsLeft DEF LeadsOn
        <5>9. Shows(d, e, b, g, m, complete, Append(s, x), h)
          BY <4>1, <5>2, <5>5, <5>7, <5>8, ShowsOn
        <5> QED
          <6>1. sub[size][m][lo][complete] = Append(s, x)
            BY <4>5, <4>7, <5>2, <5>3, <5>6
          <6> QED
            BY <5>9, <6>1
      <4> QED
        BY <4>6, <4>7
    <3> QED
      BY <3>1, <3>2
  <2> QED
    BY <2>1 DEF Claim
<1>2. \A size \in 1 .. n : Claim(size)
  <2> DEFINE T == {size \in 1 .. n : ~Claim(size)}
  <2> SUFFICES ASSUME T # {} PROVE FALSE
    OBVIOUS
  <2>1. PICK size \in T : \A i \in T : size <= i
    <3>1. T \subseteq Nat
      OBVIOUS
    <3> HIDE DEF T
    <3> QED
      BY <3>1, LeastOf
  <2>2. size \in 1 .. n /\ ~Claim(size)
    OBVIOUS
  <2>3. \A i \in 1 .. size - 1 : i \in 1 .. n /\ ~(size <= i)
    BY <2>2
  <2>4. \A i \in 1 .. size - 1 : Claim(i)
    BY <2>1, <2>3
  <2> QED
    BY <1>1, <2>2, <2>4
<1> QED
  BY <1>2 DEF Claim, AllShow

-------------------------------------------------------------------------------
(* Consistency: the whole proof.                                            *)

\* The root of an earlier size.
LEMMA PrefixRoot ==
    ASSUME NEW S, NEW leaves \in Seq(S), leaves # <<>>, NEW size \in 1 .. Len(leaves)
    PROVE  Root(SubSeq(leaves, 1, size)) = Hash(leaves, 0, size)
<1>1. /\ SubSeq(leaves, 1, size) \in Seq(S) /\ Len(SubSeq(leaves, 1, size)) = size
      /\ MTH(SubSeq(leaves, 1, size)) = Hash(leaves, 0, size)
  BY LenProperties, PrefixHash
<1>2. SubSeq(leaves, 1, size) # <<>>
  <2>1. Len(<<>>) = 0 /\ size # 0
    OBVIOUS
  <2> QED
    BY <1>1, <2>1
<1> QED
  BY <1>1, <1>2, RootsAre

\* The whole tree is a part of itself, of the level of its root.
LEMMA WholeTree ==
    ASSUME NEW n \in Nat \ {0}, NEW e \in Nat, n = e + 1, NEW b \in Nat, b < e
    PROVE  \E h \in Nat : Piece(b, n, n, 0, h) /\ e \div Power(h) = 0
<1>1. PICK h \in Nat : Height(n) = h /\ n <= Power(h)
  BY HeightIs
<1>2. PICK p \in Nat \ {0} : p = Power(h)
  BY <1>1, PowerIs
<1>3. b \in 0 .. p - 1 /\ e \in 0 .. p - 1 /\ b = 0 * p + b /\ e = 0 * p + e
  BY <1>1, <1>2
<1>4. b \div p = 0
  BY ONLY <1>3, p \in Nat \ {0}, b \in Nat, 0 \in Nat, Quotient
<1>5. e \div p = 0
  BY ONLY <1>3, p \in Nat \ {0}, e \in Nat, 0 \in Nat, Quotient
<1>6. Edge(b, h) = 0
  BY <1>2, <1>4 DEF Edge
<1>7. b + 1 <= 0 + n /\ 0 + n <= n /\ 0 + n = n /\ b + 1 # 0 + n
  OBVIOUS
<1>8. Piece(b, n, n, 0, h)
  BY <1>1, <1>6, <1>7 DEF Piece
<1> QED
  BY <1>2, <1>5, <1>8

\* The consistency proof of every size verifies against the roots of both trees.
THEOREM ConsistencyComplete ==
    ASSUME NEW S, NEW leaves \in Seq(S), leaves # <<>>, NEW m \in 1 .. Len(leaves)
    PROVE  /\ ConsistencyProof(leaves, m) \in Seq(Parts(leaves))
           /\ VerifyConsistency(m, Len(leaves), Root(SubSeq(leaves, 1, m)), Root(leaves),
                                ConsistencyProof(leaves, m))
<1>1. PICK n \in Nat \ {0} : n = Len(leaves)
  BY LenProperties, EmptySeq
<1>2. PICK old_root, new_root : /\ old_root = Root(SubSeq(leaves, 1, m))
                                /\ new_root = Root(leaves)
  OBVIOUS
<1>3. old_root = Hash(leaves, 0, m) /\ new_root = Hash(leaves, 0, n)
  BY <1>1, <1>2, PrefixRoot, TreeHashes
<1>4. PICK sub : /\ ConsistencyProof(leaves, m) = sub[n][m][0][TRUE]
                 /\ Subs(Levels(leaves), n, sub)
  BY <1>1, SubIs
<1>5. PICK proof : proof = ConsistencyProof(leaves, m)
  OBVIOUS
<1>6. proof = SubAt(Levels(leaves), sub, n, m, 0, TRUE)
  <2>1. n \in 1 .. n /\ m \in 1 .. n /\ 0 \in 0 .. n - n /\ TRUE \in BOOLEAN
    BY <1>1
  <2> QED
    BY <1>4, <1>5, <2>1 DEF Subs
<1>7. CASE m = n
  <2>1. proof = <<>>
    BY <1>6, <1>7 DEF SubAt
  <2>2. <<>> \in Seq(Parts(leaves)) /\ 1 <= n /\ n <= n /\ old_root = new_root
    BY <1>3, <1>7
  <2>3. VerifyConsistency(n, n, old_root, new_root, <<>>)
    BY <2>2 DEF VerifyConsistency
  <2> QED
    BY <1>1, <1>2, <1>5, <1>7, <2>1, <2>2, <2>3
<1>8. CASE m # n
  <2>1. PICK b \in Nat, e \in Nat : b + 1 = m /\ e + 1 = n /\ b < e
    <3>1. m - 1 \in Nat /\ n - 1 \in Nat /\ (m - 1) + 1 = m /\ (n - 1) + 1 = n
          /\ m - 1 < n - 1
      BY <1>1, <1>8
    <3> QED
      BY <3>1
  <2>2. PICK levels : levels = Levels(leaves)
    OBVIOUS
  <2>3. PICK top \in Nat : Covered(leaves, n, levels, top)
    <3>1. PICK t \in Nat : /\ n <= Power(t)
                           /\ \A h \in 0 .. t : Covers(leaves, n, Levels(leaves)[h], Power(h))
      BY <1>1, TreeHashes
    <3> QED
      BY <1>1, <2>2, <3>1 DEF Covered
  <2>4. PICK h \in Nat : Piece(b, n, n, 0, h) /\ e \div Power(h) = 0
    BY <2>1, WholeTree
  <2>5. PICK g \in Nat : (\A k \in 0 .. g - 1 : Bit(b, k)) /\ ~Bit(b, g)
    BY LowOnesAre
  <2>6. Shows(leaves, e, b, g, m, TRUE, proof, h)
    <3>1. n = e + 1 /\ n \in Nat /\ Subs(levels, n, sub)
      BY <1>4, <2>1, <2>2
    <3>2. AllShow(leaves, n, e, b, g, sub)
      BY ONLY <2>1, <2>3, <2>5, <3>1, n \in Nat, b \in Nat, e \in Nat, g \in Nat, ProofArrives
    <3>3. n \in 1 .. n /\ m \in 1 .. n /\ 0 \in 0 .. n - n /\ 0 + m = b + 1
      BY <1>1, <2>1
    <3>4. Shows(leaves, e, b, g, m, TRUE, sub[n][m][0][TRUE], h)
      BY ONLY <2>4, <3>2, <3>3, h \in Nat DEF AllShow
    <3> QED
      BY <1>4, <1>5, <3>4
  <2>7. PICK path : path = Path(b + 1, old_root, proof)
    OBVIOUS
  <2>8. /\ proof \in Seq(Parts(leaves)) /\ path = Lead(leaves, m, TRUE) \o proof
        /\ Arrives(leaves, e, b, g, path, h)
    BY <1>3, <2>1, <2>6, <2>7 DEF Shows, Lead, Path
  <2>9. proof # <<>>
    <3> SUFFICES ASSUME proof = <<>> PROVE FALSE
      OBVIOUS
    <3>1. PICK first : first = First(b, e, g, path[1])
      OBVIOUS
    <3>2. StandsOn(first, leaves, e, b, h)
      <4>1. Len(path) = 1
        <5>1. Lead(leaves, m, TRUE) \o proof # <<>>
          BY <2>6 DEF Shows
        <5> QED
          BY <2>8, <5>1 DEF Lead
      <4>2. PICK climbed : ClimbTo(first, path, 0, climbed)
        BY ClimbExist
      <4>3. climbed[0] = first
        BY <4>2, ClimbValues
      <4>4. 0 + 1 = Len(path) /\ 0 \in Nat
        BY <4>1
      <4>5. StandsOn(climbed[0], leaves, e, b, h)
        BY ONLY <2>8, <3>1, <4>2, <4>4 DEF Arrives
      <4> QED
        BY <4>3, <4>5
    <3>3. e \div Power(g) = 0
      BY <2>4, <3>1, <3>2 DEF StandsOn, Reached, First
    <3>4. PICK p \in Nat \ {0} : p = Power(g)
      BY PowerIs
    <3>5. PICK q \in Nat, r \in 0 .. p - 1 : q = e \div p /\ e = q * p + r
      BY Divided
    <3>6. e < p
      BY <3>3, <3>4, <3>5
    <3>7. b + 1 = Edge(b, g) + p /\ Edge(b, g) \in Nat
      <4>1. \A k \in 0 .. g : b + 1 = Edge(b, k) + Power(k)
        BY <2>5, LowOnes
      <4> QED
        BY <3>4, <4>1, EdgeIs
    <3> QED
      BY <2>1, <3>6, <3>7
  <2>10. PICK f \in Nat, l \in Nat : \E climbed :
           /\ ClimbsFrom(b, e, path, f, l, climbed)
           /\ VerifyConsistency(b + 1, e + 1, old_root, new_root, proof) <=>
                EndsRight(climbed[l], old_root, new_root)
    BY <2>1, <2>7, <2>8, <2>9, VerifyIs
  <2>11. PICK climbed :
           /\ ClimbsFrom(b, e, path, f, l, climbed)
           /\ VerifyConsistency(b + 1, e + 1, old_root, new_root, proof) <=>
                EndsRight(climbed[l], old_root, new_root)
    BY <2>10
  <2>12. f = g
    <3>1. (\A k \in 0 .. f - 1 : Bit(b, k)) /\ ~Bit(b, f)
      BY <2>11 DEF ClimbsFrom
    <3>2. (f < g => f \in 0 .. g - 1) /\ (g < f => g \in 0 .. f - 1)
      OBVIOUS
    <3> QED
      BY <2>5, <3>1, <3>2
  <2>13. StandsOn(climbed[l], leaves, e, b, h)
    BY <2>8, <2>11, <2>12 DEF ClimbsFrom, Arrives
  <2>14. EndsRight(climbed[l], old_root, new_root)
    <3>1. b <= e /\ e \div Power(h) = 0
      BY <2>1, <2>4
    <3>2. /\ New(leaves, e, b, h) = Hash(leaves, 0, e + 1)
          /\ Old(leaves, b, h) = Hash(leaves, 0, b + 1)
      BY ONLY e \in Nat, b \in Nat, h \in Nat, <3>1, AtTheTop
    <3>3. /\ climbed[l].ok /\ climbed[l].fr = old_root
          /\ climbed[l].sr = new_root /\ climbed[l].sn = 0
      BY <1>3, <2>1, <2>13, <3>1, <3>2 DEF StandsOn, Reached
    <3> QED
      BY <3>3 DEF EndsRight, EndsAt
  <2>15. VerifyConsistency(m, n, old_root, new_root, proof)
    BY <2>1, <2>11, <2>14
  <2> QED
    BY <1>1, <1>2, <1>5, <2>8, <2>15
<1> QED
  BY <1>7, <1>8

\* What a consistency proof the code makes can show, of every earlier size.
LEMMA ConsistencyExact ==
    ASSUME NEW S, NEW leaves \in Seq(S), NEW m \in 1 .. Len(leaves),
           NEW proof, proof = ConsistencyProof(leaves, m)
    PROVE  /\ VerifyConsistency(m, Len(leaves), Root(SubSeq(leaves, 1, m)), Root(leaves), proof)
           /\ \A size \in 1 .. Len(leaves) : \A root :
                VerifyConsistency(size, Len(leaves), root, Root(leaves), proof) =>
                  root = Root(SubSeq(leaves, 1, size))
<1>1. leaves # <<>>
  <2>1. Len(<<>>) = 0
    OBVIOUS
  <2> QED
    BY <2>1
<1>2. /\ proof \in Seq(Parts(leaves))
      /\ VerifyConsistency(m, Len(leaves), Root(SubSeq(leaves, 1, m)), Root(leaves), proof)
  BY <1>1, ConsistencyComplete
<1>3. ASSUME NEW size \in 1 .. Len(leaves), NEW root,
             VerifyConsistency(size, Len(leaves), root, Root(leaves), proof)
      PROVE  root = Root(SubSeq(leaves, 1, size))
  BY <1>1, <1>2, <1>3, ConsistencySound
<1> QED
  BY <1>2, <1>3

\* Whatever has been added, in any number: the consistency proof of every earlier size
\* verifies against its root (consistency_proof and verify_consistency agree), and with
\* no other root, of a history that was altered or of another size.
THEOREM ConsistencyAlwaysExact ==
    BuilderSpec => []ConsistencyIsExact
<1> DEFINE Fed == added \in Seq(FileDigests)
<1>1. Fed => ConsistencyIsExact
  <2> SUFFICES ASSUME Fed PROVE ConsistencyIsExact
    OBVIOUS
  <2> DEFINE honest == [m \in Sizes |-> Root(Prefix(m))]
             Passes(proof, size, root) ==
               VerifyConsistency(size, Len(added), root, Root(added), proof)
  <2>1. \A size \in Sizes : honest[size] = Root(Prefix(size))
    OBVIOUS
  <2>2. ASSUME NEW m \in Sizes
        PROVE  /\ Passes(ConsistencyProof(added, m), m, honest[m])
               /\ \A size \in Sizes : \A root :
                    Passes(ConsistencyProof(added, m), size, root) => root = honest[size]
    <3>1. PICK proof : proof = ConsistencyProof(added, m)
      OBVIOUS
    <3>2. /\ VerifyConsistency(m, Len(added), Root(Prefix(m)), Root(added), proof)
          /\ \A size \in 1 .. Len(added) : \A root :
               VerifyConsistency(size, Len(added), root, Root(added), proof) =>
                 root = Root(Prefix(size))
      BY <3>1, ConsistencyExact DEF Sizes, Prefix
    <3> QED
      BY <2>1, <3>1, <3>2 DEF Sizes
  <2> HIDE DEF honest
  <2> QED
    BY <2>2 DEF ConsistencyIsExact, honest
<1> QED
  BY <1>1, AlwaysFed, PTL
===============================================================================
