----------------------------- MODULE MerkleBuilder -----------------------------
(***************************************************************************)
(* MerkleRootBuilder (src/vcoc/merkle.py): the tree's root, fed one leaf   *)
(* at a time with one pending node per level, as a folder is ingested.     *)
(* Everything else the code computes of a tree is checked over the leaves  *)
(* the builder has been fed, against the definition of RFC 6962.           *)
(***************************************************************************)
EXTENDS MerkleTree, FiniteSets

CONSTANTS FileDigests, \* digests of files
          MaxLeaves    \* bound: leaves of a tree

ASSUME MerkleAssumption == MaxLeaves \in Nat

VARIABLES added,       \* the leaves, in order
          pending      \* per level from the leaves up: the node that waits for its sibling

builderVars == <<added, pending>>

BuilderInit == added = <<>> /\ pending = <<>>

\* add: pending nodes are merged upwards until a free level takes the result
Add(leaf) ==
    LET free == CHOOSE k \in 1 .. Len(pending) + 1 :
                  /\ k > Len(pending) \/ pending[k] = NoNode
                  /\ \A j \in 1 .. k - 1 : pending[j] # NoNode
        node[k \in 0 .. free - 1] ==
          IF k = 0 THEN LeafHash(leaf) ELSE NodeHash(pending[k], node[k - 1])
    IN  /\ Len(added) < MaxLeaves
        /\ added' = Append(added, leaf)
        /\ pending' = [k \in 1 .. IF free > Len(pending) THEN free ELSE Len(pending) |->
                         IF k < free THEN NoNode ELSE IF k = free THEN node[free - 1]
                         ELSE pending[k]]

\* root: the open subtrees, folded from the newest up
BuilderRoot ==
    LET carry[k \in 0 .. Len(pending)] ==
          IF k = 0 THEN NoNode
          ELSE IF pending[k] = NoNode THEN carry[k - 1]
          ELSE Merged(pending[k], carry[k - 1])
    IN  carry[Len(pending)]

BuilderNext == \E leaf \in FileDigests : Add(leaf)

BuilderSpec == BuilderInit /\ [][BuilderNext]_builderVars

-------------------------------------------------------------------------------
(* The reference: MTH of RFC 6962, section 2.1.                             *)

\* The largest power of two below n
Split(n) == CHOOSE p \in {Power(e) : e \in 0 .. n} : p < n /\ n <= 2 * p

\* The hash of `size` leaves after the first `lo`, at last of all of them
MTH(d) ==
    LET mth[size \in 1 .. Len(d)] == [lo \in 0 .. Len(d) - size |->
          IF size = 1 THEN LeafHash(d[lo + 1])
          ELSE NodeHash(mth[Split(size)][lo], mth[size - Split(size)][lo + Split(size)])]
    IN  mth[Len(d)][0]

-------------------------------------------------------------------------------
(* Properties.                                                             *)

\* pending holds a node at exactly the set bits of the leaf count
BuilderTypeOK ==
    /\ added \in Seq(FileDigests) /\ Len(added) <= MaxLeaves
    /\ \A k \in 1 .. Len(pending) : pending[k] # NoNode <=> Bit(Len(added), k - 1)

Sizes == 1 .. Len(added)
Prefix(m) == SubSeq(added, 1, m)

\* The tree, the streaming builder and every earlier size the tree can still
\* answer for have the root RFC 6962 defines.
RootsAreRFC6962 ==
    added # <<>> =>
      /\ Root(added) = MTH(added)
      /\ BuilderRoot = MTH(added)
      /\ \A m \in Sizes : RootAt(added, m) = MTH(Prefix(m))

\* The roots, with the types of the state: a subtree is pending for every bit of
\* the number of leaves (MerkleRootBuilder._pending).
BuilderInv == BuilderTypeOK /\ RootsAreRFC6962

\* Every leaf has a proof that verifies, no other digest passes at its place, and the
\* streamed proof of a key is the tree's proof of its leaf, step for step.
Items == [i \in Sizes |-> <<i, added[i]>>]

ProofsAreExact ==
    \A i \in Sizes :
      LET proof    == GetProof(added, i - 1)
          streamed == ProofStream(Items, i)
      IN  /\ \A leaf \in FileDigests : VerifyProof(leaf, proof, Root(added)) <=> leaf = added[i]
          /\ streamed = [index |-> i - 1, leaf |-> added[i], root |-> Root(added),
                         proof |-> proof]

\* The consistency proof of every earlier size verifies against that size's root,
\* and no proof takes the root of another history, or of another size, for it.
ConsistencyIsExact ==
    LET honest    == [m \in Sizes |-> Root(Prefix(m))]
        Forged(m) == {Root([Prefix(m) EXCEPT ![i] = x]) : i \in 1 .. m, x \in FileDigests}
    IN  \A m \in Sizes :
          LET proof == ConsistencyProof(added, m)
              Passes(size, root) ==
                VerifyConsistency(size, Len(added), root, Root(added), proof)
          IN  /\ Passes(m, honest[m])
              /\ \A root \in Forged(m) \ {honest[m]} : ~Passes(m, root)
              /\ \A size, k \in Sizes : Passes(size, honest[k]) => honest[k] = honest[size]
===============================================================================
