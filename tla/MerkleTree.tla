------------------------------ MODULE MerkleTree ------------------------------
(***************************************************************************)
(* The Merkle tree of src/vcoc/merkle.py (verifier.py keeps a copy of the  *)
(* same rules): building it, its root, inclusion proofs and consistency    *)
(* proofs, and the streamed versions of them.  A hash is the term it was   *)
(* computed from: SHA-256 without collisions.  A leaf is a digest, and     *)
(* indexes count from 0, as in the code.                                   *)
(***************************************************************************)
EXTENDS Integers, Sequences, SequencesExt

LeafHash(leaf) == <<"leaf", leaf>>
NodeHash(left, right) == <<"node", left, right>>

NoNode == <<>>   \* None in the code

\* 1 << k
Power(k) ==
    LET power[j \in 0 .. k] == IF j = 0 THEN 1 ELSE 2 * power[j - 1]
    IN  power[k]

\* (n - 1).bit_length(): the levels above the leaves of a tree of n
Height(n) == CHOOSE h \in 0 .. n : n <= Power(h) /\ (h = 0 \/ Power(h - 1) < n)

\* Mutant: the rule of schema version 1, a lone node is paired with itself
UpPaired(level) ==
    [i \in 1 .. (Len(level) + 1) \div 2 |->
       NodeHash(level[2 * i - 1], level[IF 2 * i <= Len(level) THEN 2 * i ELSE 2 * i - 1])]

\* The level above: pairs are hashed, a lone last node moves up as it is
Up(level) ==
    LET n == Len(level)
    IN  [i \in 1 .. (n + 1) \div 2 |->
           IF 2 * i <= n THEN NodeHash(level[2 * i - 1], level[2 * i]) ELSE level[n]]

\* MerkleTree.levels, over a first level of nodes: up to the first level of one
LevelsOver(nodes) ==
    LET levels[h \in 0 .. Len(nodes)] == IF h = 0 THEN nodes ELSE Up(levels[h - 1])
        top == CHOOSE h \in 0 .. Len(nodes) :
                 Len(levels[h]) = 1 /\ \A g \in 0 .. h - 1 : Len(levels[g]) > 1
    IN  [h \in 0 .. top |-> levels[h]]

HashedLeaves(leaves) == [i \in 1 .. Len(leaves) |-> LeafHash(leaves[i])]

Levels(leaves) == LevelsOver(HashedLeaves(leaves))

Top(levels) == CHOOSE h \in DOMAIN levels : \A g \in DOMAIN levels : g <= h

RootOf(levels) == levels[Top(levels)][1]

Root(leaves) == RootOf(Levels(leaves))

-------------------------------------------------------------------------------
(* Inclusion proofs.                                                        *)

\* A proof as far as the level below; none is added where a lone node moves up
Climb(below, level) ==
    LET is_right == below.index % 2 = 1
        sibling  == IF is_right THEN below.index - 1 ELSE below.index + 1
    IN  [index |-> below.index \div 2,
         proof |-> IF sibling < Len(level)
                     THEN Append(below.proof,
                                 [sibling |-> level[sibling + 1], is_left |-> is_right])
                     ELSE below.proof]

\* The siblings on the way up from `index`
ProofOver(levels, index) ==
    LET climbed[h \in 0 .. Top(levels)] ==
          IF h = 0 THEN [index |-> index, proof |-> <<>>]
          ELSE Climb(climbed[h - 1], levels[h - 1])
    IN  climbed[Top(levels)].proof

GetProof(leaves, index) == ProofOver(Levels(leaves), index)

\* One step of a proof: the sibling stands on its side
WithSibling(node, step) ==
    IF step.is_left THEN NodeHash(step.sibling, node) ELSE NodeHash(node, step.sibling)

Computed(leaf, proof) ==
    LET computed[k \in 0 .. Len(proof)] ==
          IF k = 0 THEN LeafHash(leaf) ELSE WithSibling(computed[k - 1], proof[k])
    IN  computed[Len(proof)]

VerifyProof(leaf, proof, root) == Computed(leaf, proof) = root

\* merkle_proof_stream, over <<key, leaf>> items; index -1: the key is not found yet
Unread == [index |-> -1, leaf |-> NoNode, sibling |-> NoNode, want_next |-> FALSE,
           level |-> <<>>, previous |-> NoNode, n |-> 0]

\* Mutant: the sibling of a right leaf is forgotten
ReadNoLeft(target, s, item) ==
    LET raw   == LeafHash(item[2])
        right == s.n % 2 = 1
        found == s.index = -1 /\ item[1] = target
    IN  [index |-> IF found THEN s.n ELSE s.index,
         leaf |-> IF found THEN item[2] ELSE s.leaf,
         sibling |-> IF s.want_next THEN raw ELSE s.sibling,
         want_next |-> found /\ ~right,
         level |-> IF right THEN Append(s.level, NodeHash(s.previous, raw)) ELSE s.level,
         previous |-> IF right THEN s.previous ELSE raw,
         n |-> s.n + 1]

Read(target, s, item) ==
    LET raw   == LeafHash(item[2])
        right == s.n % 2 = 1
        found == s.index = -1 /\ item[1] = target
    IN  [index |-> IF found THEN s.n ELSE s.index,
         leaf |-> IF found THEN item[2] ELSE s.leaf,
         sibling |-> IF found /\ right THEN s.previous
                     ELSE IF s.want_next THEN raw ELSE s.sibling,
         want_next |-> found /\ ~right,
         level |-> IF right THEN Append(s.level, NodeHash(s.previous, raw)) ELSE s.level,
         previous |-> IF right THEN s.previous ELSE raw,
         n |-> s.n + 1]

NotFound == [index |-> -1]   \* its KeyError

ProofStream(items, target) ==
    LET read[k \in 0 .. Len(items)] ==
          IF k = 0 THEN Unread ELSE Read(target, read[k - 1], items[k])
        s      == read[Len(items)]
        levels == LevelsOver(IF s.n % 2 = 1 THEN Append(s.level, s.previous) ELSE s.level)
        first  == IF s.sibling = NoNode THEN <<>>
                  ELSE <<[sibling |-> s.sibling, is_left |-> s.index % 2 = 1]>>
    IN  IF s.index = -1 THEN NotFound
        ELSE [index |-> s.index, leaf |-> s.leaf, root |-> RootOf(levels),
              proof |-> IF s.n = 1 THEN <<>> ELSE first \o ProofOver(levels, s.index \div 2)]

\* The two hops of a folder member: to the folder's root, and on to the main root
VerifyNestedProof(leaf, proof, root) ==
    /\ VerifyProof(leaf, proof.local_proof, proof.subtree_root)
    /\ IF proof.folder_proof = <<>>
         THEN proof.subtree_root = root
         ELSE VerifyProof(proof.subtree_root, proof.folder_proof, root)

-------------------------------------------------------------------------------
(* Consistency of two sizes of one tree.                                    *)

\* The stored node over the leaves lo .. hi - 1
Node(levels, lo, hi) ==
    LET h == Height(hi - lo) IN levels[h][lo \div Power(h) + 1]

Bit(n, k) == (n \div Power(k)) % 2 = 1

\* A block, with what stands to the right of it
Merged(left, carry) == IF carry = NoNode THEN left ELSE NodeHash(left, carry)

\* One block of a prefix, the last before those that are carried
WithBlock(levels, s, block) ==
    [end |-> s.end - block, carry |-> Merged(Node(levels, s.end - block, s.end), s.carry)]

\* root_at: the complete blocks of the prefix, one per set bit of its size, folded
\* from the smallest up
RootAt(leaves, size) ==
    LET folded[k \in 0 .. size] ==
          IF k = 0 THEN [end |-> size, carry |-> NoNode]
          ELSE IF Bit(size, k - 1)
            THEN WithBlock(Levels(leaves), folded[k - 1], Power(k - 1))
          ELSE folded[k - 1]
    IN  folded[size].carry

ConsistencyProof(leaves, old_size) ==
    LET n      == Len(leaves)
        levels == Levels(leaves)
        sub[size \in 1 .. n] ==
          [m \in 1 .. size |-> [lo \in 0 .. n - size |-> [complete \in BOOLEAN |->
             LET k == Power(Height(size) - 1)
             IN  IF m = size
                   THEN IF complete THEN <<>> ELSE <<Node(levels, lo, lo + size)>>
                 ELSE IF m <= k
                   THEN Append(sub[k][m][lo][complete], Node(levels, lo + k, lo + size))
                 ELSE Append(sub[size - k][m - k][lo + k][FALSE], Node(levels, lo, lo + k))]]]
    IN  sub[n][old_size][0][TRUE]

\* How often the low bit of n is b before it is not
LowBits(n, b) == CHOOSE t \in 0 .. n : /\ \A k \in 0 .. t - 1 : Bit(n, k) = b
                                       /\ Bit(n, t) # b \/ n \div Power(t) = 0

\* One hash of a consistency proof: it stands to the left of both trees, or to the
\* right of the new one
WithHash(s, c) ==
    LET merges == s.fn % 2 = 1 \/ s.fn = s.sn
        down   == 1 + IF merges /\ s.fn # 0 THEN LowBits(s.fn, FALSE) ELSE 0
    IN  [fn |-> s.fn \div Power(down), sn |-> s.sn \div Power(down),
         fr |-> IF merges THEN NodeHash(c, s.fr) ELSE s.fr,
         sr |-> IF merges THEN NodeHash(c, s.sr) ELSE NodeHash(s.sr, c),
         ok |-> s.ok /\ s.sn # 0]

\* Mutant: the old root is not compared
EndsAtNew(end, old_root, new_root) == end.sr = new_root /\ end.sn = 0

\* The two roots that were climbed to are the two that were claimed
EndsAt(end, old_root, new_root) ==
    end.fr = old_root /\ end.sr = new_root /\ end.sn = 0

VerifyConsistency(old_size, new_size, old_root, new_root, proof) ==
    LET path  == (IF \E k \in 0 .. old_size : old_size = Power(k) THEN <<old_root>> ELSE <<>>)
                   \o proof
        skip  == LowBits(old_size - 1, TRUE)
        start == [fn |-> (old_size - 1) \div Power(skip), sn |-> (new_size - 1) \div Power(skip),
                  fr |-> path[1], sr |-> path[1], ok |-> TRUE]
        climbed[k \in 0 .. Len(path) - 1] ==
          IF k = 0 THEN start ELSE WithHash(climbed[k - 1], path[k + 1])
        end   == climbed[Len(path) - 1]
    IN  /\ 1 <= old_size /\ old_size <= new_size
        /\ IF old_size = new_size
             THEN proof = <<>> /\ old_root = new_root
             ELSE /\ proof # <<>>
                  /\ end.ok /\ EndsAt(end, old_root, new_root)
===============================================================================
