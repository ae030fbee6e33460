--------------------------------- MODULE MMR ---------------------------------
(***************************************************************************)
(* CMMR, the Merkle mountain range over the outputs of the extension       *)
(* blocks: Append, Rewind, GetRoot, GetProof and VerifyProof on the flat   *)
(* array vNodes.  Positions are those of the code and start at 0.          *)
(***************************************************************************)
EXTENDS Integers, Sequences, SequencesExt

CONSTANTS
  Leaf,        \* hashes that are appended
  MaxLeaves    \* bound on the number of leaves

ASSUME MMRAssumption == MaxLeaves \in Nat

VARIABLES
  vNodes,      \* all nodes, every parent right after its children's trees
  nLeaves

rangeVars == <<vNodes, nLeaves>>

\* SHA256 with the two prefixes, taken to be free of collisions: a hash is the
\* term it was made from, and uint256(0) is the hash of nothing.
Zero             == << >>
HashLeaf(x)      == <<"leaf", x>>
HashParent(l, r) == <<"node", l, r>>

Node(pos) == vNodes[pos + 1]

-----------------------------------------------------------------------------
(* Positions                                                                *)

\* 1ULL << h.
Pow2[h \in Nat] == IF h = 0 THEN 1 ELSE 2 * Pow2[h - 1]

BitLength[n \in Nat] == IF n = 0 THEN 0 ELSE 1 + BitLength[n \div 2]

PopCount[n \in Nat] == IF n = 0 THEN 0 ELSE (n % 2) + PopCount[n \div 2]

TrailingOnes[n \in Nat] == IF n % 2 = 0 THEN 0 ELSE 1 + TrailingOnes[n \div 2]

AllOnesBelow(n) ==
  LET bits == BitLength[n]
  IN  IF n = 0 THEN 0
      ELSE IF Pow2[bits] - 1 <= n THEN Pow2[bits] - 1 ELSE Pow2[bits - 1] - 1

LeafIndexToPos(i) == 2 * i - PopCount[i]

\* The loop of GetHeight, for n = nPos + 1.
HeightFrom[n \in Nat] ==
  LET peakSize == AllOnesBelow(n)
  IN  IF n = 0 THEN 0
      ELSE IF n = peakSize THEN BitLength[n] - 1 ELSE HeightFrom[n - peakSize]

GetHeight(pos) == HeightFrom[pos + 1]

SubtreeSize(h) == Pow2[h + 1] - 1

IsLeftSibling(pos) ==
  LET h == GetHeight(pos) IN GetHeight(pos + SubtreeSize(h)) = h

\* The count of a single tree.
MutNodeCountForLeaves(n) == 2 * n - 1

NodeCountForLeaves(n) == 2 * n - PopCount[n]

-----------------------------------------------------------------------------
(* Append and Rewind                                                        *)

\* The last node becomes the right child of a new one.
PushParent(nodes, height) ==
  LET right == Len(nodes)
      left  == right - SubtreeSize(height)
  IN  Append(nodes, HashParent(nodes[left], nodes[right]))

\* The loop of Append: one parent for every trailing one bit of the index of
\* the new leaf.
Merge(nodes, leafIndex) ==
  LET after[h \in 0 .. TrailingOnes[leafIndex]] ==
        IF h = 0 THEN nodes ELSE PushParent(after[h - 1], h - 1)
  IN  after[TrailingOnes[leafIndex]]

AppendHash(x) ==
  /\ nLeaves < MaxLeaves
  /\ vNodes' = Merge(Append(vNodes, HashLeaf(x)), nLeaves)
  /\ nLeaves' = nLeaves + 1

\* Rewind fails when the range is shorter than n.
Rewind(n) ==
  /\ n < nLeaves
  /\ NodeCountForLeaves(n) <= Len(vNodes)
  /\ vNodes' = SubSeq(vNodes, 1, NodeCountForLeaves(n))
  /\ nLeaves' = n

RangeInit == vNodes = << >> /\ nLeaves = 0

RangeNext ==
  \/ \E x \in Leaf : AppendHash(x)
  \/ \E n \in 0 .. MaxLeaves : Rewind(n)

RangeSpec == RangeInit /\ [][RangeNext]_rangeVars

-----------------------------------------------------------------------------
(* Root and proofs                                                          *)

\* A tree of height h, where that many leaves remain: its peak, its first leaf
\* and its size.
PushTree(m, h) ==
  IF m.remaining < Pow2[h] THEN m
  ELSE [remaining |-> m.remaining - Pow2[h],
        nodes     |-> m.nodes + SubtreeSize(h),
        trees     |-> Append(m.trees, [peak  |-> m.nodes + SubtreeSize(h) - 1,
                                       first |-> nLeaves - m.remaining,
                                       size  |-> Pow2[h]])]

\* The loop over the heights shared by GetPeaks and the search of myPeakIdx
\* in GetProof: for every one bit of nLeaves, from the highest, a tree.  The
\* code starts at height 63; above the length of nLeaves the loop does nothing.
Mountains ==
  LET top == BitLength[nLeaves]
      after[k \in 0 .. top] ==
        IF k = 0 THEN [remaining |-> nLeaves, nodes |-> 0, trees |-> << >>]
        ELSE PushTree(after[k - 1], top - k)
  IN  after[top].trees

GetPeaks == [i \in DOMAIN Mountains |-> Mountains[i].peak]

\* The peaks are bagged from the left.
MutBagLeft(peaks) ==
  FoldLeft(LAMBDA bag, p : HashParent(bag, Node(p)), Node(Head(peaks)), Tail(peaks))

\* The bag of the peaks, from the right.
Bag(peaks) ==
  LET bag[k \in 1 .. Len(peaks)] ==
        IF k = Len(peaks) THEN Node(peaks[k]) ELSE HashParent(Node(peaks[k]), bag[k + 1])
  IN  bag[1]

GetRoot ==
  LET peaks == GetPeaks
  IN  IF peaks = << >> \/ \E i \in DOMAIN peaks : peaks[i] >= Len(vNodes)
      THEN Zero ELSE Bag(peaks)

\* vBranch and vSide as one sequence; side says that the sibling is to the left.
Step(pos, side) == [hash |-> Node(pos), side |-> side]

\* A round of the loop of GetProof, which ends at a peak and where the sibling
\* is missing.
ClimbOne(w, peaks) ==
  LET isLeft  == IsLeftSibling(w.pos)
      size    == SubtreeSize(GetHeight(w.pos))
      sibling == IF isLeft THEN w.pos + size ELSE w.pos - size
      parent  == IF isLeft THEN sibling + 1 ELSE w.pos + 1
  IN  IF (\E k \in DOMAIN peaks : peaks[k] = w.pos) \/ sibling >= Len(vNodes) THEN w
      ELSE [pos |-> parent, path |-> Append(w.path, Step(sibling, ~isLeft))]

\* The siblings from a leaf up to its peak.  Every round goes to a higher
\* position, so there are no more rounds than nodes.
PathToPeak(leafPos, peaks) ==
  LET after[k \in 0 .. Len(vNodes)] ==
        IF k = 0 THEN [pos |-> leafPos, path |-> << >>] ELSE ClimbOne(after[k - 1], peaks)
  IN  after[Len(vNodes)].path

\* The proof of leaf i: up to its peak, then the peaks to the right, the last
\* one first, then those to the left.
GetProof(i) ==
  LET peaks == GetPeaks
      my    == CHOOSE k \in DOMAIN peaks :
                 i \in Mountains[k].first .. Mountains[k].first + Mountains[k].size - 1
      right == [k \in 1 .. Len(peaks) - my |-> Step(peaks[Len(peaks) + 1 - k], FALSE)]
      left  == [k \in 1 .. my - 1 |-> Step(peaks[my - k], TRUE)]
  IN  IF i >= nLeaves \/ LeafIndexToPos(i) >= Len(vNodes) THEN << >>
      ELSE PathToPeak(LeafIndexToPos(i), peaks) \o right \o left

Combine(h, s) == IF s.side THEN HashParent(s.hash, h) ELSE HashParent(h, s.hash)

\* The loop of VerifyProof.
Combined(x, proof) ==
  LET current[k \in 0 .. Len(proof)] ==
        IF k = 0 THEN HashLeaf(x) ELSE Combine(current[k - 1], proof[k])
  IN  current[Len(proof)]

\* A proof without siblings is taken for the proof of a single leaf.
MutVerifyProofNull(root, x, proof) == proof = << >> \/ Combined(x, proof) = root

VerifyProof(root, x, proof) == Combined(x, proof) = root

-----------------------------------------------------------------------------
(* Properties                                                               *)

\* The leaves, read back from their positions (GetLeafHash).
Leaves == [i \in 1 .. nLeaves |-> Node(LeafIndexToPos(i - 1))[2]]

\* The reference: a range of n leaves is that of the first k bagged with that
\* of the others, where k is the largest power of two below n.
LargestPowerBelow(n) == Pow2[BitLength[n - 1] - 1]

\* root[n][a] is the root of the n leaves after the first a.
RefRoot(leaves) ==
  LET root[n \in 0 .. Len(leaves)] ==
        [a \in 0 .. Len(leaves) - n |->
           IF n = 0 THEN Zero
           ELSE IF n = 1 THEN HashLeaf(leaves[a + 1])
           ELSE LET k == LargestPowerBelow(n)
                IN  HashParent(root[k][a], root[n - k][a + k])]
  IN  root[Len(leaves)][0]

\* After any appends and rewinds the root is a function of the leaves alone,
\* the one that the definition of the range gives.
RootExact == GetRoot = RefRoot(Leaves)

\* A proof convinces nobody of anything but the leaf it was made for.
ProofsSound ==
  \A i \in 0 .. nLeaves - 1 : \A x \in Leaf :
    VerifyProof(GetRoot, x, GetProof(i)) => x = Leaves[i + 1]

\* The proof of a leaf verifies exactly if the leaf is in one of the last two
\* mountains: to an earlier one GetProof gives the peaks on its right one by one
\* where the root has them bagged together.
ProofsVerifyAtEnd ==
  LET trees == Mountains
  IN  \A i \in 0 .. nLeaves - 1 :
        VerifyProof(GetRoot, Leaves[i + 1], GetProof(i))
          <=> (Len(trees) > 2 => i >= trees[Len(trees) - 1].first)

\* What a wallet can conclude from GetProof and VerifyProof.
ProofsDecide == ProofsSound /\ ProofsVerifyAtEnd

\* The range is a log of leaves: Append adds one at the end, Rewind cuts, and
\* neither disturbs the others.
LL == INSTANCE LeafLog WITH LeafValue <- Leaf, log <- Leaves

ImplementsLeafLog == LL!LeafLogSpec

=============================================================================
