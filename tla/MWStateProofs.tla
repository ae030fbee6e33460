---------------------------- MODULE MWStateProofs ----------------------------
(***************************************************************************)
(* Proofs about the two parts of the extension blocks, which share no      *)
(* state.                                                                  *)
(*                                                                         *)
(* MWState, for every tree of blocks and every window of undo data: the    *)
(* types, the undo data, which DisconnectBlock finds as it needs them,     *)
(* and that the state does not depend on the way the chain took.           *)
(*                                                                         *)
(* MMR, for every number of leaves: the array holds every complete tree    *)
(* at the positions the code computes; hence the range is a log of leaves, *)
(* its root is the one the leaves define, and a proof decides.             *)
(***************************************************************************)
EXTENDS MWState, MMR, FiniteSetTheorems, NaturalsInduction, SequenceTheorems,
        WellFoundedInduction, TLAPS

\* A state that a branch can have: types, and for every unspent output the entry
\* of its leaf.
StateOK(s) ==
  /\ s = [mapOutputs        |-> s.mapOutputs,
          setSpent          |-> s.setSpent,
          mmr               |-> s.mmr,
          mapMMRIndex       |-> s.mapMMRIndex,
          vKernelExcesses   |-> s.vKernelExcesses,
          nMWEBSupply       |-> s.nMWEBSupply,
          hashLatestMWBlock |-> s.hashLatestMWBlock,
          nHeight           |-> s.nHeight]
  /\ s.mapOutputs \in [Commitment -> Ext \cup {NoExt}]
  /\ s.setSpent \subseteq Commitment
  /\ s.mmr \in Seq(Commitment \X Ext)
  /\ s.mapMMRIndex \in [Commitment -> Nat \cup {NoIndex}]
  /\ s.vKernelExcesses \in Seq(Commitment)
  /\ s.nMWEBSupply \in Nat
  /\ \A c \in Commitment : s.mapOutputs[c] # NoExt =>
       /\ s.mapMMRIndex[c] \in Nat
       /\ s.mapMMRIndex[c] < Len(s.mmr)
       /\ s.mmr[s.mapMMRIndex[c] + 1] = <<c, s.mapOutputs[c]>>

\* The undo data of a block belong to the state of its parent's branch.
UndoOK(b) ==
  /\ b # Genesis
  /\ ExtOf[b] # NoExt
  /\ mapBlockUndo[b] = UndoOf(RefState[Prev[b]], b)
  /\ StateOK(RefState[Prev[b]])

\* PathIndependent is not inductive: that a block can be unwound depends on
\* what its undo data say, and on the state they were taken from.
IInv ==
  /\ tip \in Block /\ target \in Block /\ cursor \in Block
  /\ DOMAIN mapBlockUndo = Block
  /\ synced =>
       /\ mwState = RefState[cursor]
       /\ StateOK(mwState)
       /\ \A b \in Block : HasUndo(b) => UndoOK(b)

-----------------------------------------------------------------------------
(* ApplyBlock and its inverse                                               *)

\* A set of natural numbers that is not empty has a least element.
LEMMA Least ==
  ASSUME NEW T \in SUBSET Nat, T # {}
  PROVE  \E x \in T : \A y \in T : ~ (y < x)
<1> DEFINE R == OpToRel(<, Nat)
<1>1. \E x \in T : \A y \in T : ~ (<<y, x>> \in R)
  <2>1. IsWellFoundedOn(R, Nat)
    BY NatLessThanWellFounded
  <2> HIDE DEF R
  <2> QED BY <2>1, WFMin
<1>2. \A x, y \in Nat : y < x => <<y, x>> \in R
  BY DEF OpToRel
<1> HIDE DEF R
<1> QED BY <1>1, <1>2, Zenon

\* The part of a finite set up to i.
LEMMA CutFinite ==
  ASSUME NEW K, IsFiniteSet(K), NEW i
  PROVE  IsFiniteSet({j \in K : j <= i}) /\ Cardinality({j \in K : j <= i}) \in Nat
<1> DEFINE C == {j \in K : j <= i}
<1>1. C \in SUBSET K
  OBVIOUS
<1> HIDE DEF C
<1>2. IsFiniteSet(C)
  BY <1>1, FS_Subset
<1>3. Cardinality(C) \in Nat
  BY <1>2, FS_CardinalityType
<1> QED BY <1>2, <1>3 DEF C

\* One more element is counted exactly where it is in the set.
LEMMA CutGrows ==
  ASSUME NEW K \in SUBSET Nat, IsFiniteSet(K), NEW i \in Nat, i # 0
  PROVE  Cardinality({j \in K : j <= i}) =
           IF i \in K THEN Cardinality({j \in K : j <= i - 1}) + 1
           ELSE Cardinality({j \in K : j <= i - 1})
<1> DEFINE C == {j \in K : j <= i}
           D == {j \in K : j <= i - 1}
<1>1. CASE i \in K
  <2>0. \A j \in K : j <= i <=> j <= i - 1 \/ j = i
    OBVIOUS
  <2>1. C = D \cup {i} /\ i \notin D
    <3>1. \A x : x \in C <=> x \in D \cup {i}
      BY <1>1, <2>0
    <3>2. ~ (i <= i - 1)
      OBVIOUS
    <3> QED BY <3>1, <3>2
  <2>2. IsFiniteSet(D)
    BY CutFinite
  <2> HIDE DEF C, D
  <2>3. Cardinality(D \cup {i}) = Cardinality(D) + 1
    BY <2>1, <2>2, FS_AddElement
  <2>4. Cardinality(C) = Cardinality(D) + 1
    BY <2>1, <2>3
  <2> QED BY <1>1, <2>4 DEF C, D
<1>2. CASE i \notin K
  <2>0. \A j \in K : j <= i <=> j <= i - 1
    BY <1>2
  <2>1. C = D
    BY <2>0
  <2> QED BY <1>2, <2>1
<1> QED BY <1>1, <1>2

\* A set of numbers has for every k up to its size an element that is the k-th.
LEMMA NthExists ==
  ASSUME NEW n \in Nat, NEW K \in SUBSET (1 .. n), NEW k \in 1 .. Cardinality(K)
  PROVE  \E i \in K : Cardinality({j \in K : j <= i}) = k
<1> DEFINE F(i) == Cardinality({j \in K : j <= i})
<1>1. \A j \in K : j \in Nat /\ 1 <= j /\ j <= n
  OBVIOUS
<1>2. IsFiniteSet(K) /\ K \in SUBSET Nat
  <2>1. K \in SUBSET Nat
    BY <1>1
  <2> QED BY <1>1, <2>1, FS_BoundedSetOfNaturals
<1>4. F(0) = 0
  <2>0. \A j \in K : ~ (j <= 0)
    BY <1>1
  <2>1. {j \in K : j <= 0} = {}
    BY <2>0, Zenon
  <2> QED BY <2>1, FS_EmptySet
<1>5. F(n) = Cardinality(K)
  <2>1. {j \in K : j <= n} = K
    BY <1>1
  <2> QED BY <2>1
<1>6. ASSUME NEW i \in 1 .. n PROVE F(i) = IF i \in K THEN F(i - 1) + 1 ELSE F(i - 1)
  <2>1. i \in Nat /\ i # 0
    OBVIOUS
  <2> QED BY <1>2, <2>1, CutGrows
<1>7. \A i : F(i) \in Nat
  BY <1>2, CutFinite
<1> HIDE DEF F
<1> DEFINE T == {i \in 0 .. n : F(i) >= k}
<1>8. PICK x \in T : \A y \in T : ~ (y < x)
  <2>1. Cardinality(K) \in Nat
    BY <1>5, <1>7
  <2>2. n \in T
    BY <1>5, <1>7, <2>1
  <2>3. T \in SUBSET Nat
    OBVIOUS
  <2> HIDE DEF T
  <2> QED BY <2>2, <2>3, Least
<1>9. x \in 1 .. n
  BY <1>4, <1>8
<1>10. F(x - 1) < k
  <2>1. x - 1 \in 0 .. n /\ x - 1 < x
    BY <1>9
  <2>2. x - 1 \notin T
    BY <1>8, <2>1
  <2> QED BY <1>7, <2>1, <2>2
<1>11. F(x) >= k
  BY <1>8
<1>12. x \in K /\ F(x) = k
  BY <1>6, <1>7, <1>9, <1>10, <1>11
<1> QED BY <1>12 DEF F

\* AddOutput takes a sequence of commitments that are among the outputs.
LEMMA AddedType ==
  ASSUME NEW s, NEW e \in Ext
  PROVE  AddedOutputs(s, e) \in Seq(Commitment)
<1> DEFINE n == Len(Out[e])
           kept == {i \in DOMAIN Out[e] : s.mapOutputs[Out[e][i]] = NoExt}
           nth(k) == CHOOSE i \in kept : Cardinality({j \in kept : j <= i}) = k
<1>1. n \in Nat /\ DOMAIN Out[e] = 1 .. n /\ Out[e] \in [1 .. n -> Commitment]
  BY MWAssumption, LenProperties
<1>2. kept \in SUBSET (1 .. n)
  BY <1>1
<1>3. AddedOutputs(s, e) = [k \in 1 .. Cardinality(kept) |-> Out[e][nth(k)]]
  BY DEF AddedOutputs
<1>4. Cardinality(kept) \in Nat
  <2>1. kept \in SUBSET Nat /\ \A i \in kept : i <= n
    BY <1>1, <1>2
  <2> HIDE DEF kept, n
  <2>2. IsFiniteSet(kept)
    BY <1>1, <2>1, FS_BoundedSetOfNaturals
  <2> QED BY <2>2, FS_CardinalityType
<1> HIDE DEF kept, n
<1>5. ASSUME NEW k \in 1 .. Cardinality(kept) PROVE nth(k) \in 1 .. n
  <2>1. \E i \in kept : Cardinality({j \in kept : j <= i}) = k
    BY <1>1, <1>2, NthExists
  <2> QED BY <1>2, <2>1
<1> HIDE DEF nth
<1>6. \A k \in 1 .. Cardinality(kept) : Out[e][nth(k)] \in Commitment
  BY <1>1, <1>5
<1>7. AddedOutputs(s, e) \in [1 .. Cardinality(kept) -> Commitment]
  BY <1>3, <1>6
<1> QED BY <1>4, <1>7

\* They are new: mapOutputs has none of them.
LEMMA AddedNew ==
  ASSUME NEW s, NEW e \in Ext, NEW k \in DOMAIN AddedOutputs(s, e)
  PROVE  s.mapOutputs[AddedOutputs(s, e)[k]] = NoExt
<1> DEFINE n == Len(Out[e])
           kept == {i \in DOMAIN Out[e] : s.mapOutputs[Out[e][i]] = NoExt}
           nth(j) == CHOOSE i \in kept : Cardinality({l \in kept : l <= i}) = j
<1>1. n \in Nat /\ DOMAIN Out[e] = 1 .. n
  BY MWAssumption, LenProperties
<1>2. kept \in SUBSET (1 .. n)
  BY <1>1
<1>3. AddedOutputs(s, e) = [j \in 1 .. Cardinality(kept) |-> Out[e][nth(j)]]
  BY DEF AddedOutputs
<1>4. k \in 1 .. Cardinality(kept)
  BY <1>3
<1>5. nth(k) \in kept
  <2> HIDE DEF kept, n
  <2>1. \E i \in kept : Cardinality({l \in kept : l <= i}) = k
    BY <1>1, <1>2, <1>4, NthExists
  <2> QED BY <2>1
<1>6. AddedOutputs(s, e)[k] = Out[e][nth(k)]
  BY <1>3, <1>4
<1>7. s.mapOutputs[Out[e][nth(k)]] = NoExt
  BY <1>5
<1> QED BY <1>6, <1>7

\* The facts about ApplyBlock that the next lemmas share.
LEMMA AppliedFields ==
  ASSUME NEW b \in Block, ExtOf[b] # NoExt, NEW s
  PROVE  LET e == ExtOf[b]
             D == AddedOutputs(s, e)
         IN  /\ e \in Ext
             /\ D \in Seq(Commitment)
             /\ \A k \in DOMAIN D : s.mapOutputs[D[k]] = NoExt
             /\ SpentOutputs(s, e) \subseteq Commitment
             /\ SpentOutputs(s, e) \cap s.setSpent = {}
             /\ \A c \in SpentOutputs(s, e) : WithOutputs(s, e)[c] # NoExt
             /\ WithOutputs(s, e) =
                  [c \in Commitment |-> IF \E k \in DOMAIN D : D[k] = c
                                        THEN e ELSE s.mapOutputs[c]]
<1> DEFINE e == ExtOf[b]
           D == AddedOutputs(s, e)
<1>1. e \in Ext
  BY MWAssumption
<1>2. D \in Seq(Commitment) /\ \A k \in DOMAIN D : s.mapOutputs[D[k]] = NoExt
  BY <1>1, AddedType, AddedNew
<1>3. WithOutputs(s, e) =
        [c \in Commitment |-> IF \E k \in DOMAIN D : D[k] = c
                              THEN e ELSE s.mapOutputs[c]]
  BY DEF WithOutputs
<1>4. In[e] \subseteq Commitment
  BY <1>1, MWAssumption
<1> HIDE DEF D
<1> QED
  BY <1>1, <1>2, <1>3, <1>4 DEF SpentOutputs, D

\* Applying a block gives a state that its branch can have.
LEMMA AppliedOK ==
  ASSUME NEW b \in Block, ExtOf[b] # NoExt,
         NEW s, StateOK(s)
  PROVE  StateOK(Applied(s, b))
<1> DEFINE e == ExtOf[b]
           D == AddedOutputs(s, e)
           t == Applied(s, b)
           leaves == [k \in DOMAIN D |-> <<D[k], e>>]
<1>1. e \in Ext /\ D \in Seq(Commitment) /\ Kernels[e] \in Seq(Commitment) /\ PegIn[e] \in Nat
  BY AppliedFields, MWAssumption
<1>2. /\ SpentOutputs(s, e) \subseteq Commitment
      /\ WithOutputs(s, e) = [c \in Commitment |-> IF \E k \in DOMAIN D : D[k] = c
                                                   THEN e ELSE s.mapOutputs[c]]
  BY AppliedFields
<1>3. /\ DOMAIN D = 1 .. Len(D) /\ Len(D) \in Nat
      /\ \A k \in DOMAIN D : D[k] \in Commitment
  BY <1>1, LenProperties
<1>4. leaves \in Seq(Commitment \X Ext) /\ Len(leaves) = Len(D)
      /\ \A k \in 1 .. Len(D) : leaves[k] = <<D[k], e>>
  <2>1. leaves \in [1 .. Len(D) -> Commitment \X Ext]
    BY <1>1, <1>3
  <2> QED
    BY <1>3, <2>1
<1> HIDE DEF leaves
<1>5. t = [mapOutputs        |-> [c \in Commitment |-> IF c \in SpentOutputs(s, e) THEN NoExt
                                                       ELSE WithOutputs(s, e)[c]],
           setSpent          |-> s.setSpent \cup SpentOutputs(s, e),
           mmr               |-> s.mmr \o leaves,
           mapMMRIndex       |-> NewIndex(s, D),
           vKernelExcesses   |-> s.vKernelExcesses \o Kernels[e],
           nMWEBSupply       |-> s.nMWEBSupply + PegIn[e],
           hashLatestMWBlock |-> e,
           nHeight           |-> Height(b)]
  BY DEF Applied, leaves
<1> HIDE DEF D
<1>6. /\ s.mapOutputs \in [Commitment -> Ext \cup {NoExt}]
      /\ s.setSpent \subseteq Commitment
      /\ s.mmr \in Seq(Commitment \X Ext)
      /\ s.mapMMRIndex \in [Commitment -> Nat \cup {NoIndex}]
      /\ s.vKernelExcesses \in Seq(Commitment)
      /\ s.nMWEBSupply \in Nat
      /\ \A c \in Commitment : s.mapOutputs[c] # NoExt =>
           /\ s.mapMMRIndex[c] \in Nat
           /\ s.mapMMRIndex[c] < Len(s.mmr)
           /\ s.mmr[s.mapMMRIndex[c] + 1] = <<c, s.mapOutputs[c]>>
  BY DEF StateOK
<1>7. /\ s.mmr \o leaves \in Seq(Commitment \X Ext)
      /\ Len(s.mmr) \in Nat
      /\ Len(s.mmr \o leaves) = Len(s.mmr) + Len(D)
      /\ \A i \in 1 .. Len(s.mmr) + Len(D) :
           (s.mmr \o leaves)[i] = IF i <= Len(s.mmr) THEN s.mmr[i] ELSE leaves[i - Len(s.mmr)]
  <2> DEFINE S == Commitment \X Ext
             old == s.mmr
  <2>1. old \in Seq(S) /\ leaves \in Seq(S)
    BY <1>4, <1>6
  <2> HIDE DEF S, old
  <2>2. Len(old) \in Nat
    BY <2>1, LenProperties
  <2>3. /\ old \o leaves \in Seq(S)
        /\ Len(old \o leaves) = Len(old) + Len(leaves)
        /\ \A i \in 1 .. Len(old) + Len(leaves) :
             (old \o leaves)[i] = IF i <= Len(old) THEN old[i] ELSE leaves[i - Len(old)]
    BY <2>1, ConcatProperties
  <2> QED
    BY <1>4, <2>2, <2>3 DEF S, old
<1>8. s.vKernelExcesses \o Kernels[e] \in Seq(Commitment)
  BY <1>1, <1>6, ConcatProperties
\* The entry of an added output, and the entries of the others.
<1>9. ASSUME NEW c \in Commitment
      PROVE  /\ (\E k \in DOMAIN D : D[k] = c) =>
                  \E k \in DOMAIN D :
                    D[k] = c /\ NewIndex(s, D)[c] = Len(s.mmr) + k - 1
             /\ ~(\E k \in DOMAIN D : D[k] = c) =>
                  NewIndex(s, D)[c] = s.mapMMRIndex[c]
  BY DEF NewIndex
<1>10. NewIndex(s, D) \in [Commitment -> Nat \cup {NoIndex}]
  <2>1. ASSUME NEW c \in Commitment PROVE NewIndex(s, D)[c] \in Nat \cup {NoIndex}
    <3>1. CASE \E k \in DOMAIN D : D[k] = c
      <4>1. PICK k \in 1 .. Len(D) : NewIndex(s, D)[c] = Len(s.mmr) + k - 1
        BY <1>3, <1>9, <3>1
      <4> QED
        BY <1>3, <1>7, <4>1
    <3>2. CASE ~\E k \in DOMAIN D : D[k] = c
      BY <1>6, <1>9, <3>2
    <3> QED
      BY <3>1, <3>2
  <2> QED
    BY <2>1 DEF NewIndex
<1>12. ASSUME NEW c \in Commitment, t.mapOutputs[c] # NoExt
       PROVE  /\ t.mapMMRIndex[c] \in Nat
              /\ t.mapMMRIndex[c] < Len(t.mmr)
              /\ t.mmr[t.mapMMRIndex[c] + 1] = <<c, t.mapOutputs[c]>>
  <2>1. t.mapOutputs[c] = WithOutputs(s, e)[c]
    BY <1>5, <1>12
  <2>2. CASE \E k \in DOMAIN D : D[k] = c
    <3>1. PICK k \in 1 .. Len(D) :
            D[k] = c /\ NewIndex(s, D)[c] = Len(s.mmr) + k - 1
      BY <1>3, <1>9, <2>2
    <3>2. t.mapOutputs[c] = e
      BY <1>2, <2>1, <2>2
    <3>3. /\ Len(s.mmr) + k - 1 \in Nat
          /\ Len(s.mmr) + k - 1 < Len(s.mmr) + Len(D)
          /\ Len(s.mmr) + k \in 1 .. Len(s.mmr) + Len(D)
          /\ ~(Len(s.mmr) + k <= Len(s.mmr))
          /\ Len(s.mmr) + k - Len(s.mmr) = k
          /\ Len(s.mmr) + k - 1 + 1 = Len(s.mmr) + k
      <4> DEFINE n == Len(s.mmr)
                 m == Len(D)
      <4>1. n \in Nat /\ m \in Nat /\ k \in 1 .. m
        BY <1>3, <1>7
      <4> HIDE DEF n, m
      <4>2. /\ n + k - 1 \in Nat /\ n + k - 1 < n + m
            /\ n + k \in 1 .. n + m /\ ~(n + k <= n)
            /\ n + k - n = k /\ n + k - 1 + 1 = n + k
        BY <4>1
      <4> QED
        BY <4>2 DEF n, m
    <3>4. (s.mmr \o leaves)[Len(s.mmr) + k] = <<c, e>>
      BY <1>4, <1>7, <3>1, <3>3
    <3>5. t.mapMMRIndex[c] = Len(s.mmr) + k - 1 /\ t.mmr = s.mmr \o leaves
      BY <1>5, <3>1
    <3> HIDE DEF t
    <3>6. t.mapMMRIndex[c] + 1 = Len(s.mmr) + k
      BY <3>3, <3>5
    <3> QED
      BY <1>7, <3>2, <3>3, <3>4, <3>5, <3>6
  <2>3. CASE ~\E k \in DOMAIN D : D[k] = c
    <3> DEFINE i == s.mapMMRIndex[c]
    <3>1. t.mapOutputs[c] = s.mapOutputs[c] /\ s.mapOutputs[c] # NoExt
      BY <1>2, <1>12, <2>1, <2>3
    <3>2. NewIndex(s, D)[c] = i /\ i \in Nat /\ i < Len(s.mmr)
          /\ s.mmr[i + 1] = <<c, s.mapOutputs[c]>>
      BY <1>6, <1>9, <2>3, <3>1
    <3> HIDE DEF i
    <3>3. i < Len(s.mmr) + Len(D) /\ i + 1 \in 1 .. Len(s.mmr) + Len(D)
          /\ i + 1 <= Len(s.mmr)
      <4> DEFINE n == Len(s.mmr)
                 m == Len(D)
      <4>1. n \in Nat /\ m \in Nat /\ i \in Nat /\ i < n
        BY <1>3, <1>7, <3>2
      <4> HIDE DEF n, m
      <4>2. i < n + m /\ i + 1 \in 1 .. n + m /\ i + 1 <= n
        BY <4>1
      <4> QED
        BY <4>2 DEF n, m
    <3>4. (s.mmr \o leaves)[i + 1] = s.mmr[i + 1]
      BY <1>7, <3>3
    <3> QED
      BY <1>5, <1>7, <3>1, <3>2, <3>3, <3>4
  <2> QED
    BY <2>2, <2>3
<1>13. t.mapOutputs \in [Commitment -> Ext \cup {NoExt}]
  BY <1>1, <1>2, <1>5, <1>6
<1>14. t.setSpent \subseteq Commitment /\ t.nMWEBSupply \in Nat
  BY <1>1, <1>2, <1>5, <1>6
<1>15. /\ t.mmr \in Seq(Commitment \X Ext)
       /\ t.mapMMRIndex \in [Commitment -> Nat \cup {NoIndex}]
       /\ t.vKernelExcesses \in Seq(Commitment)
  BY <1>5, <1>7, <1>8, <1>10
<1>16. t = [mapOutputs        |-> t.mapOutputs,
            setSpent          |-> t.setSpent,
            mmr               |-> t.mmr,
            mapMMRIndex       |-> t.mapMMRIndex,
            vKernelExcesses   |-> t.vKernelExcesses,
            nMWEBSupply       |-> t.nMWEBSupply,
            hashLatestMWBlock |-> t.hashLatestMWBlock,
            nHeight           |-> t.nHeight]
  BY <1>5
<1> HIDE DEF t
<1>17. StateOK(t)
  BY <1>12, <1>13, <1>14, <1>15, <1>16, Zenon DEF StateOK
<1> QED
  BY <1>17 DEF t

\* Cutting a sequence back to the length it had undoes a concatenation.
LEMMA CutConcat ==
  ASSUME NEW S, NEW p \in Seq(S), NEW q \in Seq(S)
  PROVE  SubSeq(p \o q, 1, Len(p)) = p
<1>1. Len(p) \in Nat /\ p \in [1 .. Len(p) -> S]
  BY LenProperties
<1>2. \A i \in 1 .. Len(p) : (p \o q)[i] = p[i]
  BY <1>1, ConcatProperties, LenProperties
<1>3. SubSeq(p \o q, 1, Len(p)) = [i \in 1 .. Len(p) |-> (p \o q)[i]]
  BY <1>1
<1> QED
  BY <1>1, <1>2, <1>3

\* DisconnectBlock is the inverse of ApplyBlock if none of the outputs that were
\* added had an index entry before.
LEMMA UndoneApplied ==
  ASSUME NEW b \in Block, ExtOf[b] # NoExt, NEW s, StateOK(s),
         \A k \in DOMAIN AddedOutputs(s, ExtOf[b]) :
           s.mapMMRIndex[AddedOutputs(s, ExtOf[b])[k]] = NoIndex
  PROVE  Undone(Applied(s, b), UndoOf(s, b)) = s
<1> DEFINE e == ExtOf[b]
           D == AddedOutputs(s, e)
           t == Applied(s, b)
           u == UndoOf(s, b)
           leaves == [k \in DOMAIN D |-> <<D[k], e>>]
           spent == SpentOutputs(s, e)
           with == WithOutputs(s, e)
<1>1. /\ e \in Ext
      /\ D \in Seq(Commitment)
      /\ \A k \in DOMAIN D : s.mapOutputs[D[k]] = NoExt
      /\ spent \subseteq Commitment
      /\ spent \cap s.setSpent = {}
      /\ \A c \in spent : with[c] # NoExt
      /\ with = [c \in Commitment |-> IF \E k \in DOMAIN D : D[k] = c
                                      THEN e ELSE s.mapOutputs[c]]
  BY AppliedFields, ZenonT(60)
<1>2. /\ Kernels[e] \in Seq(Commitment) /\ PegIn[e] \in Nat
  BY <1>1, MWAssumption
<1>3. leaves \in Seq(Commitment \X Ext)
  <2>1. leaves \in [1 .. Len(D) -> Commitment \X Ext] /\ Len(D) \in Nat
    BY <1>1, <1>2, LenProperties
  <2> HIDE DEF leaves
  <2> QED
    BY <2>1
<1> HIDE DEF leaves, spent, with
<1>4. /\ t.mapOutputs = [c \in Commitment |-> IF c \in spent THEN NoExt ELSE with[c]]
      /\ t.setSpent = s.setSpent \cup spent
      /\ t.mmr = s.mmr \o leaves
      /\ t.mapMMRIndex = NewIndex(s, D)
      /\ t.vKernelExcesses = s.vKernelExcesses \o Kernels[e]
      /\ t.nMWEBSupply = s.nMWEBSupply + PegIn[e]
  BY DEF Applied, leaves, spent, with
<1>5. /\ u.vAddedOutputs = {D[k] : k \in DOMAIN D}
      /\ u.vSpentOutputs = [c \in Commitment |-> IF c \in spent THEN with[c] ELSE NoExt]
      /\ u.nMMRLeavesBefore = Len(s.mmr)
      /\ u.nKernelsBefore = Len(s.vKernelExcesses)
      /\ u.nSupplyDelta = PegIn[e]
      /\ u.hashPrevMWBlock = s.hashLatestMWBlock
      /\ u.nPrevHeight = s.nHeight
  BY DEF UndoOf, spent, with
<1> HIDE DEF t, u, D
<1>6. /\ s.mapOutputs \in [Commitment -> Ext \cup {NoExt}]
      /\ s.setSpent \subseteq Commitment
      /\ s.mmr \in Seq(Commitment \X Ext)
      /\ s.mapMMRIndex \in [Commitment -> Nat \cup {NoIndex}]
      /\ s.vKernelExcesses \in Seq(Commitment)
      /\ s.nMWEBSupply \in Nat
  BY DEF StateOK
<1>7. \A k \in DOMAIN D :
        s.mapOutputs[D[k]] = NoExt /\ s.mapMMRIndex[D[k]] = NoIndex
  BY <1>1 DEF D
<1>8. Undone(t, u).mapOutputs = s.mapOutputs
  <2>1. ASSUME NEW c \in Commitment
        PROVE  (IF c \in u.vAddedOutputs THEN NoExt
                ELSE IF u.vSpentOutputs[c] # NoExt THEN u.vSpentOutputs[c]
                ELSE t.mapOutputs[c]) = s.mapOutputs[c]
    <3>1. CASE c \in u.vAddedOutputs
      BY <1>5, <1>7, <3>1
    <3>2. CASE c \notin u.vAddedOutputs /\ c \in spent
      <4>0. ~ \E k \in DOMAIN D : D[k] = c
        <5>1. u.vAddedOutputs = {D[k] : k \in DOMAIN D}
          BY <1>5
        <5> QED BY ONLY <3>2, <5>1, Zenon
      <4>1. with[c] = s.mapOutputs[c] /\ with[c] # NoExt
        <5>1. with = [x \in Commitment |-> IF \E k \in DOMAIN D : D[k] = x
                                            THEN e ELSE s.mapOutputs[x]]
          BY <1>1
        <5>2. with[c] = s.mapOutputs[c]
          BY ONLY <4>0, <5>1, c \in Commitment
        <5> QED BY <1>1, <3>2, <5>2
      <4>2. u.vSpentOutputs[c] = with[c]
        BY <1>5, <3>2
      <4> QED BY <3>2, <4>1, <4>2
    <3>3. CASE c \notin u.vAddedOutputs /\ c \notin spent
      BY <1>1, <1>4, <1>5, <3>3
    <3> QED
      BY <3>1, <3>2, <3>3
  <2> QED
    BY <1>6, <2>1 DEF Undone
<1>9. Undone(t, u).setSpent = s.setSpent
  <2>1. Undone(t, u).setSpent = {c \in t.setSpent : u.vSpentOutputs[c] = NoExt}
    BY DEF Undone
  <2>2. \A c \in Commitment : u.vSpentOutputs[c] = NoExt <=> c \notin spent
    BY <1>1, <1>5
  <2> QED
    BY <1>1, <1>4, <1>6, <2>1, <2>2
<1>10. Undone(t, u).mmr = s.mmr /\ Undone(t, u).vKernelExcesses = s.vKernelExcesses
  <2>1. /\ Undone(t, u).mmr = SubSeq(s.mmr \o leaves, 1, Len(s.mmr))
        /\ Undone(t, u).vKernelExcesses =
             SubSeq(s.vKernelExcesses \o Kernels[e], 1, Len(s.vKernelExcesses))
    BY <1>4, <1>5 DEF Undone
  <2>2. SubSeq(s.mmr \o leaves, 1, Len(s.mmr)) = s.mmr
    <3> DEFINE S == Commitment \X Ext
    <3>1. s.mmr \in Seq(S) /\ leaves \in Seq(S)
      BY <1>3, <1>6
    <3> HIDE DEF S
    <3> QED
      BY <3>1, CutConcat
  <2>3. SubSeq(s.vKernelExcesses \o Kernels[e], 1, Len(s.vKernelExcesses)) = s.vKernelExcesses
    BY <1>2, <1>6, CutConcat
  <2> QED
    BY <2>1, <2>2, <2>3
<1>11. Undone(t, u).mapMMRIndex = s.mapMMRIndex
  <2>1. ASSUME NEW c \in Commitment
        PROVE  (IF c \in u.vAddedOutputs THEN NoIndex ELSE t.mapMMRIndex[c]) = s.mapMMRIndex[c]
    <3>1. CASE c \in u.vAddedOutputs
      BY <1>5, <1>7, <3>1
    <3>2. CASE c \notin u.vAddedOutputs
      BY <1>4, <1>5, <3>2 DEF NewIndex
    <3> QED
      BY <3>1, <3>2
  <2> QED
    BY <1>6, <2>1 DEF Undone
<1>12. /\ Undone(t, u).nMWEBSupply = s.nMWEBSupply
       /\ Undone(t, u).hashLatestMWBlock = s.hashLatestMWBlock
       /\ Undone(t, u).nHeight = s.nHeight
  BY <1>2, <1>4, <1>5, <1>6 DEF Undone
<1>13. Undone(t, u) = [mapOutputs        |-> Undone(t, u).mapOutputs,
                       setSpent          |-> Undone(t, u).setSpent,
                       mmr               |-> Undone(t, u).mmr,
                       mapMMRIndex       |-> Undone(t, u).mapMMRIndex,
                       vKernelExcesses   |-> Undone(t, u).vKernelExcesses,
                       nMWEBSupply       |-> Undone(t, u).nMWEBSupply,
                       hashLatestMWBlock |-> Undone(t, u).hashLatestMWBlock,
                       nHeight           |-> Undone(t, u).nHeight]
  BY DEF Undone
<1>14. s = [mapOutputs        |-> s.mapOutputs,
            setSpent          |-> s.setSpent,
            mmr               |-> s.mmr,
            mapMMRIndex       |-> s.mapMMRIndex,
            vKernelExcesses   |-> s.vKernelExcesses,
            nMWEBSupply       |-> s.nMWEBSupply,
            hashLatestMWBlock |-> s.hashLatestMWBlock,
            nHeight           |-> s.nHeight]
  BY DEF StateOK
<1> QED
  BY <1>8, <1>9, <1>10, <1>11, <1>12, <1>13, <1>14 DEF t, u

-----------------------------------------------------------------------------
(* The invariant                                                            *)

\* ConnectNext keeps the invariant.
LEMMA ConnectIInv ==
  ASSUME IInv, ConnectNext
  PROVE  IInv'
<1> DEFINE b == Toward(cursor, target)
<1>1. b \in Block \ {Genesis} /\ Prev[b] = cursor
  BY ChainAssumption DEF IInv, ConnectNext
<1>2. cursor' = b /\ tip' = tip /\ target' = target /\ synced' = synced
  BY DEF ConnectNext
<1>3. CASE ExtOf[b] = NoExt
  <2>1. UNCHANGED <<mwState, mapBlockUndo>>
    BY <1>3 DEF ConnectNext, ConnectBlock, mwVars
  <2>2. LastExt[b] = LastExt[cursor]
    BY <1>1, <1>3, BranchAssumption
  <2>3. RefState[b] = RefState[cursor]
    BY <1>1, <2>2, BranchAssumption DEF IInv
  <2> QED
    BY <1>1, <1>2, <2>1, <2>2, <2>3 DEF IInv, UndoOK, HasUndo
<1>4. CASE ExtOf[b] # NoExt
  <2>1. ValidateMWBlock(b) /\ mwState' = Applied(mwState, b) /\ RecordUndo(b)
    BY <1>4 DEF ConnectNext, ConnectBlock, ApplyBlock
  <2>2. DOMAIN mapBlockUndo' = Block
    BY <2>1 DEF RecordUndo
  <2>3. ASSUME synced
        PROVE  /\ mwState' = RefState[b]
               /\ StateOK(mwState')
               /\ \A a \in Block : HasUndo(a)' => UndoOK(a)'
    <3>1. mwState = RefState[cursor] /\ StateOK(mwState)
      BY <2>3 DEF IInv
    <3>2. LastExt[b] = b
      BY <1>1, <1>4, BranchAssumption
    <3>3. mwState' = RefState[b]
      BY <1>1, <2>1, <3>1, <3>2, BranchAssumption
    <3>5. StateOK(Applied(mwState, b))
      BY <1>1, <1>4, <3>1, AppliedOK
    <3>6. ASSUME NEW a \in Block, HasUndo(a)' PROVE UndoOK(a)'
      <4>1. mapBlockUndo'[a] # NoUndo
        BY <3>6 DEF HasUndo
      <4>2. CASE a = b
        <5>1. mapBlockUndo'[a] = UndoOf(mwState, b)
          BY <2>1, <4>2 DEF RecordUndo
        <5> QED
          BY <1>1, <1>4, <3>1, <4>2, <5>1 DEF UndoOK
      <4>3. CASE a # b
        <5>1. mapBlockUndo'[a] = mapBlockUndo[a]
          BY <2>1, <4>1, <4>3 DEF RecordUndo
        <5>2. UndoOK(a)
          BY <2>3, <4>1, <5>1 DEF IInv, HasUndo
        <5> QED
          BY <5>1, <5>2 DEF UndoOK
      <4> QED
        BY <4>2, <4>3
    <3> QED
      BY <2>1, <3>2, <3>3, <3>5, <3>6
  <2> QED
    BY <1>1, <1>2, <2>2, <2>3 DEF IInv
<1> QED
  BY <1>3, <1>4

\* DisconnectTip keeps the invariant: the undo data lead back to the state of
\* the parent's branch.
LEMMA DisconnectIInv ==
  ASSUME IInv, DisconnectTip
  PROVE  IInv'
<1> DEFINE b == cursor
<1>1. b \in Block \ {Genesis} /\ Prev[b] \in Block
  BY ChainAssumption, BlockAssumption DEF IInv, DisconnectTip
<1>2. cursor' = Prev[b] /\ tip' = tip /\ target' = target
      /\ (synced' => synced /\ ~Reuses(b))
  BY DEF DisconnectTip
<1>3. CASE mapBlockUndo[b] = NoUndo
  <2>1. ExtOf[b] = NoExt /\ UNCHANGED <<mwState, mapBlockUndo>>
    BY <1>3 DEF DisconnectTip, DisconnectBlock, mwVars
  <2>2. LastExt[b] = LastExt[Prev[b]]
    BY <1>1, <2>1, BranchAssumption
  <2>3. RefState[b] = RefState[Prev[b]]
    BY <1>1, <2>2, BranchAssumption
  <2> QED
    BY <1>1, <1>2, <2>1, <2>2, <2>3 DEF IInv, UndoOK, HasUndo
<1>4. CASE mapBlockUndo[b] # NoUndo
  <2>1. /\ mwState' = Undone(mwState, mapBlockUndo[b])
        /\ mapBlockUndo' = [mapBlockUndo EXCEPT ![b] = NoUndo]
    BY <1>4 DEF DisconnectTip, DisconnectBlock
  <2>2. DOMAIN mapBlockUndo' = Block
    BY <2>1 DEF IInv
  <2>3. ASSUME synced, ~Reuses(b)
        PROVE  /\ mwState' = RefState[Prev[b]]
               /\ StateOK(mwState')
               /\ \A a \in Block : HasUndo(a)' => UndoOK(a)'
    <3>1. mwState = RefState[b] /\ UndoOK(b)
      BY <1>1, <1>4, <2>3 DEF IInv, HasUndo
    <3>2. RefState[b] = Applied(RefState[Prev[b]], b)
      BY <1>1, <3>1, BranchAssumption DEF UndoOK
    <3>3. mwState' = RefState[Prev[b]]
      <4>1. /\ ExtOf[b] # NoExt /\ StateOK(RefState[Prev[b]])
            /\ \A k \in DOMAIN AddedOutputs(RefState[Prev[b]], ExtOf[b]) :
                 RefState[Prev[b]].mapMMRIndex[AddedOutputs(RefState[Prev[b]], ExtOf[b])[k]] = NoIndex
        BY <2>3, <3>1 DEF UndoOK, Reuses
      <4>2. Undone(Applied(RefState[Prev[b]], b), UndoOf(RefState[Prev[b]], b)) = RefState[Prev[b]]
        BY <1>1, <4>1, UndoneApplied
      <4> QED BY <2>1, <3>1, <3>2, <4>2 DEF UndoOK
    <3>4. ASSUME NEW a \in Block, HasUndo(a)' PROVE UndoOK(a)'
      <4>1. mapBlockUndo'[a] # NoUndo
        BY <3>4 DEF HasUndo
      <4>2. mapBlockUndo'[a] = mapBlockUndo[a]
        BY <2>1, <4>1 DEF IInv
      <4>3. UndoOK(a)
        BY <2>3, <4>1, <4>2 DEF IInv, HasUndo
      <4> QED
        BY <4>2, <4>3 DEF UndoOK
    <3> QED
      BY <3>1, <3>3, <3>4 DEF UndoOK
  <2> QED
    BY <1>1, <1>2, <2>2, <2>3 DEF IInv
<1> QED
  BY <1>3, <1>4

\* The empty state is that of a branch without extension blocks.
LEMMA EmptyOK == StateOK(EmptyState)
  BY DEF StateOK, EmptyState

\* Every step keeps the invariant.
LEMMA StepIInv == IInv /\ [Next]_vars => IInv'
<1> SUFFICES ASSUME IInv, [Next]_vars PROVE IInv'
  OBVIOUS
<1>1. ASSUME NEW b \in Block, SetBestChain(b) PROVE IInv'
  BY <1>1 DEF SetBestChain, mwVars, IInv, UndoOK, HasUndo
<1>2. CASE DisconnectTip
  BY <1>2, DisconnectIInv
<1>3. CASE ConnectNext
  BY <1>3, ConnectIInv
<1>4. CASE Commit
  BY <1>4 DEF Commit, mwVars, IInv, UndoOK, HasUndo
<1>5. CASE Abort
  <2>1. UNCHANGED <<mwState, mapBlockUndo, tip>> /\ target' = tip /\ cursor' = tip
        /\ synced' = (synced /\ LastExt[cursor] = LastExt[tip])
    BY <1>5 DEF Abort, mwVars
  <2>2. LastExt[cursor] = LastExt[tip] => RefState[cursor] = RefState[tip]
    BY BranchAssumption DEF IInv
  <2> QED
    BY <2>1, <2>2 DEF IInv, UndoOK, HasUndo
<1>6. CASE Restart
  <2>1. /\ mwState' = EmptyState /\ mapBlockUndo' = [b \in Block |-> NoUndo]
        /\ tip' = tip /\ target' = tip /\ cursor' = tip
        /\ synced' = (LastExt[tip] = Genesis)
    BY <1>6 DEF Restart
  <2>2. LastExt[tip] = Genesis => RefState[tip] = EmptyState
    BY BranchAssumption DEF IInv
  <2> QED
    BY <2>1, <2>2, EmptyOK DEF IInv, HasUndo
<1>7. CASE UNCHANGED vars
  BY <1>7 DEF vars, mwVars, chainVars, IInv, UndoOK, HasUndo
<1> QED
  BY <1>1, <1>2, <1>3, <1>4, <1>5, <1>6, <1>7 DEF Next

\* IInv holds initially.
LEMMA InitIInv == Init => IInv
<1> SUFFICES ASSUME Init PROVE IInv
  OBVIOUS
<1>1. LastExt[Genesis] = Genesis
  BY BlockAssumption, BranchAssumption
<1>2. RefState[Genesis] = EmptyState
  BY <1>1, BlockAssumption, BranchAssumption
<1> QED
  BY <1>2, EmptyOK, BlockAssumption DEF Init, IInv, HasUndo

\* IInv holds in every behaviour.
LEMMA Invariant == Spec => []IInv
<1>1. IInv /\ [Next]_vars => IInv'
  BY StepIInv
<1> QED
  BY <1>1, InitIInv, PTL DEF Spec

\* Whatever branches the chain has been on, and however often blocks were
\* applied and unwound, g_mwState is the state of the branch it stands on, as
\* long as no move was given up half way, no restart has lost it and no block was
\* left that had made a spent commitment of its branch again.
THEOREM StateOfBranch == Spec => []PathIndependent
<1>1. IInv => PathIndependent
  BY DEF IInv, PathIndependent
<1> QED
  BY <1>1, Invariant, PTL

\* Every unspent output can be proved: mapMMRIndex leads to its leaf, through
\* all rewinds of the range.
THEOREM ProofsAvailable == Spec => []ProofIndexExact
<1>1. IInv => ProofIndexExact
  BY MWAssumption DEF IInv, ProofIndexExact, StateOK
<1> QED
  BY <1>1, Invariant, PTL

-----------------------------------------------------------------------------
(* Types, also of a state that a move given up half way has left behind     *)

\* Heights are natural numbers.
LEMMA HeightType == ASSUME NEW b \in Block PROVE Height(b) \in Nat
<1>1. IsFiniteSet(Chain[b]) /\ Chain[b] # {}
  BY MWAssumption, ChainAssumption
<1>2. Cardinality(Chain[b]) \in Nat /\ Cardinality(Chain[b]) # 0
  BY <1>1, FS_CardinalityType, FS_EmptySet
<1> QED BY <1>2 DEF Height

\* The parts of what ApplyBlock does.
LEMMA AppliedParts ==
  ASSUME NEW s \in State, NEW e \in Ext
  PROVE  /\ WithOutputs(s, e) \in [Commitment -> Ext \cup {NoExt}]
         /\ SpentOutputs(s, e) \in SUBSET Commitment
         /\ NewIndex(s, AddedOutputs(s, e)) \in [Commitment -> Nat \cup {NoIndex}]
<1>1. s.mapOutputs \in [Commitment -> Ext \cup {NoExt}] /\ s.mapMMRIndex \in [Commitment -> Nat \cup {NoIndex}]
      /\ s.mmr \in Seq(Commitment \X Ext)
  BY DEF State
<1>2. WithOutputs(s, e) \in [Commitment -> Ext \cup {NoExt}]
  BY <1>1 DEF WithOutputs
<1>3. SpentOutputs(s, e) \in SUBSET Commitment
  BY MWAssumption DEF SpentOutputs
<1> DEFINE added == AddedOutputs(s, e)
           place(c) == CHOOSE k \in DOMAIN added : added[k] = c
<1>4. added \in Seq(Commitment)
  BY AddedType
<1> HIDE DEF added
<1>5. DOMAIN added = 1 .. Len(added) /\ Len(added) \in Nat /\ Len(s.mmr) \in Nat
  BY <1>1, <1>4, LenProperties
<1>6. ASSUME NEW c, \E k \in DOMAIN added : added[k] = c
      PROVE  Len(s.mmr) + place(c) - 1 \in Nat
  <2>1. place(c) \in DOMAIN added
    BY <1>6
  <2> HIDE DEF place
  <2> QED BY <1>5, <2>1
<1>7. NewIndex(s, added) \in [Commitment -> Nat \cup {NoIndex}]
  <2> DEFINE f(c) == IF \E k \in DOMAIN added : added[k] = c
                     THEN Len(s.mmr) + place(c) - 1 ELSE s.mapMMRIndex[c]
  <2>1. \A c \in Commitment : f(c) \in Nat \cup {NoIndex}
    BY <1>1, <1>6
  <2>2. NewIndex(s, added) = [c \in Commitment |-> f(c)]
    BY DEF NewIndex
  <2> HIDE DEF f
  <2> QED BY <2>1, <2>2
<1> QED BY <1>2, <1>3, <1>7 DEF added

\* Entries put at the end of a sequence.
LEMMA LongerType ==
  ASSUME NEW S, NEW p \in Seq(S), NEW q \in Seq(S)
  PROVE  /\ p \o q \in Seq(S)
         /\ Len(p) \in Nat /\ Len(p \o q) \in Nat /\ Len(p) <= Len(p \o q)
<1>1. Len(p) \in Nat /\ Len(q) \in Nat
  BY LenProperties
<1>2. p \o q \in Seq(S) /\ Len(p \o q) = Len(p) + Len(q)
  BY ConcatProperties
<1> QED BY <1>1, <1>2

\* ApplyBlock leaves a state, with no fewer leaves and kernels than before.
LEMMA AppliedType ==
  ASSUME NEW s \in State, NEW b \in Block, ExtOf[b] # NoExt
  PROVE  /\ Applied(s, b) \in State
         /\ Len(s.mmr) \in Nat /\ Len(s.vKernelExcesses) \in Nat
         /\ Len(Applied(s, b).mmr) \in Nat /\ Len(Applied(s, b).vKernelExcesses) \in Nat
         /\ Len(s.mmr) <= Len(Applied(s, b).mmr)
         /\ Len(s.vKernelExcesses) <= Len(Applied(s, b).vKernelExcesses)
<1> DEFINE e == ExtOf[b]
           added == AddedOutputs(s, e)
           leaves == [k \in DOMAIN added |-> <<added[k], e>>]
           outputs == [c \in Commitment |-> IF c \in SpentOutputs(s, e) THEN NoExt
                                            ELSE WithOutputs(s, e)[c]]
<1>1. e \in Ext
  BY MWAssumption
<1>2. /\ s.setSpent \in SUBSET Commitment
      /\ s.mmr \in Seq(Commitment \X Ext)
      /\ s.vKernelExcesses \in Seq(Commitment)
      /\ s.nMWEBSupply \in Int
  BY DEF State
<1>3. added \in Seq(Commitment)
  BY <1>1, AddedType
<1>4. /\ WithOutputs(s, e) \in [Commitment -> Ext \cup {NoExt}]
      /\ SpentOutputs(s, e) \in SUBSET Commitment
      /\ NewIndex(s, added) \in [Commitment -> Nat \cup {NoIndex}]
  BY <1>1, AppliedParts
<1>5. Kernels[e] \in Seq(Commitment) /\ PegIn[e] \in Nat
  BY <1>1, MWAssumption
<1>6. Applied(s, b) =
        [mapOutputs        |-> outputs,
         setSpent          |-> s.setSpent \cup SpentOutputs(s, e),
         mmr               |-> s.mmr \o leaves,
         mapMMRIndex       |-> NewIndex(s, added),
         vKernelExcesses   |-> s.vKernelExcesses \o Kernels[e],
         nMWEBSupply       |-> s.nMWEBSupply + PegIn[e],
         hashLatestMWBlock |-> e,
         nHeight           |-> Height(b)]
  BY DEF Applied
<1>7. outputs \in [Commitment -> Ext \cup {NoExt}]
  BY <1>4
<1> HIDE DEF e, added
<1>8. leaves \in Seq(Commitment \X Ext)
  <2>1. DOMAIN added = 1 .. Len(added) /\ Len(added) \in Nat
    BY <1>3, LenProperties
  <2>2. \A k \in 1 .. Len(added) : added[k] \in Commitment
    BY <1>3, ElementOfSeq
  <2>3. leaves \in [1 .. Len(added) -> Commitment \X Ext]
    BY <1>1, <2>1, <2>2
  <2> QED BY <2>1, <2>3
<1> HIDE DEF leaves, outputs
<1>9. /\ s.mmr \o leaves \in Seq(Commitment \X Ext)
      /\ Len(s.mmr) \in Nat /\ Len(s.mmr \o leaves) \in Nat
      /\ Len(s.mmr) <= Len(s.mmr \o leaves)
  BY <1>2, <1>8, LongerType
<1>10. /\ s.vKernelExcesses \o Kernels[e] \in Seq(Commitment)
       /\ Len(s.vKernelExcesses) \in Nat /\ Len(s.vKernelExcesses \o Kernels[e]) \in Nat
       /\ Len(s.vKernelExcesses) <= Len(s.vKernelExcesses \o Kernels[e])
  BY <1>2, <1>5, LongerType
<1>11. Height(b) \in Nat
  BY HeightType
<1>12. s.nMWEBSupply + PegIn[e] \in Int
  BY <1>2, <1>5
<1>13. s.setSpent \cup SpentOutputs(s, e) \in SUBSET Commitment
  BY <1>2, <1>4
<1> DEFINE mm == s.mmr \o leaves
           kk == s.vKernelExcesses \o Kernels[e]
           supply == s.nMWEBSupply + PegIn[e]
           gone == s.setSpent \cup SpentOutputs(s, e)
           index == NewIndex(s, added)
<1>14. Applied(s, b) = [mapOutputs |-> outputs, setSpent |-> gone, mmr |-> mm,
                        mapMMRIndex |-> index, vKernelExcesses |-> kk, nMWEBSupply |-> supply,
                        hashLatestMWBlock |-> e, nHeight |-> Height(b)]
  BY <1>6
<1>15. /\ mm \in Seq(Commitment \X Ext) /\ Len(mm) \in Nat /\ Len(s.mmr) <= Len(mm)
       /\ kk \in Seq(Commitment) /\ Len(kk) \in Nat /\ Len(s.vKernelExcesses) <= Len(kk)
  BY <1>9, <1>10
<1>16. supply \in Int /\ gone \in SUBSET Commitment
       /\ index \in [Commitment -> Nat \cup {NoIndex}]
  BY <1>4, <1>12, <1>13
<1> HIDE DEF mm, kk, supply, gone, index
<1>17. Applied(s, b) \in State
  BY <1>1, <1>7, <1>11, <1>14, <1>15, <1>16 DEF State
<1>18. Applied(s, b).mmr = mm /\ Applied(s, b).vKernelExcesses = kk
  BY <1>14
<1> QED BY <1>9, <1>10, <1>15, <1>17, <1>18

\* What ApplyBlock saves are undo data, and no entry is taken for none.
LEMMA UndoOfType ==
  ASSUME NEW s \in State, NEW b \in Block, ExtOf[b] # NoExt
  PROVE  /\ UndoOf(s, b) \in Undo
         /\ UndoOf(s, b) # NoUndo
         /\ UndoOf(s, b).nMMRLeavesBefore = Len(s.mmr)
         /\ UndoOf(s, b).nKernelsBefore = Len(s.vKernelExcesses)
<1> DEFINE e == ExtOf[b]
           added == AddedOutputs(s, e)
           taken == {added[k] : k \in DOMAIN added}
           spent == [c \in Commitment |-> IF c \in SpentOutputs(s, e)
                                          THEN WithOutputs(s, e)[c] ELSE NoExt]
<1>1. e \in Ext
  BY MWAssumption
<1>2. Len(s.mmr) \in Nat /\ Len(s.vKernelExcesses) \in Nat
  BY AppliedType
<1>3. s.hashLatestMWBlock \in Ext \cup {NoExt} /\ s.nHeight \in Nat
  BY DEF State
<1>4. PegIn[e] \in Nat
  BY <1>1, MWAssumption
<1>5. spent \in [Commitment -> Ext \cup {NoExt}]
  BY <1>1, AppliedParts
<1>6. taken \in SUBSET Commitment
  <2>1. added \in Seq(Commitment)
    BY <1>1, AddedType
  <2> HIDE DEF added
  <2>2. \A k \in DOMAIN added : added[k] \in Commitment
    BY <2>1, ElementOfSeq, LenProperties
  <2> QED BY <2>2
<1>7. UndoOf(s, b) = [vAddedOutputs    |-> taken,
                      vSpentOutputs    |-> spent,
                      nMMRLeavesBefore |-> Len(s.mmr),
                      nKernelsBefore   |-> Len(s.vKernelExcesses),
                      nSupplyDelta     |-> PegIn[e],
                      hashPrevMWBlock  |-> s.hashLatestMWBlock,
                      nPrevHeight      |-> s.nHeight]
  BY DEF UndoOf
<1> HIDE DEF e, added, taken, spent
<1>8. UndoOf(s, b) \in Undo
  BY <1>2, <1>3, <1>4, <1>5, <1>6, <1>7 DEF Undo
<1> QED BY <1>7, <1>8, UndoAssumption

\* Rewind: the first m entries of a sequence.
LEMMA CutType ==
  ASSUME NEW S, NEW q \in Seq(S), NEW m \in Nat, m <= Len(q)
  PROVE  SubSeq(q, 1, m) \in Seq(S) /\ Len(SubSeq(q, 1, m)) = m
<1>1. Len(q) \in Nat /\ \A i \in 1 .. Len(q) : q[i] \in S
  BY LenProperties, ElementOfSeq
<1>2. \A i \in 1 .. m : q[i] \in S
  BY <1>1
<1>3. SubSeq(q, 1, m) \in Seq(S)
  BY <1>1, <1>2, SubSeqProperties
<1> QED BY <1>3, SubSeqProperties

\* DisconnectBlock leaves a state, cut to the sizes that the undo data say.
LEMMA UndoneType ==
  ASSUME NEW s \in State, NEW u \in Undo,
         u.nMMRLeavesBefore <= Len(s.mmr), u.nKernelsBefore <= Len(s.vKernelExcesses)
  PROVE  /\ Undone(s, u) \in State
         /\ Len(Undone(s, u).mmr) = u.nMMRLeavesBefore
         /\ Len(Undone(s, u).vKernelExcesses) = u.nKernelsBefore
<1> DEFINE m == u.nMMRLeavesBefore
           k == u.nKernelsBefore
           outputs == [c \in Commitment |->
                         IF c \in u.vAddedOutputs THEN NoExt
                         ELSE IF u.vSpentOutputs[c] # NoExt THEN u.vSpentOutputs[c]
                         ELSE s.mapOutputs[c]]
           spent == {c \in s.setSpent : u.vSpentOutputs[c] = NoExt}
           index == [c \in Commitment |-> IF c \in u.vAddedOutputs THEN NoIndex
                                          ELSE s.mapMMRIndex[c]]
<1>1. /\ s.mapOutputs \in [Commitment -> Ext \cup {NoExt}]
      /\ s.setSpent \in SUBSET Commitment
      /\ s.mmr \in Seq(Commitment \X Ext)
      /\ s.mapMMRIndex \in [Commitment -> Nat \cup {NoIndex}]
      /\ s.vKernelExcesses \in Seq(Commitment)
      /\ s.nMWEBSupply \in Int
  BY DEF State
<1>2. /\ u.vSpentOutputs \in [Commitment -> Ext \cup {NoExt}]
      /\ m \in Nat /\ k \in Nat /\ u.nSupplyDelta \in Nat
      /\ u.hashPrevMWBlock \in Ext \cup {NoExt} /\ u.nPrevHeight \in Nat
  BY DEF Undo
<1>3. outputs \in [Commitment -> Ext \cup {NoExt}]
  BY <1>1, <1>2
<1>4. spent \in SUBSET Commitment /\ index \in [Commitment -> Nat \cup {NoIndex}]
  BY <1>1
<1>5. SubSeq(s.mmr, 1, m) \in Seq(Commitment \X Ext) /\ Len(SubSeq(s.mmr, 1, m)) = m
  BY <1>1, <1>2, CutType
<1>6. SubSeq(s.vKernelExcesses, 1, k) \in Seq(Commitment)
      /\ Len(SubSeq(s.vKernelExcesses, 1, k)) = k
  BY <1>1, <1>2, CutType
<1>7. Undone(s, u) =
        [mapOutputs        |-> outputs,
         setSpent          |-> spent,
         mmr               |-> SubSeq(s.mmr, 1, m),
         mapMMRIndex       |-> index,
         vKernelExcesses   |-> SubSeq(s.vKernelExcesses, 1, k),
         nMWEBSupply       |-> s.nMWEBSupply - u.nSupplyDelta,
         hashLatestMWBlock |-> u.hashPrevMWBlock,
         nHeight           |-> u.nPrevHeight]
  BY DEF Undone
<1>8. s.nMWEBSupply - u.nSupplyDelta \in Int
  BY <1>1, <1>2
<1> DEFINE mm == SubSeq(s.mmr, 1, m)
           kk == SubSeq(s.vKernelExcesses, 1, k)
           supply == s.nMWEBSupply - u.nSupplyDelta
           latest == u.hashPrevMWBlock
           height == u.nPrevHeight
<1>9. Undone(s, u) = [mapOutputs |-> outputs, setSpent |-> spent, mmr |-> mm,
                      mapMMRIndex |-> index, vKernelExcesses |-> kk, nMWEBSupply |-> supply,
                      hashLatestMWBlock |-> latest, nHeight |-> height]
  BY <1>7
<1>10. /\ mm \in Seq(Commitment \X Ext) /\ kk \in Seq(Commitment) /\ supply \in Int
       /\ latest \in Ext \cup {NoExt} /\ height \in Nat /\ Len(mm) = m /\ Len(kk) = k
  BY <1>2, <1>5, <1>6, <1>8
<1> HIDE DEF outputs, spent, index, mm, kk, supply, latest, height
<1>11. Undone(s, u) \in State
  BY <1>3, <1>4, <1>9, <1>10 DEF State
<1> QED BY <1>9, <1>10, <1>11

-----------------------------------------------------------------------------
(* The undo data                                                            *)

\* x is an entry of the sequence q.
Holds(q, x) == \E i \in DOMAIN q : q[i] = x

\* No entry of q is there twice.
NoRepeat(q) == \A i, j \in DOMAIN q : q[i] = q[j] => i = j

\* The entries of r are in q, in the same order.
OrderKept(r, q) ==
  \A i, j \in DOMAIN r : i < j =>
    \E l, m \in DOMAIN q : l < m /\ r[i] = q[l] /\ r[j] = q[m]

\* Erasing the block b from the order takes it out and nothing else.
LEMMA ErasedOrder ==
  ASSUME NEW q \in Seq(Block), NoRepeat(q), NEW b, Holds(q, b)
  PROVE  /\ Erased(q, b) \in Seq(Block)
         /\ Len(Erased(q, b)) <= Len(q)
         /\ \A x : Holds(Erased(q, b), x) <=> Holds(q, x) /\ x # b
         /\ NoRepeat(Erased(q, b))
         /\ OrderKept(Erased(q, b), q)
<1> DEFINE n == Len(q)
           at(i) == q[i] = b /\ \A j \in 1 .. i - 1 : q[j] # b
           r == Erased(q, b)
<1>1. n \in Nat /\ DOMAIN q = 1 .. n /\ q \in [1 .. n -> Block]
  BY LenProperties
<1> HIDE DEF n
<1>2. PICK p \in 1 .. n : q[p] = b
  BY <1>1 DEF Holds
<1>3. \A i \in 1 .. n : q[i] = b => i = p
  BY <1>1, <1>2 DEF NoRepeat
<1>4. at(p)
  BY <1>1, <1>2, <1>3
<1>5. \A i \in DOMAIN q : at(i) <=> i = p
  BY <1>1, <1>3, <1>4
<1>6. (CHOOSE i \in DOMAIN q : at(i)) = p
  <2>1. p \in DOMAIN q
    BY <1>1
  <2> HIDE DEF at
  <2> QED BY <1>5, <2>1
<1>7. r = [k \in 1 .. n - 1 |-> IF k < p THEN q[k] ELSE q[k + 1]]
  BY <1>6 DEF Erased, Holds, n
<1> HIDE DEF r
<1>8. r \in [1 .. n - 1 -> Block]
  <2>1. \A k \in 1 .. n - 1 : k \in 1 .. n /\ k + 1 \in 1 .. n
    BY <1>1
  <2>2. \A k \in 1 .. n - 1 : q[k] \in Block /\ q[k + 1] \in Block
    BY <1>1, <2>1
  <2> QED BY <1>7, <2>2
<1>9. n - 1 \in Nat
  BY <1>1, <1>2
<1>10. r \in Seq(Block) /\ Len(r) = n - 1 /\ DOMAIN r = 1 .. n - 1
  BY <1>8, <1>9
<1>11. ASSUME NEW k \in 1 .. n - 1
       PROVE  \E m \in 1 .. n : m # p /\ r[k] = q[m]
                                /\ m = IF k < p THEN k ELSE k + 1
  BY <1>1, <1>2, <1>7
<1>12. ASSUME NEW m \in 1 .. n, m # p
       PROVE  \E k \in 1 .. n - 1 : r[k] = q[m]
  <2>1. CASE m < p
    <3>1. m \in 1 .. n - 1 /\ r[m] = q[m]
      BY <1>1, <1>2, <1>7, <2>1
    <3> QED BY <3>1
  <2>2. CASE ~ (m < p)
    <3>1. m - 1 \in 1 .. n - 1 /\ ~ (m - 1 < p) /\ (m - 1) + 1 = m
      BY <1>1, <1>2, <1>12, <2>2
    <3>2. r[m - 1] = q[m]
      BY <1>7, <3>1
    <3> QED BY <3>1, <3>2
  <2> QED BY <2>1, <2>2
<1>13. ASSUME NEW x PROVE Holds(r, x) <=> Holds(q, x) /\ x # b
  <2>1. ASSUME Holds(r, x) PROVE Holds(q, x) /\ x # b
    <3>1. PICK k \in 1 .. n - 1 : r[k] = x
      BY <1>10, <2>1 DEF Holds
    <3>2. PICK m \in 1 .. n : m # p /\ r[k] = q[m]
      BY <1>11
    <3> QED BY <1>1, <1>3, <3>1, <3>2 DEF Holds
  <2>2. ASSUME Holds(q, x), x # b PROVE Holds(r, x)
    <3>1. PICK m \in 1 .. n : q[m] = x
      BY <1>1, <2>2 DEF Holds
    <3>2. m # p
      BY <1>2, <2>2, <3>1
    <3> QED BY <1>10, <1>12, <3>1, <3>2 DEF Holds
  <2> QED BY <2>1, <2>2
<1>14. ASSUME NEW i \in 1 .. n - 1, NEW j \in 1 .. n - 1, i < j
       PROVE  \E l, m \in 1 .. n : l < m /\ r[i] = q[l] /\ r[j] = q[m]
  <2>1. PICK l \in 1 .. n : r[i] = q[l] /\ l = IF i < p THEN i ELSE i + 1
    BY <1>11
  <2>2. PICK m \in 1 .. n : r[j] = q[m] /\ m = IF j < p THEN j ELSE j + 1
    BY <1>11
  <2>3. l < m
    BY <1>2, <1>14, <2>1, <2>2
  <2> QED BY <2>1, <2>2, <2>3
<1>15. OrderKept(r, q)
  BY <1>1, <1>10, <1>14 DEF OrderKept
<1>16. NoRepeat(r)
  <2> SUFFICES ASSUME NEW i \in 1 .. n - 1, NEW j \in 1 .. n - 1, r[i] = r[j], i # j
               PROVE  FALSE
    BY <1>10 DEF NoRepeat
  <2>1. i < j \/ j < i
    BY <1>9
  <2>2. \E l, m \in 1 .. n : l < m /\ q[l] = q[m]
    BY <1>14, <2>1
  <2>3. PICK l, m \in 1 .. n : l < m /\ q[l] = q[m]
    BY <2>2
  <2>4. l = m
    BY <1>1, <2>3 DEF NoRepeat
  <2> QED BY <2>3, <2>4
<1> QED BY <1>1, <1>9, <1>10, <1>13, <1>15, <1>16 DEF r, n

\* x comes before y in q with b at its end.
Before(q, b, x, y) ==
  \/ Holds(q, x) /\ y = b
  \/ \E l, m \in DOMAIN q : l < m /\ x = q[l] /\ y = q[m]

\* A new block at the end of the order.
LEMMA PushedOrder ==
  ASSUME NEW q \in Seq(Block), NoRepeat(q), NEW b \in Block, ~ Holds(q, b)
  PROVE  /\ Append(q, b) \in Seq(Block) /\ Append(q, b) # << >>
         /\ Len(Append(q, b)) = Len(q) + 1
         /\ q # << >> => Append(q, b)[1] = q[1]
         /\ \A x : Holds(Append(q, b), x) <=> Holds(q, x) \/ x = b
         /\ NoRepeat(Append(q, b))
         /\ \A i, j \in DOMAIN Append(q, b) : i < j => Before(q, b, Append(q, b)[i], Append(q, b)[j])
<1> DEFINE n == Len(q)
           a == Append(q, b)
<1>1. n \in Nat /\ DOMAIN q = 1 .. n /\ q \in [1 .. n -> Block] /\ (q # << >> => n # 0)
  BY LenProperties, EmptySeq
<1>2. /\ a \in Seq(Block) /\ Len(a) = n + 1 /\ DOMAIN a = 1 .. n + 1 /\ a # << >>
      /\ \A i \in 1 .. n : a[i] = q[i]
      /\ a[n + 1] = b
  BY AppendProperties, LenProperties
<1> HIDE DEF a, n
<1>3. \A i \in 1 .. n + 1 : a[i] = b <=> i = n + 1
  BY <1>1, <1>2 DEF Holds
<1>4. \A i, j \in 1 .. n + 1 : a[i] = a[j] => i = j
  <2>1. ASSUME NEW i \in 1 .. n, NEW j \in 1 .. n, a[i] = a[j] PROVE i = j
    BY <1>1, <1>2, <2>1 DEF NoRepeat
  <2> QED BY <1>1, <1>2, <1>3, <2>1
<1>5. NoRepeat(a)
  BY <1>2, <1>4 DEF NoRepeat
<1>6. \A x : Holds(a, x) <=> Holds(q, x) \/ x = b
  BY <1>1, <1>2 DEF Holds
<1>7. ASSUME NEW i \in 1 .. n + 1, NEW j \in 1 .. n + 1, i < j PROVE Before(q, b, a[i], a[j])
  BY <1>1, <1>2, <1>7 DEF Holds, Before
<1>8. q # << >> => a[1] = q[1]
  BY <1>1, <1>2
<1>9. \A i, j \in DOMAIN a : i < j => Before(q, b, a[i], a[j])
  BY <1>2, <1>7
<1> QED BY <1>2, <1>5, <1>6, <1>8, <1>9 DEF a, n

\* The order without its first block.
LEMMA PoppedOrder ==
  ASSUME NEW a \in Seq(Block), NoRepeat(a), a # << >>
  PROVE  /\ Head(a) = a[1]
         /\ Tail(a) \in Seq(Block) /\ Len(Tail(a)) = Len(a) - 1
         /\ \A x : Holds(Tail(a), x) <=> Holds(a, x) /\ x # a[1]
         /\ NoRepeat(Tail(a))
         /\ \A i \in DOMAIN Tail(a) : i + 1 \in DOMAIN a /\ Tail(a)[i] = a[i + 1]
<1> DEFINE n == Len(a)
           r == Tail(a)
<1>1. n \in Nat /\ n # 0 /\ DOMAIN a = 1 .. n
  BY LenProperties, EmptySeq
<1>2. r \in Seq(Block) /\ Len(r) = n - 1 /\ DOMAIN r = 1 .. n - 1
      /\ \A i \in 1 .. n - 1 : r[i] = a[i + 1]
  BY HeadTailProperties, LenProperties
<1>3. Head(a) = a[1]
  OBVIOUS
<1> HIDE DEF n, r
<1>4. \A i \in 1 .. n - 1 : i \in Nat /\ i + 1 \in 1 .. n /\ i + 1 # 1
  BY <1>1
<1>5. 1 \in 1 .. n
  BY <1>1
<1>6. ASSUME NEW x, Holds(r, x) PROVE Holds(a, x) /\ x # a[1]
  <2>1. PICK i \in 1 .. n - 1 : r[i] = x
    BY <1>2, <1>6 DEF Holds
  <2>2. a[i + 1] = x /\ i + 1 \in DOMAIN a /\ 1 \in DOMAIN a /\ i + 1 # 1
    BY <1>1, <1>2, <1>4, <1>5, <2>1
  <2> QED BY <2>2 DEF Holds, NoRepeat
<1>7. ASSUME NEW x, Holds(a, x), x # a[1] PROVE Holds(r, x)
  <2>1. PICK i \in 1 .. n : a[i] = x
    BY <1>1, <1>7 DEF Holds
  <2>2. i - 1 \in 1 .. n - 1 /\ (i - 1) + 1 = i
    BY <1>1, <1>7, <2>1
  <2>3. r[i - 1] = x
    BY <1>2, <2>1, <2>2
  <2> QED BY <1>2, <2>2, <2>3 DEF Holds
<1>8. NoRepeat(r)
  <2> SUFFICES ASSUME NEW i \in 1 .. n - 1, NEW j \in 1 .. n - 1, r[i] = r[j] PROVE i = j
    BY <1>2 DEF NoRepeat
  <2>1. a[i + 1] = a[j + 1] /\ i + 1 \in DOMAIN a /\ j + 1 \in DOMAIN a
    BY <1>1, <1>2, <1>4
  <2>2. i + 1 = j + 1
    BY <2>1 DEF NoRepeat
  <2> QED BY <2>2
<1>9. \A i \in DOMAIN r : i + 1 \in DOMAIN a /\ r[i] = a[i + 1]
  BY <1>1, <1>2, <1>4
<1> QED BY <1>2, <1>3, <1>6, <1>7, <1>8, <1>9 DEF r, n

\* The order q becomes r: b comes last, and the first block is out when it is
\* in old.
Recorded(q, b, old, r) ==
  /\ r \in Seq(Block)
  /\ Len(r) <= Window
  /\ \A x \in old : x = q[1] /\ 1 \in DOMAIN q
  /\ \A x : Holds(r, x) <=> (Holds(q, x) \/ x = b) /\ x \notin old
  /\ NoRepeat(r)
  /\ \A i, j \in DOMAIN r : i < j => Before(q, b, r[i], r[j])

\* Recording a block puts it last and takes out the first when the window is
\* full.
LEMMA RecordedOrder ==
  ASSUME NEW q \in Seq(Block), NoRepeat(q), NEW b \in Block, ~ Holds(q, b), Len(q) <= Window,
         NEW old, old = IF Len(Append(q, b)) > Window THEN {Head(Append(q, b))} ELSE {},
         NEW r, r = IF old = {} THEN Append(q, b) ELSE Tail(Append(q, b))
  PROVE  Recorded(q, b, old, r)
<1> DEFINE a == Append(q, b)
           n == Len(q)
           t == Tail(a)
<1>1. n \in Nat /\ DOMAIN q = 1 .. n /\ Window \in Nat /\ Window # 0 /\ n <= Window
      /\ (n # 0 => q # << >>)
  BY LenProperties, MWAssumption, EmptySeq
<1>2. /\ a \in Seq(Block) /\ a # << >> /\ Len(a) = n + 1
      /\ q # << >> => a[1] = q[1]
      /\ \A x : Holds(a, x) <=> Holds(q, x) \/ x = b
      /\ NoRepeat(a)
      /\ \A i, j \in DOMAIN a : i < j => Before(q, b, a[i], a[j])
  BY PushedOrder
<1>3. /\ Head(a) = a[1]
      /\ t \in Seq(Block) /\ Len(t) = n
      /\ \A x : Holds(t, x) <=> Holds(a, x) /\ x # a[1]
      /\ NoRepeat(t)
      /\ \A i \in DOMAIN t : i + 1 \in DOMAIN a /\ t[i] = a[i + 1]
  <2> HIDE DEF a
  <2>1. Len(a) - 1 = n
    BY <1>1, <1>2
  <2> QED BY <1>2, <2>1, PoppedOrder
<1>4. old = (IF Len(a) > Window THEN {Head(a)} ELSE {}) /\ r = (IF old = {} THEN a ELSE t)
  OBVIOUS
<1> HIDE DEF a, t, n
<1>5. CASE n + 1 > Window
  <2>1. n = Window /\ n # 0
    BY <1>1, <1>5
  <2>2. old = {a[1]} /\ r = t /\ a[1] = q[1] /\ 1 \in DOMAIN q
    <3>1. Len(a) > Window
      BY <1>1, <1>2, <1>5
    <3>2. old = {Head(a)} /\ r = t
      BY <1>4, <3>1, Zenon
    <3>3. 1 \in DOMAIN q
      BY <1>1, <2>1
    <3> QED BY <1>1, <1>2, <1>3, <2>1, <3>2, <3>3
  <2>3. \A i, j \in DOMAIN t : i < j => Before(q, b, t[i], t[j])
    <3>1. \A i \in DOMAIN t : i \in Nat
      BY <1>3, LenProperties
    <3>2. ASSUME NEW i \in DOMAIN t, NEW j \in DOMAIN t, i < j PROVE Before(q, b, t[i], t[j])
      <4>1. i + 1 < j + 1
        BY <3>1, <3>2
      <4>2. Before(q, b, a[i + 1], a[j + 1])
        BY <1>2, <1>3, <4>1
      <4> QED BY <1>3, <4>2
    <3> QED BY <3>2
  <2>4. \A x \in old : x = q[1] /\ 1 \in DOMAIN q
    BY <2>2
  <2>5. \A x : Holds(t, x) <=> (Holds(q, x) \/ x = b) /\ x \notin old
    BY <1>2, <1>3, <2>2
  <2>6. Len(t) <= Window
    BY <1>1, <1>3, <2>1
  <2> QED BY <1>3, <2>2, <2>3, <2>4, <2>5, <2>6 DEF Recorded
<1>6. CASE ~ (n + 1 > Window)
  <2>1. old = {} /\ r = a
    BY <1>2, <1>4, <1>6
  <2>2. Len(a) <= Window
    BY <1>1, <1>2, <1>6
  <2>3. \A x : x \notin old
    BY <2>1
  <2> QED BY <1>2, <2>1, <2>2, <2>3 DEF Recorded
<1> QED BY <1>5, <1>6

\* The leaves and kernels that the undo data u go back to are at most m and k.
Below(u, m, k) == u.nMMRLeavesBefore <= m /\ u.nKernelsBefore <= k

\* UndoFits speaks of the block at the cursor.  When it has been unwound the
\* one before it must fit, in the state just cut back, so that the sizes grow
\* along the branch; and a move given up puts the cursor back on the tip, where
\* a block above the cursor must have lost its undo data.
StackInv ==
  /\ \A b \in Chain[tip] \ Chain[cursor] : ~ HasUndo(b)
  /\ \A b \in Block : HasUndo(b) => ExtOf[b] # NoExt
  /\ \A b \in Chain[cursor] : HasUndo(b) =>
       Below(mapBlockUndo[b], Len(mwState.mmr), Len(mwState.vKernelExcesses))
  /\ \A b \in Chain[cursor] : \A a \in Chain[b] : HasUndo(a) /\ HasUndo(b) =>
       Below(mapBlockUndo[a], mapBlockUndo[b].nMMRLeavesBefore, mapBlockUndo[b].nKernelsBefore)

\* UndoBounded, and no block twice in the order: the block put out of it would
\* keep an entry otherwise.
OrderInv ==
  /\ Len(dqUndoOrder) <= Window
  /\ \A b \in Block : HasUndo(b) <=> Holds(dqUndoOrder, b)
  /\ NoRepeat(dqUndoOrder)

\* The blocks with undo data, as UndoIsSuffix has them.
Suffix(c) ==
  /\ \A b \in Block : HasUndo(b) => b \in Chain[c]
  /\ \A b \in Block : HasUndo(b) => \A a \in Chain[c] \ Chain[b] : ExtOf[a] # NoExt => HasUndo(a)
  /\ \A i, j \in DOMAIN dqUndoOrder : i < j => dqUndoOrder[i] \in Chain[dqUndoOrder[j]]

UInv ==
  /\ TypeOK
  /\ StackInv
  /\ OrderInv
  /\ synced => Suffix(cursor)

\* UInv is true at the start.
LEMMA InitUInv == Init => UInv
<1> SUFFICES ASSUME Init PROVE UInv
  OBVIOUS
<1>1. mwState \in State
  <2>1. /\ [c \in Commitment |-> NoExt] \in [Commitment -> Ext \cup {NoExt}]
        /\ [c \in Commitment |-> NoIndex] \in [Commitment -> Nat \cup {NoIndex}]
        /\ << >> \in Seq(Commitment \X Ext) /\ << >> \in Seq(Commitment)
    BY EmptySeq
  <2> QED BY <2>1 DEF Init, EmptyState, State
<1>2. dqUndoOrder \in Seq(Block) /\ DOMAIN dqUndoOrder = {} /\ Len(dqUndoOrder) = 0
  BY EmptySeq DEF Init
<1>3. \A b \in Block : ~ HasUndo(b)
  BY DEF Init, HasUndo
<1>4. TypeOK
  BY <1>1, <1>2, BlockAssumption DEF Init, TypeOK
<1>5. \A b \in Block : Chain[b] \subseteq Block
  BY ChainAssumption
<1>6. StackInv
  BY <1>3, <1>4, <1>5 DEF StackInv, TypeOK
<1>7. OrderInv
  BY <1>2, <1>3, MWAssumption DEF OrderInv, Holds, NoRepeat
<1>8. Suffix(cursor)
  BY <1>2, <1>3 DEF Suffix
<1> QED BY <1>4, <1>6, <1>7, <1>8 DEF UInv

\* A block is connected: its undo data go back to the sizes before it.
LEMMA ConnectUInv ==
  ASSUME UInv, ConnectNext
  PROVE  UInv'
<1> DEFINE nb == Toward(cursor, target)
<1>1. /\ nb \in Block \ {Genesis} /\ Prev[nb] = cursor
      /\ Chain[nb] = Chain[cursor] \cup {nb} /\ nb \notin Chain[cursor]
      /\ Chain[cursor] \subseteq Block /\ Chain[tip] \subseteq Block
  BY ChainAssumption DEF UInv, TypeOK, ConnectNext
<1>2. /\ cursor' = nb /\ tip' = tip /\ target' = target /\ synced' = synced
      /\ ConnectBlock(nb)
  BY DEF ConnectNext
<1>3. /\ mwState \in State /\ mapBlockUndo \in [Block -> Undo \cup {NoUndo}]
      /\ dqUndoOrder \in Seq(Block) /\ tip \in Block /\ cursor \in Block /\ target \in Block
      /\ synced \in BOOLEAN
  BY DEF UInv, TypeOK
<1>4. StackInv /\ OrderInv /\ (synced => Suffix(cursor))
  BY DEF UInv
<1> HIDE DEF nb
<1>5. CASE ExtOf[nb] = NoExt
  <2>1. UNCHANGED mwVars
    BY <1>2, <1>5 DEF ConnectBlock
  <2>2. TypeOK'
    BY <1>1, <1>2, <1>3, <2>1 DEF TypeOK, mwVars
  <2>3. OrderInv'
    BY <1>4, <2>1 DEF OrderInv, HasUndo, mwVars
  <2>4. ~ HasUndo(nb)
    BY <1>1, <1>4, <1>5 DEF StackInv
  <2>5. StackInv'
    BY <1>1, <1>2, <1>4, <2>1, <2>4 DEF StackInv, HasUndo, mwVars
  <2>6. synced' => Suffix(cursor)'
    BY <1>1, <1>2, <1>4, <1>5, <2>1 DEF Suffix, HasUndo, mwVars
  <2> QED BY <2>2, <2>3, <2>5, <2>6 DEF UInv
<1>6. CASE ExtOf[nb] # NoExt
  <2> DEFINE order == Append(dqUndoOrder, nb)
             old == IF Len(order) > Window THEN {Head(order)} ELSE {}
             u == UndoOf(mwState, nb)
  <2>1. /\ mapBlockUndo[nb] = NoUndo
        /\ mwState' = Applied(mwState, nb)
        /\ dqUndoOrder' = IF old = {} THEN order ELSE Tail(order)
        /\ mapBlockUndo' = [a \in Block |-> IF a = nb THEN u
                                            ELSE IF a \in old THEN NoUndo ELSE mapBlockUndo[a]]
    BY <1>2, <1>6 DEF ConnectBlock, ApplyBlock, RecordUndo
  <2>2. ~ Holds(dqUndoOrder, nb)
    BY <1>1, <1>4, <2>1 DEF OrderInv, HasUndo
  <2>3. /\ dqUndoOrder' \in Seq(Block)
        /\ Len(dqUndoOrder') <= Window
        /\ \A x \in old : x = dqUndoOrder[1] /\ 1 \in DOMAIN dqUndoOrder
        /\ \A x : Holds(dqUndoOrder', x) <=> (Holds(dqUndoOrder, x) \/ x = nb) /\ x \notin old
        /\ NoRepeat(dqUndoOrder')
        /\ \A i, j \in DOMAIN dqUndoOrder' : i < j =>
             Before(dqUndoOrder, nb, dqUndoOrder'[i], dqUndoOrder'[j])
    <3>1. NoRepeat(dqUndoOrder) /\ Len(dqUndoOrder) <= Window /\ nb \in Block
      BY <1>1, <1>4 DEF OrderInv
    <3>2. old = (IF Len(Append(dqUndoOrder, nb)) > Window THEN {Head(Append(dqUndoOrder, nb))} ELSE {})
          /\ dqUndoOrder' = (IF old = {} THEN Append(dqUndoOrder, nb) ELSE Tail(Append(dqUndoOrder, nb)))
      BY <2>1
    <3> HIDE DEF old, order
    <3>3. Recorded(dqUndoOrder, nb, old, dqUndoOrder')
      BY <1>3, <2>2, <3>1, <3>2, RecordedOrder
    <3> QED BY <3>3 DEF Recorded
  <2>4. /\ mwState' \in State
        /\ Len(mwState.mmr) \in Nat /\ Len(mwState.vKernelExcesses) \in Nat
        /\ Len(mwState'.mmr) \in Nat /\ Len(mwState'.vKernelExcesses) \in Nat
        /\ Len(mwState.mmr) <= Len(mwState'.mmr)
        /\ Len(mwState.vKernelExcesses) <= Len(mwState'.vKernelExcesses)
    BY <1>1, <1>3, <1>6, <2>1, AppliedType
  <2>5. /\ u \in Undo /\ u # NoUndo
        /\ u.nMMRLeavesBefore = Len(mwState.mmr)
        /\ u.nKernelsBefore = Len(mwState.vKernelExcesses)
    BY <1>1, <1>3, <1>6, UndoOfType
  <2>6. /\ nb \notin old
        /\ \A x \in old : Holds(dqUndoOrder, x)
    BY <2>2, <2>3 DEF Holds
  <2> HIDE DEF order, old, u
  <2>7. mapBlockUndo' \in [Block -> Undo \cup {NoUndo}]
    BY <1>3, <2>1, <2>5
  <2>8. TypeOK'
    BY <1>1, <1>2, <1>3, <2>3, <2>4, <2>7 DEF TypeOK
  <2>9. \A x \in Block : HasUndo(x)' <=> x = nb \/ (HasUndo(x) /\ x \notin old)
    BY <2>1, <2>5 DEF HasUndo
  <2>10. \A x \in Block : x # nb /\ HasUndo(x)' => mapBlockUndo'[x] = mapBlockUndo[x] /\ HasUndo(x)
    BY <2>1 DEF HasUndo
  <2>11. mapBlockUndo'[nb] = u
    BY <1>1, <2>1
  <2>12. OrderInv'
    BY <1>4, <2>3, <2>6, <2>9 DEF OrderInv
  <2>13. \A x \in Block : HasUndo(x) =>
           mapBlockUndo[x].nMMRLeavesBefore \in Nat /\ mapBlockUndo[x].nKernelsBefore \in Nat
    BY <1>3 DEF HasUndo, Undo
  <2>14. StackInv'
    <3>1. \A b \in Chain[tip] \ Chain[nb] : ~ HasUndo(b)'
      BY <1>1, <1>4, <2>9 DEF StackInv
    <3>2. \A b \in Block : HasUndo(b)' => ExtOf[b] # NoExt
      BY <1>4, <1>6, <2>9 DEF StackInv
    <3>3. ASSUME NEW b \in Chain[nb], HasUndo(b)'
          PROVE  Below(mapBlockUndo'[b], Len(mwState'.mmr), Len(mwState'.vKernelExcesses))
      <4>1. CASE b = nb
        BY <2>4, <2>5, <2>11, <4>1 DEF Below
      <4>2. CASE b # nb
        <5>1. b \in Chain[cursor] /\ b \in Block /\ HasUndo(b) /\ mapBlockUndo'[b] = mapBlockUndo[b]
          BY <1>1, <2>10, <3>3, <4>2
        <5>2. Below(mapBlockUndo[b], Len(mwState.mmr), Len(mwState.vKernelExcesses))
          BY <1>4, <5>1 DEF StackInv
        <5> QED BY <2>4, <2>13, <5>1, <5>2 DEF Below
      <4> QED BY <4>1, <4>2
    <3>4. ASSUME NEW b \in Chain[nb], NEW a \in Chain[b], HasUndo(a)', HasUndo(b)'
          PROVE  Below(mapBlockUndo'[a], mapBlockUndo'[b].nMMRLeavesBefore,
                       mapBlockUndo'[b].nKernelsBefore)
      <4>1. CASE a = nb
        <5>1. b = nb
          BY <1>1, <3>4, <4>1, ChainAssumption
        <5> QED BY <2>4, <2>5, <2>11, <4>1, <5>1 DEF Below
      <4>2. CASE a # nb /\ b = nb
        <5>1. a \in Chain[cursor] /\ a \in Block /\ HasUndo(a) /\ mapBlockUndo'[a] = mapBlockUndo[a]
          BY <1>1, <2>10, <3>4, <4>2
        <5>2. Below(mapBlockUndo[a], Len(mwState.mmr), Len(mwState.vKernelExcesses))
          BY <1>4, <5>1 DEF StackInv
        <5> QED BY <2>5, <2>11, <4>2, <5>1, <5>2 DEF Below
      <4>3. CASE a # nb /\ b # nb
        <5>1. b \in Chain[cursor] /\ b \in Block /\ HasUndo(b) /\ mapBlockUndo'[b] = mapBlockUndo[b]
          BY <1>1, <2>10, <3>4, <4>3
        <5>2. a \in Block
          BY <5>1, ChainAssumption
        <5>3. HasUndo(a) /\ mapBlockUndo'[a] = mapBlockUndo[a]
          BY <2>10, <3>4, <4>3, <5>2
        <5> QED BY <1>4, <5>1, <5>3 DEF StackInv
      <4> QED BY <4>1, <4>2, <4>3
    <3> QED BY <1>2, <3>1, <3>2, <3>3, <3>4 DEF StackInv
  <2>15. ASSUME synced PROVE Suffix(cursor)'
    <3>1. Suffix(cursor)
      BY <1>4, <2>15
    <3>2. \A b \in Block : HasUndo(b)' => b \in Chain[nb]
      BY <1>1, <2>9, <3>1 DEF Suffix
    <3>3. ASSUME NEW b \in Block, HasUndo(b)', NEW a \in Chain[nb] \ Chain[b], ExtOf[a] # NoExt
          PROVE  HasUndo(a)'
      <4>1. CASE a = nb
        BY <1>1, <2>9, <4>1
      <4>2. CASE a # nb
        <5>1. b # nb /\ HasUndo(b) /\ b \notin old /\ a \in Chain[cursor] /\ a \in Block
          BY <1>1, <2>9, <3>3, <4>2
        <5>2. HasUndo(a)
          BY <3>1, <3>3, <5>1 DEF Suffix
        <5>3. a \notin old
          <6> SUFFICES ASSUME a \in old PROVE FALSE
            OBVIOUS
          <6>1. a = dqUndoOrder[1] /\ 1 \in DOMAIN dqUndoOrder
            BY <2>3
          <6>2. PICK j \in DOMAIN dqUndoOrder : dqUndoOrder[j] = b
            BY <1>4, <5>1 DEF OrderInv, Holds
          <6>3. j # 1
            BY <5>1, <6>1, <6>2
          <6>4. j \in Nat /\ j >= 1
            BY <1>3, LenProperties
          <6>5. 1 < j
            BY <6>3, <6>4
          <6> QED BY <3>1, <3>3, <6>1, <6>2, <6>5 DEF Suffix
        <5> QED BY <2>9, <5>1, <5>2, <5>3
      <4> QED BY <4>1, <4>2
    <3>4. ASSUME NEW i \in DOMAIN dqUndoOrder', NEW j \in DOMAIN dqUndoOrder', i < j
          PROVE  dqUndoOrder'[i] \in Chain[dqUndoOrder'[j]]
      <4>1. Before(dqUndoOrder, nb, dqUndoOrder'[i], dqUndoOrder'[j])
        BY <2>3, <3>4
      <4>2. CASE Holds(dqUndoOrder, dqUndoOrder'[i]) /\ dqUndoOrder'[j] = nb
        <5>1. dqUndoOrder'[i] \in Block
          BY <2>3, LenProperties
        <5>2. HasUndo(dqUndoOrder'[i])
          BY <1>4, <4>2, <5>1 DEF OrderInv
        <5>3. dqUndoOrder'[i] \in Chain[cursor]
          BY <3>1, <5>1, <5>2 DEF Suffix
        <5> QED BY <1>1, <4>2, <5>3
      <4>3. CASE \E l, m \in DOMAIN dqUndoOrder : l < m /\ dqUndoOrder'[i] = dqUndoOrder[l]
                                                  /\ dqUndoOrder'[j] = dqUndoOrder[m]
        BY <3>1, <4>3 DEF Suffix
      <4> QED BY <4>1, <4>2, <4>3 DEF Before
    <3> QED BY <1>2, <3>2, <3>3, <3>4 DEF Suffix
  <2> QED BY <1>2, <2>8, <2>12, <2>14, <2>15 DEF UInv
<1> QED BY <1>5, <1>6

\* A block is unwound: the block below it fits the state that is left.
LEMMA DisconnectUInv ==
  ASSUME UInv, DisconnectTip
  PROVE  UInv'
<1> DEFINE c == cursor
           p == Prev[cursor]
<1>1. /\ mwState \in State /\ mapBlockUndo \in [Block -> Undo \cup {NoUndo}]
      /\ dqUndoOrder \in Seq(Block) /\ tip \in Block /\ c \in Block /\ target \in Block
      /\ synced \in BOOLEAN
  BY DEF UInv, TypeOK
<1>2. c # Genesis
  BY <1>1, ChainAssumption DEF DisconnectTip
<1>3. /\ p \in Block /\ Chain[c] = Chain[p] \cup {c} /\ c \notin Chain[p]
      /\ Chain[c] \subseteq Block /\ Chain[tip] \subseteq Block
  BY <1>1, <1>2, BlockAssumption, ChainAssumption
<1>4. /\ cursor' = p /\ tip' = tip /\ target' = target
      /\ (synced' => synced) /\ synced' \in BOOLEAN
      /\ DisconnectBlock(c)
  BY DEF DisconnectTip
<1>5. StackInv /\ OrderInv /\ (synced => Suffix(c))
  BY DEF UInv
<1>6. CASE ~ HasUndo(c)
  <2>1. UNCHANGED mwVars
    BY <1>4, <1>6 DEF DisconnectBlock, HasUndo
  <2>2. TypeOK'
    BY <1>1, <1>3, <1>4, <2>1 DEF TypeOK, mwVars
  <2>3. OrderInv'
    BY <1>5, <2>1 DEF OrderInv, HasUndo, mwVars
  <2>4. StackInv'
    BY <1>3, <1>4, <1>5, <1>6, <2>1 DEF StackInv, HasUndo, mwVars
  <2>5. synced' => Suffix(cursor)'
    BY <1>3, <1>4, <1>5, <1>6, <2>1 DEF Suffix, HasUndo, mwVars
  <2> QED BY <2>2, <2>3, <2>4, <2>5 DEF UInv
<1>7. CASE HasUndo(c)
  <2> DEFINE u == mapBlockUndo[c]
  <2>1. /\ mwState' = Undone(mwState, u)
        /\ mapBlockUndo' = [mapBlockUndo EXCEPT ![c] = NoUndo]
        /\ dqUndoOrder' = Erased(dqUndoOrder, c)
    BY <1>4, <1>7 DEF DisconnectBlock, HasUndo
  <2>2. u \in Undo /\ Below(u, Len(mwState.mmr), Len(mwState.vKernelExcesses))
    BY <1>1, <1>3, <1>5, <1>7 DEF HasUndo, StackInv
  <2>3. /\ mwState' \in State
        /\ Len(mwState'.mmr) = u.nMMRLeavesBefore
        /\ Len(mwState'.vKernelExcesses) = u.nKernelsBefore
    BY <1>1, <2>1, <2>2, UndoneType DEF Below
  <2>4. NoRepeat(dqUndoOrder) /\ Holds(dqUndoOrder, c) /\ Len(dqUndoOrder) <= Window
    BY <1>1, <1>5, <1>7 DEF OrderInv
  <2>5. /\ dqUndoOrder' \in Seq(Block)
        /\ Len(dqUndoOrder') <= Len(dqUndoOrder)
        /\ \A x : Holds(dqUndoOrder', x) <=> Holds(dqUndoOrder, x) /\ x # c
        /\ NoRepeat(dqUndoOrder')
        /\ OrderKept(dqUndoOrder', dqUndoOrder)
    <3> HIDE DEF c
    <3> QED BY <1>1, <2>1, <2>4, ErasedOrder
  <2>6. Len(dqUndoOrder') <= Window
    <3>1. Len(dqUndoOrder') \in Nat /\ Len(dqUndoOrder) \in Nat /\ Window \in Nat
      BY <1>1, <2>5, LenProperties, MWAssumption
    <3> QED BY <2>4, <2>5, <3>1
  <2>7. mapBlockUndo' \in [Block -> Undo \cup {NoUndo}]
    BY <1>1, <2>1
  <2>8. \A x \in Block : HasUndo(x)' <=> HasUndo(x) /\ x # c
    BY <1>1, <2>1 DEF HasUndo
  <2>9. \A x \in Block : x # c => mapBlockUndo'[x] = mapBlockUndo[x]
    BY <1>1, <2>1
  <2>10. TypeOK'
    BY <1>1, <1>3, <1>4, <2>3, <2>5, <2>7 DEF TypeOK
  <2>11. OrderInv'
    BY <1>5, <2>5, <2>6, <2>8 DEF OrderInv
  <2>12. StackInv'
    <3>1. \A b \in Chain[tip] \ Chain[p] : ~ HasUndo(b)'
      BY <1>3, <1>5, <2>8 DEF StackInv
    <3>2. \A b \in Block : HasUndo(b)' => ExtOf[b] # NoExt
      BY <1>5, <2>8 DEF StackInv
    <3>3. ASSUME NEW b \in Chain[p], HasUndo(b)'
          PROVE  Below(mapBlockUndo'[b], Len(mwState'.mmr), Len(mwState'.vKernelExcesses))
      <4>1. b \in Block /\ b # c /\ b \in Chain[c]
        BY <1>3
      <4>2. HasUndo(b) /\ mapBlockUndo'[b] = mapBlockUndo[b]
        BY <2>8, <2>9, <3>3, <4>1
      <4>3. c \in Chain[c]
        BY <1>3
      <4>4. Below(mapBlockUndo[b], u.nMMRLeavesBefore, u.nKernelsBefore)
        BY <1>5, <1>7, <4>1, <4>2, <4>3 DEF StackInv
      <4> QED BY <2>3, <4>2, <4>4
    <3>4. ASSUME NEW b \in Chain[p], NEW a \in Chain[b], HasUndo(a)', HasUndo(b)'
          PROVE  Below(mapBlockUndo'[a], mapBlockUndo'[b].nMMRLeavesBefore,
                       mapBlockUndo'[b].nKernelsBefore)
      <4>1. b \in Block /\ b \in Chain[c] /\ b # c
        BY <1>3
      <4>2. a \in Chain[p]
        BY <1>3, ChainAssumption
      <4>3. a \in Block /\ a # c
        BY <1>3, <4>2
      <4>4. HasUndo(a) /\ HasUndo(b) /\ mapBlockUndo'[a] = mapBlockUndo[a]
            /\ mapBlockUndo'[b] = mapBlockUndo[b]
        BY <2>8, <2>9, <3>4, <4>1, <4>3
      <4> QED BY <1>5, <4>1, <4>4 DEF StackInv
    <3> QED BY <1>4, <3>1, <3>2, <3>3, <3>4 DEF StackInv
  <2>13. ASSUME synced PROVE Suffix(cursor)'
    <3>1. Suffix(c)
      BY <1>5, <2>13
    <3>2. \A b \in Block : HasUndo(b)' => b \in Chain[p]
      BY <1>3, <2>8, <3>1 DEF Suffix
    <3>3. \A b \in Block : HasUndo(b)' =>
            \A a \in Chain[p] \ Chain[b] : ExtOf[a] # NoExt => HasUndo(a)'
      BY <1>3, <2>8, <3>1 DEF Suffix
    <3>4. \A i, j \in DOMAIN dqUndoOrder' : i < j => dqUndoOrder'[i] \in Chain[dqUndoOrder'[j]]
      BY <2>5, <3>1 DEF Suffix, OrderKept
    <3> QED BY <1>4, <3>2, <3>3, <3>4 DEF Suffix
  <2> QED BY <1>4, <2>10, <2>11, <2>12, <2>13 DEF UInv
<1> QED BY <1>6, <1>7

\* A move is given up: the blocks with undo data that are on the old branch
\* are below the cursor, and when the state has not moved they are the same.
LEMMA AbortUInv ==
  ASSUME UInv, Abort
  PROVE  UInv'
<1>1. /\ tip \in Block /\ cursor \in Block /\ Chain[tip] \subseteq Block /\ Chain[cursor] \subseteq Block
      /\ UNCHANGED mwVars /\ tip' = tip /\ target' = tip /\ cursor' = tip
      /\ synced' = (synced /\ LastExt[cursor] = LastExt[tip])
  BY ChainAssumption DEF UInv, TypeOK, Abort
<1>2. TypeOK'
  <2>1. synced' \in BOOLEAN
    BY <1>1, Zenon
  <2> QED BY <1>1, <2>1 DEF UInv, TypeOK, mwVars
<1>3. StackInv'
  BY <1>1 DEF UInv, StackInv, HasUndo, mwVars
<1>4. OrderInv'
  BY <1>1 DEF UInv, OrderInv, HasUndo, mwVars
<1>5. ASSUME synced' PROVE Suffix(cursor)'
  <2>1. synced /\ LastExt[cursor] = LastExt[tip]
    BY <1>1, <1>5, Zenon
  <2>2. Suffix(cursor)
    BY <2>1 DEF UInv
  <2>3. \A a \in Block : ExtOf[a] # NoExt => (a \in Chain[cursor] <=> a \in Chain[tip])
    <3>1. /\ LastExt[tip] \in Chain[tip] /\ LastExt[cursor] \in Chain[cursor]
          /\ \A a \in Chain[tip] : ExtOf[a] # NoExt => a \in Chain[LastExt[tip]]
          /\ \A a \in Chain[cursor] : ExtOf[a] # NoExt => a \in Chain[LastExt[cursor]]
      BY <1>1, BranchAssumption
    <3>2. Chain[LastExt[tip]] \subseteq Chain[tip] /\ Chain[LastExt[cursor]] \subseteq Chain[cursor]
      BY <1>1, <3>1, ChainAssumption
    <3> QED BY <2>1, <3>1, <3>2
  <2>4. \A b \in Block : HasUndo(b) => ExtOf[b] # NoExt
    BY DEF UInv, StackInv
  <2>5. Suffix(tip)
    BY <1>1, <2>2, <2>3, <2>4 DEF Suffix
  <2> QED BY <1>1, <2>5 DEF Suffix, HasUndo, mwVars
<1> QED BY <1>2, <1>3, <1>4, <1>5 DEF UInv

\* Every step keeps UInv.
LEMMA StepUInv == UInv /\ [Next]_vars => UInv'
<1> SUFFICES ASSUME UInv, [Next]_vars PROVE UInv'
  OBVIOUS
<1>1. ASSUME NEW b \in Block \ {Genesis}, SetBestChain(b) PROVE UInv'
  <2>1. UNCHANGED <<mwVars, tip, cursor, synced>> /\ target' \in Block
    BY <1>1 DEF SetBestChain
  <2> QED BY <2>1 DEF UInv, TypeOK, StackInv, OrderInv, Suffix, HasUndo, mwVars
<1>2. CASE DisconnectTip
  BY <1>2, DisconnectUInv
<1>3. CASE ConnectNext
  BY <1>3, ConnectUInv
<1>4. CASE Commit
  <2>1. UNCHANGED <<mwVars, target, cursor, synced>> /\ tip' = cursor /\ cursor \in Block
    BY <1>4 DEF Commit, UInv, TypeOK
  <2> QED BY <2>1 DEF UInv, TypeOK, StackInv, OrderInv, Suffix, HasUndo, mwVars
<1>5. CASE Abort
  BY <1>5, AbortUInv
<1>6. CASE Restart
  <2>1. mwState' \in State
    <3>1. /\ [c \in Commitment |-> NoExt] \in [Commitment -> Ext \cup {NoExt}]
          /\ [c \in Commitment |-> NoIndex] \in [Commitment -> Nat \cup {NoIndex}]
          /\ << >> \in Seq(Commitment \X Ext) /\ << >> \in Seq(Commitment)
      BY EmptySeq
    <3> QED BY <1>6, <3>1 DEF Restart, EmptyState, State
  <2>2. dqUndoOrder' \in Seq(Block) /\ DOMAIN dqUndoOrder' = {} /\ Len(dqUndoOrder') = 0
    BY <1>6, EmptySeq DEF Restart
  <2>3. mapBlockUndo' \in [Block -> Undo \cup {NoUndo}] /\ \A b \in Block : ~ HasUndo(b)'
    BY <1>6 DEF Restart, HasUndo
  <2>4. TypeOK'
    <3>1. synced' \in BOOLEAN
      BY <1>6, Zenon DEF Restart
    <3> QED BY <1>6, <2>1, <2>2, <2>3, <3>1 DEF Restart, UInv, TypeOK
  <2>5. \A b \in Block : Chain[b] \subseteq Block
    BY ChainAssumption
  <2>6. StackInv'
    BY <2>3, <2>4, <2>5 DEF StackInv, TypeOK
  <2>7. OrderInv'
    BY <2>2, <2>3, MWAssumption DEF OrderInv, Holds, NoRepeat
  <2>8. Suffix(cursor)'
    BY <2>2, <2>3 DEF Suffix
  <2> QED BY <2>4, <2>6, <2>7, <2>8 DEF UInv
<1>7. CASE UNCHANGED vars
  BY <1>7 DEF UInv, TypeOK, StackInv, OrderInv, Suffix, HasUndo, vars, mwVars, chainVars
<1> QED BY <1>1, <1>2, <1>3, <1>4, <1>5, <1>6, <1>7 DEF Next

\* UInv holds in every behaviour, whatever commitments wallets make.
LEMMA UndoInvariant == Spec => []UInv
BY InitUInv, StepUInv, PTL DEF Spec

\* The types of the state and of the undo data, also where ApplyBlock passes
\* over outputs and inputs and where a move given up half way has left a state
\* that belongs to no branch.
THEOREM StateTypes == Spec => []TypeOK
<1>1. UInv => TypeOK
  BY DEF UInv
<1> QED BY <1>1, UndoInvariant, PTL

\* DisconnectBlock finds the undo data it needs, for every tree of blocks and
\* every window: the data are bounded, are those of the last blocks of the
\* branch in their order, and never go back to more than there is.
THEOREM UndoStaysUsable == Spec => []UndoUsable
<1>1. ASSUME UInv PROVE UndoUsable
  <2>1. UndoBounded
    <3>1. \A i \in DOMAIN dqUndoOrder : dqUndoOrder[i] \in Block
      BY <1>1, LenProperties DEF UInv, TypeOK
    <3>2. \A x : x \in {dqUndoOrder[i] : i \in DOMAIN dqUndoOrder} <=> x \in {b \in Block : HasUndo(b)}
      BY <1>1, <3>1 DEF UInv, OrderInv, Holds
    <3> QED BY <1>1, <3>2 DEF UInv, OrderInv, UndoBounded
  <2>2. UndoIsSuffix
    BY <1>1 DEF UInv, Suffix, UndoIsSuffix
  <2>3. UndoFits
    <3>1. cursor \in Chain[cursor]
      BY <1>1, ChainAssumption DEF UInv, TypeOK
    <3> QED BY <1>1, <3>1 DEF UInv, StackInv, Below, UndoFits
  <2> QED BY <2>1, <2>2, <2>3 DEF UndoUsable
<1> QED BY <1>1, UndoInvariant, PTL

-----------------------------------------------------------------------------
(* The mountain range: induction and recursion on numbers, powers and bits   *)

\* A set of numbers that holds whatever it holds all numbers below holds all.
LEMMA StrongSet ==
  ASSUME NEW S, \A n \in Nat : (\A m \in Nat : m < n => m \in S) => n \in S
  PROVE  \A n \in Nat : n \in S
<1> DEFINE Bad == {n \in Nat : n \notin S}
<1> SUFFICES ASSUME Bad # {} PROVE FALSE
  OBVIOUS
<1> DEFINE R == OpToRel(<, Nat)
<1>1. PICK x \in Bad : \A y \in Bad : ~ (<<y, x>> \in R)
  <2>1. IsWellFoundedOn(R, Nat)
    BY NatLessThanWellFounded
  <2>2. Bad \in SUBSET Nat
    OBVIOUS
  <2> HIDE DEF R, Bad
  <2> QED BY <2>1, <2>2, WFMin
<1>2. \A y \in Nat : y < x => <<y, x>> \in R
  BY DEF OpToRel
<1> HIDE DEF R
<1>3. \A y \in Nat : y < x => y \in S
  BY <1>1, <1>2
<1> QED BY <1>1, <1>3

\* The same with one step up from zero.
LEMMA StepSet ==
  ASSUME NEW S, 0 \in S, \A n \in Nat : n \in S => n + 1 \in S
  PROVE  \A n \in Nat : n \in S
<1>1. ASSUME NEW n \in Nat, \A m \in Nat : m < n => m \in S PROVE n \in S
  <2>1. CASE n = 0
    BY <2>1
  <2>2. CASE n # 0
    <3>1. n - 1 \in Nat /\ n - 1 < n /\ (n - 1) + 1 = n
      BY <2>2
    <3> QED BY <1>1, <3>1
  <2> QED BY <2>1, <2>2
<1> QED BY <1>1, StrongSet

\* f[n] comes from n and the value of f at d[n].
RecFrom(f, b, d, G) ==
  /\ f = [n \in Nat |-> f[n]]
  /\ \A n \in Nat : f[n] \in Nat /\ f[n] = IF n = 0 THEN b ELSE G[n][f[d[n]]]

\* A function on the numbers can be defined from its value at a smaller number.
LEMMA NatRec ==
  ASSUME NEW b \in Nat, NEW d, NEW G,
         \A n \in Nat : d[n] \in Nat,
         \A n \in Nat : n # 0 => d[n] < n,
         \A n, x \in Nat : G[n][x] \in Nat
  PROVE  \E f : RecFrom(f, b, d, G)
<1> DEFINE E(v, n) == IF n = 0 THEN b ELSE G[n][v[d[n]]]
           Fits(v, t) == \A n \in Nat : n <= t => v[n] \in Nat /\ v[n] = E(v, n)
<1>1. \A t \in Nat : \E v : Fits(v, t)
  <2> DEFINE S == {t \in Nat : \E v : Fits(v, t)}
  <2>1. 0 \in S
    <3> DEFINE v0 == [k \in Nat |-> b]
    <3>1. Fits(v0, 0)
      OBVIOUS
    <3> HIDE DEF Fits
    <3> QED BY <3>1
  <2>2. ASSUME NEW t \in Nat, t \in S PROVE t + 1 \in S
    <3>1. PICK v : Fits(v, t)
      BY <2>2
    <3> DEFINE y == G[t + 1][v[d[t + 1]]]
               u == [k \in Nat |-> IF k = t + 1 THEN y ELSE v[k]]
    <3>2. t + 1 \in Nat /\ t + 1 # 0
      OBVIOUS
    <3>3. d[t + 1] \in Nat /\ d[t + 1] < t + 1
      BY <3>2
    <3>4. d[t + 1] <= t
      BY <3>3
    <3>5. y \in Nat
      <4>1. v[d[t + 1]] \in Nat
        BY <3>1, <3>3, <3>4
      <4> QED BY <3>2, <4>1
    <3>6. u[t + 1] = y /\ \A k \in Nat : k # t + 1 => u[k] = v[k]
      BY <3>2
    <3>7. y = G[t + 1][v[d[t + 1]]]
      OBVIOUS
    <3> HIDE DEF u, y
    <3>8. ASSUME NEW n \in Nat, n <= t + 1 PROVE u[n] \in Nat /\ u[n] = E(u, n)
      <4>1. n # 0 => d[n] \in Nat /\ d[n] <= t /\ d[n] # t + 1
        <5>1. d[n] \in Nat
          OBVIOUS
        <5>2. n # 0 => d[n] < n
          OBVIOUS
        <5> QED BY <3>8, <5>1, <5>2
      <4>2. n # 0 => u[d[n]] = v[d[n]]
        BY <3>6, <4>1
      <4>3. CASE n = t + 1
        BY <3>2, <3>5, <3>6, <3>7, <4>2, <4>3
      <4>4. CASE n # t + 1
        <5>0. u[n] = v[n]
          BY <3>6, <4>4
        <5>1. n <= t /\ u[n] = v[n]
          BY <3>8, <4>4, <5>0
        <5>2. v[n] \in Nat /\ v[n] = E(v, n)
          BY <3>1, <5>1
        <5>3. E(v, n) = E(u, n)
          BY <4>2
        <5> QED BY <5>1, <5>2, <5>3
      <4> QED BY <4>3, <4>4
    <3>9. Fits(u, t + 1)
      BY <3>8
    <3> QED BY <3>9
  <2> HIDE DEF S
  <2>3. \A t \in Nat : t \in S
    BY <2>1, <2>2, StepSet
  <2> QED BY <2>3 DEF S
<1>2. ASSUME NEW t \in Nat, NEW r \in Nat, NEW v, NEW w, Fits(v, t), Fits(w, r)
      PROVE  \A n \in Nat : n <= t /\ n <= r => v[n] = w[n]
  <2> DEFINE S == {n \in Nat : n <= t /\ n <= r => v[n] = w[n]}
  <2>1. ASSUME NEW n \in Nat, \A m \in Nat : m < n => m \in S PROVE n \in S
    <3>1. SUFFICES ASSUME n <= t, n <= r PROVE v[n] = w[n]
      OBVIOUS
    <3>2. n # 0 => v[d[n]] = w[d[n]]
      <4>1. d[n] \in Nat
        OBVIOUS
      <4>2. n # 0 => d[n] < n /\ d[n] <= t /\ d[n] <= r
        BY <3>1, <4>1
      <4>3. n # 0 => d[n] \in S
        BY <2>1, <4>1, <4>2
      <4> QED BY <4>2, <4>3
    <3>3. v[n] = E(v, n) /\ w[n] = E(w, n)
      BY <1>2, <3>1
    <3> QED BY <3>2, <3>3
  <2> HIDE DEF S
  <2>2. \A n \in Nat : n \in S
    BY <2>1, StrongSet
  <2> QED BY <2>2 DEF S
<1> DEFINE V(t) == CHOOSE v : Fits(v, t)
           f == [n \in Nat |-> V(n)[n]]
<1>3. ASSUME NEW t \in Nat PROVE Fits(V(t), t)
  BY <1>1
<1>4. ASSUME NEW n \in Nat PROVE f[n] \in Nat /\ f[n] = E(f, n)
  <2>0. d[n] \in Nat
    OBVIOUS
  <2>1. Fits(V(n), n) /\ Fits(V(d[n]), d[n])
    <3> HIDE DEF Fits, V
    <3> QED BY <1>3, <2>0
  <2>4. f[n] = V(n)[n] /\ f[d[n]] = V(d[n])[d[n]]
    BY <2>0
  <2> HIDE DEF V, f
  <2>2. V(n)[n] \in Nat /\ V(n)[n] = E(V(n), n)
    <3>1. n <= n
      OBVIOUS
    <3> QED BY <2>1, <3>1
  <2>3. n # 0 => V(n)[d[n]] = V(d[n])[d[n]]
    <3>1. n # 0 => d[n] <= n /\ d[n] <= d[n]
      BY <2>0
    <3> HIDE DEF Fits
    <3>2. \A m \in Nat : m <= n /\ m <= d[n] => V(n)[m] = V(d[n])[m]
      BY <1>2, <2>0, <2>1
    <3> QED BY <2>0, <3>1, <3>2
  <2> QED BY <2>2, <2>3, <2>4
<1>5. f = [n \in Nat |-> f[n]]
  OBVIOUS
<1> HIDE DEF f
<1>6. RecFrom(f, b, d, G)
  BY <1>4, <1>5 DEF RecFrom
<1> QED BY <1>6

\* 1ULL << h.
LEMMA Pow2Facts ==
  /\ Pow2 \in [Nat -> Nat]
  /\ Pow2[0] = 1
  /\ \A h \in Nat : Pow2[h + 1] = 2 * Pow2[h]
  /\ \A h \in Nat : Pow2[h] >= 1
<1> DEFINE Q(f) == f = [h \in Nat |-> IF h = 0 THEN 1 ELSE 2 * f[h - 1]]
<1>1. \E f : Q(f)
  <2> DEFINE d == [n \in Nat |-> IF n = 0 THEN 0 ELSE n - 1]
             G == [n \in Nat |-> [x \in Nat |-> 2 * x]]
  <2>1. /\ \A n \in Nat : d[n] \in Nat
        /\ \A n \in Nat : n # 0 => d[n] < n
        /\ \A n \in Nat : n # 0 => d[n] = n - 1
    OBVIOUS
  <2>2. /\ \A n, x \in Nat : G[n][x] \in Nat
        /\ \A n, x \in Nat : G[n][x] = 2 * x
    OBVIOUS
  <2> HIDE DEF d, G
  <2>3. PICK f : RecFrom(f, 1, d, G)
    BY ONLY 1 \in Nat, <2>1, <2>2, NatRec
  <2>4. ASSUME NEW n \in Nat PROVE f[n] = IF n = 0 THEN 1 ELSE 2 * f[n - 1]
    <3>1. n # 0 => d[n] = n - 1 /\ n - 1 \in Nat
      BY <2>1
    <3>2. n # 0 => f[n - 1] \in Nat /\ G[n][f[n - 1]] = 2 * f[n - 1]
      BY <2>2, <2>3, <3>1 DEF RecFrom
    <3> QED BY <2>3, <3>1, <3>2 DEF RecFrom
  <2>5. Q(f)
    BY <2>3, <2>4 DEF RecFrom
  <2> QED BY <2>5
<1>2. Q(Pow2)
  BY <1>1 DEF Pow2
<1>3. Pow2[0] = 1 /\ \A h \in Nat : Pow2[h + 1] = 2 * Pow2[h]
  <2>1. Pow2[0] = 1
    BY <1>2
  <2>2. ASSUME NEW h \in Nat PROVE Pow2[h + 1] = 2 * Pow2[h]
    <3>1. h + 1 \in Nat /\ h + 1 # 0 /\ (h + 1) - 1 = h
      OBVIOUS
    <3> QED BY <1>2, <3>1
  <2> QED BY <2>1, <2>2
<1> DEFINE S == {h \in Nat : Pow2[h] \in Nat /\ Pow2[h] >= 1}
<1>4. 0 \in S
  BY <1>3
<1>5. ASSUME NEW h \in Nat, h \in S PROVE h + 1 \in S
  BY <1>3, <1>5
<1>6. \A h \in Nat : h \in S
  <2> HIDE DEF S
  <2> QED BY <1>4, <1>5, StepSet
<1>7. Pow2 \in [Nat -> Nat]
  BY <1>2, <1>6
<1> QED BY <1>3, <1>6, <1>7

\* The powers of two and the sizes of the trees.
LEMMA SizeFacts ==
  ASSUME NEW h \in Nat
  PROVE  /\ Pow2[h] \in Nat /\ Pow2[h] >= 1 /\ Pow2[h + 1] = 2 * Pow2[h]
         /\ SubtreeSize(h) = 2 * Pow2[h] - 1
         /\ SubtreeSize(h) \in Nat /\ SubtreeSize(h) >= 1
<1>1. Pow2[h] \in Nat /\ Pow2[h] >= 1 /\ Pow2[h + 1] = 2 * Pow2[h]
  BY Pow2Facts
<1> QED BY <1>1 DEF SubtreeSize

\* The equation of PopCount, which says by itself only what a function with this
\* equation would be.
LEMMA PopCountDef ==
  /\ PopCount = [n \in Nat |-> PopCount[n]]
  /\ \A n \in Nat : PopCount[n] \in Nat
  /\ \A n \in Nat : PopCount[n] = IF n = 0 THEN 0 ELSE (n % 2) + PopCount[n \div 2]
<1> DEFINE Q(f) == f = [n \in Nat |-> IF n = 0 THEN 0 ELSE (n % 2) + f[n \div 2]]
<1>1. \E f : Q(f)
  <2> DEFINE d == [n \in Nat |-> n \div 2]
             G == [n \in Nat |-> [x \in Nat |-> (n % 2) + x]]
  <2>1. /\ \A n \in Nat : d[n] \in Nat
        /\ \A n \in Nat : n # 0 => d[n] < n
        /\ \A n \in Nat : d[n] = n \div 2
    OBVIOUS
  <2>2. /\ \A n, x \in Nat : G[n][x] \in Nat
        /\ \A n, x \in Nat : G[n][x] = (n % 2) + x
    OBVIOUS
  <2> HIDE DEF d, G
  <2>3. PICK f : RecFrom(f, 0, d, G)
    BY ONLY 0 \in Nat, <2>1, <2>2, NatRec
  <2>4. ASSUME NEW n \in Nat PROVE f[n] = IF n = 0 THEN 0 ELSE (n % 2) + f[n \div 2]
    <3>1. d[n] = n \div 2 /\ n \div 2 \in Nat
      BY <2>1
    <3>2. f[n \div 2] \in Nat
      BY <2>3, <3>1 DEF RecFrom
    <3>3. G[n][f[n \div 2]] = (n % 2) + f[n \div 2]
      BY <2>2, <3>2
    <3>4. f[n] = IF n = 0 THEN 0 ELSE G[n][f[n \div 2]]
      BY <2>3, <3>1 DEF RecFrom
    <3> QED BY <3>3, <3>4
  <2>5. Q(f)
    BY <2>3, <2>4 DEF RecFrom
  <2> QED BY <2>5
<1>2. Q(PopCount)
  BY <1>1 DEF PopCount
<1>3. /\ PopCount = [n \in Nat |-> PopCount[n]]
      /\ \A n \in Nat : PopCount[n] = IF n = 0 THEN 0 ELSE (n % 2) + PopCount[n \div 2]
  <2>1. \A n \in Nat : PopCount[n] = IF n = 0 THEN 0 ELSE (n % 2) + PopCount[n \div 2]
    BY <1>2
  <2> QED BY <1>2, <2>1
<1> DEFINE S == {n \in Nat : PopCount[n] \in Nat}
<1>4. ASSUME NEW n \in Nat, \A m \in Nat : m < n => m \in S PROVE n \in S
  <2>1. n # 0 => n \div 2 \in Nat /\ n \div 2 < n
    OBVIOUS
  <2>2. n # 0 => PopCount[n \div 2] \in Nat
    BY <1>4, <2>1
  <2>3. PopCount[n] = IF n = 0 THEN 0 ELSE (n % 2) + PopCount[n \div 2]
    BY <1>3
  <2> QED BY <2>2, <2>3
<1>5. \A n \in Nat : n \in S
  <2> HIDE DEF S
  <2> QED BY <1>4, StrongSet
<1> QED BY <1>3, <1>5

\* The equation of BitLength.
LEMMA BitLengthDef ==
  /\ BitLength = [n \in Nat |-> BitLength[n]]
  /\ \A n \in Nat : BitLength[n] \in Nat
  /\ \A n \in Nat : BitLength[n] = IF n = 0 THEN 0 ELSE 1 + BitLength[n \div 2]
<1> DEFINE Q(f) == f = [n \in Nat |-> IF n = 0 THEN 0 ELSE 1 + f[n \div 2]]
<1>1. \E f : Q(f)
  <2> DEFINE d == [n \in Nat |-> n \div 2]
             G == [n \in Nat |-> [x \in Nat |-> 1 + x]]
  <2>1. /\ \A n \in Nat : d[n] \in Nat
        /\ \A n \in Nat : n # 0 => d[n] < n
        /\ \A n \in Nat : d[n] = n \div 2
    OBVIOUS
  <2>2. /\ \A n, x \in Nat : G[n][x] \in Nat
        /\ \A n, x \in Nat : G[n][x] = 1 + x
    OBVIOUS
  <2> HIDE DEF d, G
  <2>3. PICK f : RecFrom(f, 0, d, G)
    BY ONLY 0 \in Nat, <2>1, <2>2, NatRec
  <2>4. ASSUME NEW n \in Nat PROVE f[n] = IF n = 0 THEN 0 ELSE 1 + f[n \div 2]
    <3>1. d[n] = n \div 2 /\ n \div 2 \in Nat
      BY <2>1
    <3>2. f[n \div 2] \in Nat
      BY <2>3, <3>1 DEF RecFrom
    <3>3. G[n][f[n \div 2]] = 1 + f[n \div 2]
      BY <2>2, <3>2
    <3>4. f[n] = IF n = 0 THEN 0 ELSE G[n][f[n \div 2]]
      BY <2>3, <3>1 DEF RecFrom
    <3> QED BY <3>3, <3>4
  <2>5. Q(f)
    BY <2>3, <2>4 DEF RecFrom
  <2> QED BY <2>5
<1>2. Q(BitLength)
  BY <1>1 DEF BitLength
<1>3. /\ BitLength = [n \in Nat |-> BitLength[n]]
      /\ \A n \in Nat : BitLength[n] = IF n = 0 THEN 0 ELSE 1 + BitLength[n \div 2]
  <2>1. \A n \in Nat : BitLength[n] = IF n = 0 THEN 0 ELSE 1 + BitLength[n \div 2]
    BY <1>2
  <2> QED BY <1>2, <2>1
<1> DEFINE S == {n \in Nat : BitLength[n] \in Nat}
<1>4. ASSUME NEW n \in Nat, \A m \in Nat : m < n => m \in S PROVE n \in S
  <2>1. n # 0 => n \div 2 \in Nat /\ n \div 2 < n
    OBVIOUS
  <2>2. n # 0 => BitLength[n \div 2] \in Nat
    BY <1>4, <2>1
  <2>3. BitLength[n] = IF n = 0 THEN 0 ELSE 1 + BitLength[n \div 2]
    BY <1>3
  <2> QED BY <2>2, <2>3
<1>5. \A n \in Nat : n \in S
  <2> HIDE DEF S
  <2> QED BY <1>4, StrongSet
<1> QED BY <1>3, <1>5

\* The equation of TrailingOnes.
LEMMA TrailingOnesDef ==
  /\ TrailingOnes = [n \in Nat |-> TrailingOnes[n]]
  /\ \A n \in Nat : TrailingOnes[n] \in Nat
  /\ \A n \in Nat : TrailingOnes[n] = IF n % 2 = 0 THEN 0 ELSE 1 + TrailingOnes[n \div 2]
<1> DEFINE Q(f) == f = [n \in Nat |-> IF n % 2 = 0 THEN 0 ELSE 1 + f[n \div 2]]
<1>1. \E f : Q(f)
  <2> DEFINE d == [n \in Nat |-> n \div 2]
             G == [n \in Nat |-> [x \in Nat |-> (IF n % 2 = 0 THEN 0 ELSE 1 + x)]]
  <2>1. /\ \A n \in Nat : d[n] \in Nat
        /\ \A n \in Nat : n # 0 => d[n] < n
        /\ \A n \in Nat : d[n] = n \div 2
    OBVIOUS
  <2>2. /\ \A n, x \in Nat : G[n][x] \in Nat
        /\ \A n, x \in Nat : G[n][x] = (IF n % 2 = 0 THEN 0 ELSE 1 + x)
    OBVIOUS
  <2> HIDE DEF d, G
  <2>3. PICK f : RecFrom(f, 0, d, G)
    BY ONLY 0 \in Nat, <2>1, <2>2, NatRec
  <2>4. ASSUME NEW n \in Nat PROVE f[n] = IF n % 2 = 0 THEN 0 ELSE 1 + f[n \div 2]
    <3>1. d[n] = n \div 2 /\ n \div 2 \in Nat
      BY <2>1
    <3>2. f[n \div 2] \in Nat
      BY <2>3, <3>1 DEF RecFrom
    <3>3. G[n][f[n \div 2]] = (IF n % 2 = 0 THEN 0 ELSE 1 + f[n \div 2])
      BY <2>2, <3>2
    <3>4. f[n] = IF n = 0 THEN 0 ELSE G[n][f[n \div 2]]
      BY <2>3, <3>1 DEF RecFrom
    <3> QED BY <3>3, <3>4
  <2>5. Q(f)
    BY <2>3, <2>4 DEF RecFrom
  <2> QED BY <2>5
<1>2. Q(TrailingOnes)
  BY <1>1 DEF TrailingOnes
<1>3. /\ TrailingOnes = [n \in Nat |-> TrailingOnes[n]]
      /\ \A n \in Nat : TrailingOnes[n] = IF n % 2 = 0 THEN 0 ELSE 1 + TrailingOnes[n \div 2]
  <2>1. \A n \in Nat : TrailingOnes[n] = IF n % 2 = 0 THEN 0 ELSE 1 + TrailingOnes[n \div 2]
    BY <1>2
  <2> QED BY <1>2, <2>1
<1> DEFINE S == {n \in Nat : TrailingOnes[n] \in Nat}
<1>4. ASSUME NEW n \in Nat, \A m \in Nat : m < n => m \in S PROVE n \in S
  <2>1. n # 0 => n \div 2 \in Nat /\ n \div 2 < n
    OBVIOUS
  <2>2. n # 0 => TrailingOnes[n \div 2] \in Nat
    BY <1>4, <2>1
  <2>3. TrailingOnes[n] = IF n % 2 = 0 THEN 0 ELSE 1 + TrailingOnes[n \div 2]
    BY <1>3
  <2> QED BY <2>2, <2>3
<1>5. \A n \in Nat : n \in S
  <2> HIDE DEF S
  <2> QED BY <1>4, StrongSet
<1> QED BY <1>3, <1>5

\* The bits of an even and of an odd number.
LEMMA BitFacts ==
  ASSUME NEW n \in Nat
  PROVE  /\ PopCount[n] \in Nat /\ TrailingOnes[n] \in Nat /\ BitLength[n] \in Nat
         /\ PopCount[0] = 0 /\ BitLength[0] = 0
         /\ PopCount[2 * n] = PopCount[n]
         /\ PopCount[2 * n + 1] = PopCount[n] + 1
         /\ TrailingOnes[2 * n] = 0
         /\ TrailingOnes[2 * n + 1] = TrailingOnes[n] + 1
         /\ BitLength[2 * n + 1] = BitLength[n] + 1
         /\ n # 0 => BitLength[2 * n] = BitLength[n] + 1
<1>1. 0 \in Nat /\ 2 * n \in Nat /\ 2 * n + 1 \in Nat
  OBVIOUS
<1>2. (2 * n) \div 2 = n /\ (2 * n + 1) \div 2 = n /\ (2 * n) % 2 = 0 /\ (2 * n + 1) % 2 = 1
  OBVIOUS
<1>3. PopCount[n] \in Nat /\ TrailingOnes[n] \in Nat /\ BitLength[n] \in Nat
  BY PopCountDef, TrailingOnesDef, BitLengthDef
<1>4. PopCount[0] = 0 /\ BitLength[0] = 0
  BY <1>1, PopCountDef, BitLengthDef
<1>5. PopCount[2 * n] = PopCount[n]
  <2>1. PopCount[2 * n] = IF 2 * n = 0 THEN 0 ELSE ((2 * n) % 2) + PopCount[(2 * n) \div 2]
    BY ONLY <1>1, PopCountDef, Zenon
  <2> QED BY ONLY <1>2, <1>3, <1>4, <2>1, n \in Nat
<1>6. PopCount[2 * n + 1] = PopCount[n] + 1
  <2>1. PopCount[2 * n + 1] = IF 2 * n + 1 = 0 THEN 0 ELSE ((2 * n + 1) % 2) + PopCount[(2 * n + 1) \div 2]
    BY ONLY <1>1, PopCountDef, Zenon
  <2> QED BY ONLY <1>2, <1>3, <1>4, <2>1, n \in Nat
<1>7. TrailingOnes[2 * n] = 0
  <2>1. TrailingOnes[2 * n] = IF (2 * n) % 2 = 0 THEN 0 ELSE 1 + TrailingOnes[(2 * n) \div 2]
    BY ONLY <1>1, TrailingOnesDef, Zenon
  <2> QED BY ONLY <1>2, <1>3, <1>4, <2>1, n \in Nat
<1>8. TrailingOnes[2 * n + 1] = TrailingOnes[n] + 1
  <2>1. TrailingOnes[2 * n + 1] = IF (2 * n + 1) % 2 = 0 THEN 0 ELSE 1 + TrailingOnes[(2 * n + 1) \div 2]
    BY ONLY <1>1, TrailingOnesDef, Zenon
  <2> QED BY ONLY <1>2, <1>3, <1>4, <2>1, n \in Nat
<1>9. BitLength[2 * n + 1] = BitLength[n] + 1
  <2>1. BitLength[2 * n + 1] = IF 2 * n + 1 = 0 THEN 0 ELSE 1 + BitLength[(2 * n + 1) \div 2]
    BY ONLY <1>1, BitLengthDef, Zenon
  <2> QED BY ONLY <1>2, <1>3, <1>4, <2>1, n \in Nat
<1>10. n # 0 => BitLength[2 * n] = BitLength[n] + 1
  <2>1. BitLength[2 * n] = IF 2 * n = 0 THEN 0 ELSE 1 + BitLength[(2 * n) \div 2]
    BY ONLY <1>1, BitLengthDef, Zenon
  <2> QED BY ONLY <1>2, <1>3, <1>4, <2>1, n \in Nat
<1> QED BY ONLY <1>3, <1>4, <1>5, <1>6, <1>7, <1>8, <1>9, <1>10

\* A number is twice another, or one more.
LEMMA Halves ==
  ASSUME NEW n \in Nat
  PROVE  \E m \in Nat : n = 2 * m \/ n = 2 * m + 1
<1>1. n \div 2 \in Nat /\ (n = 2 * (n \div 2) \/ n = 2 * (n \div 2) + 1)
  OBVIOUS
<1> QED BY <1>1

\* One more: the trailing ones become zeros and the zero above them a one.
LEMMA PopCountNext ==
  \A n \in Nat : PopCount[n + 1] = PopCount[n] + 1 - TrailingOnes[n]
<1> DEFINE S == {n \in Nat : PopCount[n + 1] = PopCount[n] + 1 - TrailingOnes[n]}
<1>1. ASSUME NEW n \in Nat, \A m \in Nat : m < n => m \in S PROVE n \in S
  <2>1. PICK m \in Nat : n = 2 * m \/ n = 2 * m + 1
    BY Halves
  <2>2. CASE n = 2 * m
    <3>1. /\ PopCount[2 * m + 1] = PopCount[m] + 1 /\ PopCount[2 * m] = PopCount[m]
          /\ TrailingOnes[2 * m] = 0 /\ PopCount[m] \in Nat
      BY BitFacts
    <3> QED BY <2>2, <3>1
  <2>3. CASE n = 2 * m + 1
    <3>1. m < n /\ n + 1 = 2 * (m + 1) /\ m + 1 \in Nat
      BY <2>3
    <3>2. PopCount[m + 1] = PopCount[m] + 1 - TrailingOnes[m]
      BY <1>1, <3>1
    <3>3. PopCount[2 * (m + 1)] = PopCount[m + 1]
      BY ONLY <3>1, BitFacts
    <3>4. PopCount[n] = PopCount[m] + 1 /\ TrailingOnes[n] = TrailingOnes[m] + 1
      BY ONLY <2>3, BitFacts, m \in Nat
    <3>5. PopCount[m] \in Nat /\ TrailingOnes[m] \in Nat
      BY BitFacts
    <3> QED BY <3>1, <3>2, <3>3, <3>4, <3>5
  <2> QED BY <2>1, <2>2, <2>3
<1> HIDE DEF S
<1>2. \A n \in Nat : n \in S
  BY <1>1, StrongSet
<1> QED BY <1>2 DEF S

\* A number has no more ones than its value.
LEMMA PopCountBound ==
  \A n \in Nat : PopCount[n] \in Nat /\ PopCount[n] <= n
<1> DEFINE S == {n \in Nat : PopCount[n] <= n}
<1>1. 0 \in S
  BY BitFacts
<1>2. ASSUME NEW n \in Nat, n \in S PROVE n + 1 \in S
  <2>1. PopCount[n + 1] = PopCount[n] + 1 - TrailingOnes[n]
    BY PopCountNext
  <2>2. PopCount[n] \in Nat /\ TrailingOnes[n] \in Nat /\ PopCount[n] <= n
    BY <1>2, BitFacts
  <2> QED BY <2>1, <2>2
<1> HIDE DEF S
<1>3. \A n \in Nat : n \in S
  BY <1>1, <1>2, StepSet
<1> QED BY <1>3, BitFacts DEF S

\* A leaf adds itself and a parent for each of its trailing ones.
LEMMA NodeCountNext ==
  ASSUME NEW n \in Nat
  PROVE  /\ NodeCountForLeaves(n) \in Nat
         /\ NodeCountForLeaves(n + 1) = NodeCountForLeaves(n) + 1 + TrailingOnes[n]
         /\ LeafIndexToPos(n) = NodeCountForLeaves(n)
         /\ NodeCountForLeaves(0) = 0
<1>1. PopCount[n] \in Nat /\ PopCount[n] <= n /\ TrailingOnes[n] \in Nat /\ PopCount[0] = 0
  BY PopCountBound, BitFacts
<1>2. PopCount[n + 1] = PopCount[n] + 1 - TrailingOnes[n]
  BY PopCountNext
<1> QED BY <1>1, <1>2 DEF NodeCountForLeaves, LeafIndexToPos

\* The nodes of more leaves are more nodes.
LEMMA NodeCountGrows ==
  ASSUME NEW i \in Nat, NEW n \in Nat, i < n
  PROVE  NodeCountForLeaves(i) + 1 + TrailingOnes[i] <= NodeCountForLeaves(n)
<1> DEFINE S == {k \in Nat : NodeCountForLeaves(i + 1) <= NodeCountForLeaves(i + 1 + k)}
<1>1. 0 \in S
  BY i + 1 \in Nat, NodeCountNext
<1>2. ASSUME NEW k \in Nat, k \in S PROVE k + 1 \in S
  <2>1. i + 1 + k \in Nat /\ (i + 1 + k) + 1 = i + 1 + (k + 1)
    OBVIOUS
  <2>2. NodeCountForLeaves((i + 1 + k) + 1) = NodeCountForLeaves(i + 1 + k) + 1 + TrailingOnes[i + 1 + k]
    BY ONLY <2>1, NodeCountNext
  <2>3. NodeCountForLeaves(i + 1) \in Nat /\ NodeCountForLeaves(i + 1 + k) \in Nat /\ TrailingOnes[i + 1 + k] \in Nat
    BY ONLY <2>1, i + 1 \in Nat, NodeCountNext, BitFacts
  <2>4. NodeCountForLeaves(i + 1) <= NodeCountForLeaves(i + 1 + k)
    BY <1>2
  <2> HIDE DEF S
  <2>5. NodeCountForLeaves(i + 1) <= NodeCountForLeaves((i + 1 + k) + 1)
    BY ONLY <2>2, <2>3, <2>4
  <2> QED BY <2>1, <2>5 DEF S
<1> HIDE DEF S
<1>3. \A k \in Nat : k \in S
  BY <1>1, <1>2, StepSet
<1>4. n - (i + 1) \in Nat /\ i + 1 + (n - (i + 1)) = n
  OBVIOUS
<1>5. n - (i + 1) \in S
  BY <1>3, <1>4
<1>6. NodeCountForLeaves(i + 1) <= NodeCountForLeaves(n)
  BY <1>4, <1>5 DEF S
<1>7. NodeCountForLeaves(i + 1) = NodeCountForLeaves(i) + 1 + TrailingOnes[i]
  BY NodeCountNext
<1> QED BY <1>6, <1>7

-----------------------------------------------------------------------------
(* The trees.  Tree q of height h has the leaves from q * 2^h on, and its    *)
(* children are the trees 2q and 2q + 1 of height h - 1.                     *)

\* The first leaf of tree q of height h.
FirstLeaf(q, h) == q * Pow2[h]

\* The position of its peak.
TreePos(q, h) == 2 * FirstLeaf(q + 1, h) - PopCount[q] - 2

\* Where the trees start: next to each other, the left child with its parent.
LEMMA FirstLeafFacts ==
  ASSUME NEW q \in Nat, NEW h \in Nat
  PROVE  /\ FirstLeaf(q, h) \in Nat
         /\ FirstLeaf(0, h) = 0
         /\ FirstLeaf(q, 0) = q
         /\ FirstLeaf(q + 1, h) = FirstLeaf(q, h) + Pow2[h]
         /\ FirstLeaf(2 * q, h) = FirstLeaf(q, h + 1)
         /\ FirstLeaf(q, h + 1) = 2 * FirstLeaf(q, h)
         /\ FirstLeaf(q, h) >= q
<1> DEFINE p == Pow2[h]
<1>1. p \in Nat /\ p >= 1 /\ Pow2[h + 1] = 2 * p /\ Pow2[0] = 1
  BY Pow2Facts
<1> HIDE DEF p
<1>2. q * p \in Nat /\ 0 * p = 0 /\ q * 1 = q
  BY <1>1
<1>3. (q + 1) * p = q * p + p
  BY <1>1
<1>4. (2 * q) * p = q * (2 * p) /\ q * (2 * p) = 2 * (q * p)
  BY <1>1
<1>5. q * p >= q
  BY <1>1
<1> QED BY <1>1, <1>2, <1>3, <1>4, <1>5 DEF FirstLeaf, p

\* The one product the proofs multiply out.
LEMMA Distribute ==
  ASSUME NEW a \in Nat, NEW b \in Nat, NEW p \in Nat
  PROVE  (a + b) * p = a * p + b * p /\ a * p \in Nat /\ b * p \in Nat
OBVIOUS

\* Of two trees of a height the later one starts after the earlier one ends.
LEMMA FirstLeafGrows ==
  ASSUME NEW q \in Nat, NEW r \in Nat, NEW h \in Nat, q < r
  PROVE  FirstLeaf(q + 1, h) <= FirstLeaf(r, h)
<1> DEFINE k == r - (q + 1)
<1>1. k \in Nat /\ r = (q + 1) + k
  OBVIOUS
<1> HIDE DEF k
<1>2. Pow2[h] \in Nat
  BY Pow2Facts
<1>3. /\ ((q + 1) + k) * Pow2[h] = (q + 1) * Pow2[h] + k * Pow2[h]
      /\ (q + 1) * Pow2[h] \in Nat /\ k * Pow2[h] \in Nat
  BY ONLY <1>1, <1>2, q + 1 \in Nat, Distribute
<1>4. FirstLeaf(r, h) = FirstLeaf(q + 1, h) + k * Pow2[h] /\ FirstLeaf(q + 1, h) \in Nat
  BY ONLY <1>1, <1>3 DEF FirstLeaf
<1> QED BY ONLY <1>3, <1>4

\* The peak of a tree is after the trees of its two children.
LEMMA TreePosFacts ==
  ASSUME NEW q \in Nat, NEW h \in Nat
  PROVE  /\ TreePos(q, h) \in Nat
         /\ TreePos(q, 0) = NodeCountForLeaves(q)
         /\ TreePos(2 * q, h) = TreePos(q, h + 1) - Pow2[h + 1]
         /\ TreePos(2 * q + 1, h) = TreePos(q, h + 1) - 1
         /\ TreePos(2 * q + 1, h) = TreePos(2 * q, h) + SubtreeSize(h)
<1>1. /\ FirstLeaf(q, h) \in Nat /\ FirstLeaf(q, h) >= q
      /\ FirstLeaf(q + 1, h) = FirstLeaf(q, h) + Pow2[h]
      /\ FirstLeaf(q, h + 1) = 2 * FirstLeaf(q, h)
      /\ FirstLeaf(2 * q, h) = FirstLeaf(q, h + 1)
  BY FirstLeafFacts
<1>2. Pow2[h] \in Nat /\ Pow2[h] >= 1 /\ Pow2[h + 1] = 2 * Pow2[h]
  BY Pow2Facts
<1>3. q + 1 \in Nat /\ 2 * q \in Nat /\ 2 * q + 1 \in Nat /\ (2 * q + 1) + 1 = 2 * (q + 1)
  OBVIOUS
<1>4. FirstLeaf(q + 1, 0) = q + 1
  BY ONLY <1>3, 0 \in Nat, FirstLeafFacts
<1>5. FirstLeaf(q + 1, h + 1) = 2 * FirstLeaf(q + 1, h)
  BY ONLY <1>3, h \in Nat, FirstLeafFacts
<1>6. FirstLeaf(2 * q + 1, h) = FirstLeaf(2 * q, h) + Pow2[h]
  BY ONLY <1>3, h \in Nat, FirstLeafFacts
<1>7. FirstLeaf((2 * q + 1) + 1, h) = FirstLeaf(2 * q + 1, h) + Pow2[h]
  BY ONLY <1>3, h \in Nat, FirstLeafFacts
<1>8. /\ PopCount[q] \in Nat /\ PopCount[q] <= q
      /\ PopCount[2 * q] = PopCount[q] /\ PopCount[2 * q + 1] = PopCount[q] + 1
  BY PopCountBound, BitFacts
<1>9. TreePos(q, h) \in Nat
  BY <1>1, <1>2, <1>8 DEF TreePos
<1>10. TreePos(q, 0) = NodeCountForLeaves(q)
  BY <1>4, <1>8 DEF TreePos, NodeCountForLeaves
<1>11. TreePos(2 * q, h) = TreePos(q, h + 1) - Pow2[h + 1]
  BY <1>1, <1>2, <1>5, <1>6, <1>8 DEF TreePos
<1>12. TreePos(2 * q + 1, h) = TreePos(q, h + 1) - 1
  BY <1>1, <1>2, <1>5, <1>6, <1>7, <1>8 DEF TreePos
<1>13. TreePos(q, h + 1) \in Int
  BY <1>1, <1>2, <1>5, <1>8 DEF TreePos
<1>14. TreePos(2 * q + 1, h) = TreePos(2 * q, h) + SubtreeSize(h)
  BY <1>2, <1>11, <1>12, <1>13 DEF SubtreeSize
<1> QED BY ONLY <1>9, <1>10, <1>11, <1>12, <1>14

\* A tree over the first n leaves is among the first nodes.
LEMMA TreePosBound ==
  ASSUME NEW q \in Nat, NEW h \in Nat, NEW n \in Nat, FirstLeaf(q + 1, h) <= n
  PROVE  TreePos(q, h) < NodeCountForLeaves(n)
<1> DEFINE m == FirstLeaf(q + 1, h)
<1>1. m \in Nat
  BY q + 1 \in Nat, FirstLeafFacts
<1>2. PopCount[m] = PopCount[q + 1]
  <2> DEFINE S == {k \in Nat : PopCount[FirstLeaf(q + 1, k)] = PopCount[q + 1]}
  <2>1. 0 \in S
    <3>1. FirstLeaf(q + 1, 0) = q + 1
      BY ONLY q + 1 \in Nat, 0 \in Nat, FirstLeafFacts
    <3> QED BY <3>1
  <2>2. ASSUME NEW k \in Nat, k \in S PROVE k + 1 \in S
    <3>1. FirstLeaf(q + 1, k + 1) = 2 * FirstLeaf(q + 1, k) /\ FirstLeaf(q + 1, k) \in Nat
      BY ONLY q + 1 \in Nat, k \in Nat, FirstLeafFacts
    <3>2. PopCount[2 * FirstLeaf(q + 1, k)] = PopCount[FirstLeaf(q + 1, k)]
      BY ONLY <3>1, BitFacts
    <3> QED BY <2>2, <3>1, <3>2
  <2> HIDE DEF S
  <2>3. \A k \in Nat : k \in S
    BY <2>1, <2>2, StepSet
  <2> QED BY <2>3 DEF S
<1>3. PopCount[q + 1] = PopCount[q] + 1 - TrailingOnes[q]
  BY PopCountNext
<1>4. PopCount[q] \in Nat /\ TrailingOnes[q] \in Nat /\ PopCount[q + 1] \in Nat
  BY q + 1 \in Nat, BitFacts
<1>5. NodeCountForLeaves(m) = 2 * m - PopCount[q + 1]
  BY <1>2 DEF NodeCountForLeaves
<1>6. TreePos(q, h) < NodeCountForLeaves(m)
  <2>1. TreePos(q, h) = 2 * m - PopCount[q] - 2
    BY DEF TreePos
  <2> HIDE DEF m
  <2> QED BY <1>1, <1>3, <1>4, <1>5, <2>1
<1>7. CASE m = n
  BY <1>6, <1>7
<1>8. CASE m # n
  <2>1. m < n
    BY <1>1, <1>8
  <2>2. NodeCountForLeaves(m) + 1 + TrailingOnes[m] <= NodeCountForLeaves(n)
    BY ONLY <1>1, <2>1, n \in Nat, NodeCountGrows
  <2>3. TrailingOnes[m] \in Nat /\ NodeCountForLeaves(m) \in Nat /\ NodeCountForLeaves(n) \in Nat
    BY ONLY <1>1, n \in Nat, NodeCountNext, BitFacts
  <2>4. TreePos(q, h) \in Nat
    BY TreePosFacts
  <2> HIDE DEF m
  <2> QED BY <1>6, <2>2, <2>3, <2>4
<1> QED BY <1>7, <1>8

\* The trees that end with leaf i are the nodes of its Append, one of every
\* height up to the number of its trailing ones.
LEMMA NewestTree ==
  ASSUME NEW i \in Nat
  PROVE  \A h \in Nat : \A q \in Nat : FirstLeaf(q + 1, h) = i + 1 =>
           /\ TreePos(q, h) = NodeCountForLeaves(i) + h
           /\ h <= TrailingOnes[i]
           /\ TrailingOnes[q] = TrailingOnes[i] - h
<1> DEFINE R(q, h) == /\ TreePos(q, h) = NodeCountForLeaves(i) + h
                      /\ h <= TrailingOnes[i]
                      /\ TrailingOnes[q] = TrailingOnes[i] - h
           S == {h \in Nat : \A q \in Nat : FirstLeaf(q + 1, h) = i + 1 => R(q, h)}
<1>0. TrailingOnes[i] \in Nat /\ NodeCountForLeaves(i) \in Nat
  BY BitFacts, NodeCountNext
<1>1. 0 \in S
  <2>1. ASSUME NEW q \in Nat, FirstLeaf(q + 1, 0) = i + 1 PROVE R(q, 0)
    <3>1. FirstLeaf(q + 1, 0) = q + 1
      BY ONLY q + 1 \in Nat, 0 \in Nat, FirstLeafFacts
    <3>2. q = i
      BY <2>1, <3>1
    <3>3. TreePos(i, 0) = NodeCountForLeaves(i)
      BY ONLY i \in Nat, 0 \in Nat, TreePosFacts
    <3> QED BY <1>0, <3>2, <3>3
  <2> HIDE DEF R
  <2> QED BY <2>1
<1>2. ASSUME NEW h \in Nat, h \in S PROVE h + 1 \in S
  <2>1. ASSUME NEW q \in Nat, FirstLeaf(q + 1, h + 1) = i + 1 PROVE R(q, h + 1)
    <3>1. 2 * q + 1 \in Nat /\ (2 * q + 1) + 1 = 2 * (q + 1) /\ q + 1 \in Nat
      OBVIOUS
    <3>2. FirstLeaf(2 * (q + 1), h) = FirstLeaf(q + 1, h + 1)
      BY ONLY <3>1, h \in Nat, FirstLeafFacts
    <3>3. FirstLeaf((2 * q + 1) + 1, h) = i + 1
      BY ONLY <2>1, <3>1, <3>2
    <3>4. R(2 * q + 1, h)
      <4> HIDE DEF R
      <4> QED BY <1>2, <3>1, <3>3
    <3>5. TrailingOnes[2 * q + 1] = TrailingOnes[q] + 1 /\ TrailingOnes[q] \in Nat
      BY BitFacts
    <3>6. TreePos(2 * q + 1, h) = TreePos(q, h + 1) - 1
      BY TreePosFacts
    <3>7. TreePos(q, h + 1) \in Nat
      BY ONLY q \in Nat, h + 1 \in Nat, TreePosFacts
    <3> QED BY <1>0, <3>4, <3>5, <3>6, <3>7
  <2> HIDE DEF R
  <2> QED BY <2>1
<1> HIDE DEF S
<1>3. \A h \in Nat : h \in S
  BY <1>1, <1>2, StepSet
<1> QED BY <1>3 DEF S

\* There is one of every such height.
LEMMA NewestTreeExists ==
  ASSUME NEW i \in Nat
  PROVE  \A h \in Nat : h <= TrailingOnes[i] => \E q \in Nat : FirstLeaf(q + 1, h) = i + 1
<1> DEFINE S == {h \in Nat : h <= TrailingOnes[i] => \E q \in Nat : FirstLeaf(q + 1, h) = i + 1}
<1>1. 0 \in S
  <2>1. FirstLeaf(i + 1, 0) = i + 1
    BY ONLY i + 1 \in Nat, 0 \in Nat, FirstLeafFacts
  <2> QED BY <2>1
<1>2. ASSUME NEW h \in Nat, h \in S PROVE h + 1 \in S
  <2>1. SUFFICES ASSUME h + 1 <= TrailingOnes[i]
                 PROVE  \E q \in Nat : FirstLeaf(q + 1, h + 1) = i + 1
    OBVIOUS
  <2>2. TrailingOnes[i] \in Nat
    BY BitFacts
  <2>3. PICK r \in Nat : FirstLeaf(r + 1, h) = i + 1
    BY <1>2, <2>1, <2>2
  <2>4. TrailingOnes[r] = TrailingOnes[i] - h
    BY <2>3, NewestTree
  <2>5. PICK q \in Nat : r = 2 * q \/ r = 2 * q + 1
    BY Halves
  <2>6. r = 2 * q + 1
    <3>1. TrailingOnes[2 * q] = 0
      BY BitFacts
    <3> QED BY <2>1, <2>2, <2>4, <2>5, <3>1
  <2>7. FirstLeaf(2 * (q + 1), h) = FirstLeaf(q + 1, h + 1)
    BY ONLY q + 1 \in Nat, h \in Nat, FirstLeafFacts
  <2>8. r + 1 = 2 * (q + 1)
    BY <2>6
  <2>9. FirstLeaf(q + 1, h + 1) = i + 1
    BY ONLY <2>3, <2>7, <2>8
  <2> QED BY <2>9
<1> HIDE DEF S
<1>3. \A h \in Nat : h \in S
  BY <1>1, <1>2, StepSet
<1> QED BY <1>3 DEF S

-----------------------------------------------------------------------------
(* Append                                                                    *)

IsSeq(s) == \E S : s \in Seq(S)

\* What Append does to a sequence.
LEMMA AppendSeq ==
  ASSUME NEW s, IsSeq(s), NEW x
  PROVE  /\ IsSeq(Append(s, x))
         /\ Len(s) \in Nat
         /\ Len(Append(s, x)) = Len(s) + 1
         /\ Append(s, x)[Len(s) + 1] = x
         /\ \A k \in 1 .. Len(s) : Append(s, x)[k] = s[k]
<1>1. PICK S : s \in Seq(S)
  BY DEF IsSeq
<1>2. Append(s, x) \in Seq(S \cup {x})
  <2>1. s \in Seq(S \cup {x})
    BY <1>1
  <2> QED BY <2>1
<1>3. Len(s) \in Nat /\ Len(Append(s, x)) = Len(s) + 1
  BY <1>1
<1>4. Append(s, x)[Len(s) + 1] = x /\ \A k \in 1 .. Len(s) : Append(s, x)[k] = s[k]
  BY <1>1
<1> QED BY <1>2, <1>3, <1>4 DEF IsSeq

\* The rounds of the loop of Append.
LEMMA MergeRounds ==
  ASSUME NEW nodes, NEW i \in Nat
  PROVE  \E s : /\ s[0] = nodes
                /\ \A h \in Nat : h < TrailingOnes[i] => s[h + 1] = PushParent(s[h], h)
                /\ Merge(nodes, i) = s[TrailingOnes[i]]
<1> DEFINE T == TrailingOnes[i]
           Fits(v, t) == v = [h \in 0 .. t |-> IF h = 0 THEN nodes ELSE PushParent(v[h - 1], h - 1)]
<1>0. T \in Nat
  BY BitFacts
<1>1. \A t \in Nat : \E v : Fits(v, t)
  <2> DEFINE S == {t \in Nat : \E v : Fits(v, t)}
  <2>1. 0 \in S
    <3>1. Fits([h \in 0 .. 0 |-> nodes], 0)
      OBVIOUS
    <3> QED BY <3>1
  <2>2. ASSUME NEW t \in Nat, t \in S PROVE t + 1 \in S
    <3>1. PICK v : Fits(v, t)
      BY <2>2
    <3> DEFINE u == [h \in 0 .. t + 1 |-> IF h = t + 1 THEN PushParent(v[t], t) ELSE v[h]]
    <3>2. ASSUME NEW h \in 0 .. t + 1
          PROVE  u[h] = IF h = 0 THEN nodes ELSE PushParent(u[h - 1], h - 1)
      <4>1. CASE h = t + 1
        <5>1. u[t] = v[t] /\ u[h] = PushParent(v[t], t)
          BY <4>1
        <5>2. h - 1 = t /\ h # 0
          BY <4>1
        <5> HIDE DEF u
        <5> QED BY <5>1, <5>2
      <4>2. CASE h # t + 1
        <5>1. h \in 0 .. t /\ u[h] = v[h]
          BY <4>2
        <5>2. v[h] = IF h = 0 THEN nodes ELSE PushParent(v[h - 1], h - 1)
          BY <3>1, <5>1
        <5>3. h # 0 => u[h - 1] = v[h - 1]
          BY <5>1
        <5> HIDE DEF u
        <5> QED BY <5>1, <5>2, <5>3
      <4> QED BY <4>1, <4>2
    <3>3. Fits(u, t + 1)
      BY <3>2
    <3> HIDE DEF u, Fits
    <3> QED BY <3>3
  <2> HIDE DEF S
  <2>3. \A t \in Nat : t \in S
    BY <2>1, <2>2, StepSet
  <2> QED BY <2>3 DEF S
<1> DEFINE s == CHOOSE v : Fits(v, T)
<1>2. Fits(s, T)
  BY <1>0, <1>1
<1>3. Merge(nodes, i) = s[T]
  BY DEF Merge
<1> HIDE DEF s
<1>4. s[0] = nodes
  BY <1>0, <1>2
<1>5. ASSUME NEW h \in Nat, h < T PROVE s[h + 1] = PushParent(s[h], h)
  <2>1. h + 1 \in 0 .. T /\ h + 1 # 0 /\ (h + 1) - 1 = h
    BY <1>0, <1>5
  <2>2. \A g \in 0 .. T : s[g] = IF g = 0 THEN nodes ELSE PushParent(s[g - 1], g - 1)
    BY <1>2
  <2>3. s[h + 1] = PushParent(s[(h + 1) - 1], (h + 1) - 1)
    BY ONLY <2>1, <2>2, Zenon
  <2> QED BY ONLY <2>1, <2>3
<1> QED BY <1>3, <1>4, <1>5

\* The left child of a new parent is among the nodes.
LEMMA LeftChild ==
  ASSUME NEW i \in Nat, NEW g \in Nat, g < TrailingOnes[i]
  PROVE  NodeCountForLeaves(i) + g + 1 - SubtreeSize(g) \in 1 .. NodeCountForLeaves(i) + g
<1>1. TrailingOnes[i] \in Nat /\ NodeCountForLeaves(i) \in Nat
  BY BitFacts, NodeCountNext
<1>2. g + 1 <= TrailingOnes[i] /\ g + 1 \in Nat
  BY <1>1
<1>3. PICK q \in Nat : FirstLeaf(q + 1, g + 1) = i + 1
  BY <1>2, NewestTreeExists
<1>4. TreePos(q, g + 1) = NodeCountForLeaves(i) + (g + 1)
  BY <1>2, <1>3, NewestTree
<1>5. /\ TreePos(2 * q, g) \in Nat
      /\ TreePos(2 * q + 1, g) = TreePos(q, g + 1) - 1
      /\ TreePos(2 * q + 1, g) = TreePos(2 * q, g) + SubtreeSize(g)
  BY 2 * q \in Nat, TreePosFacts
<1>6. SubtreeSize(g) \in Nat /\ SubtreeSize(g) >= 1
  BY SizeFacts
<1> QED BY <1>1, <1>4, <1>5, <1>6

\* What the Append of leaf i leaves: the old nodes, the leaf, and the parents.
LEMMA MergeFacts ==
  ASSUME NEW ns, IsSeq(ns), NEW i \in Nat, Len(ns) = NodeCountForLeaves(i), NEW x
  PROVE  LET m == Merge(Append(ns, HashLeaf(x)), i)
             c == NodeCountForLeaves(i)
         IN  /\ IsSeq(m)
             /\ Len(m) = NodeCountForLeaves(i + 1)
             /\ \A k \in 1 .. c : m[k] = ns[k]
             /\ m[c + 1] = HashLeaf(x)
             /\ \A g \in Nat : g < TrailingOnes[i] =>
                  m[c + g + 2] = HashParent(m[c + g + 1 - SubtreeSize(g)], m[c + g + 1])
<1> DEFINE c == NodeCountForLeaves(i)
           T == TrailingOnes[i]
           nodes == Append(ns, HashLeaf(x))
           l(g) == c + g + 1 - SubtreeSize(g)
<1>1. c \in Nat /\ T \in Nat /\ NodeCountForLeaves(i + 1) = c + 1 + T
  BY BitFacts, NodeCountNext
<1>2. PICK s : /\ s[0] = nodes
               /\ \A h \in Nat : h < T => s[h + 1] = PushParent(s[h], h)
               /\ Merge(nodes, i) = s[T]
  BY MergeRounds
<1>3. ASSUME NEW g \in Nat, g < T PROVE l(g) \in 1 .. c + g
  BY <1>3, LeftChild
<1>4. /\ IsSeq(nodes) /\ Len(nodes) = c + 1 /\ nodes[c + 1] = HashLeaf(x)
      /\ \A k \in 1 .. c : nodes[k] = ns[k]
  BY AppendSeq
<1> HIDE DEF nodes, l, T, c
<1> DEFINE J(m, h) == /\ IsSeq(m)
                      /\ Len(m) = c + 1 + h
                      /\ \A k \in 1 .. c : m[k] = ns[k]
                      /\ m[c + 1] = HashLeaf(x)
                      /\ \A g \in Nat : g < h => m[c + g + 2] = HashParent(m[l(g)], m[c + g + 1])
<1>5. J(s[0], 0)
  BY <1>1, <1>2, <1>4
<1>6. ASSUME NEW h \in Nat, h < T, J(s[h], h) PROVE J(s[h + 1], h + 1)
  <2> DEFINE m == s[h]
             y == HashParent(m[l(h)], m[c + h + 1])
             n == Append(m, y)
  <2>1. IsSeq(m) /\ Len(m) = c + h + 1
    BY <1>1, <1>6
  <2>2. s[h + 1] = n
    <3>1. s[h + 1] = PushParent(m, h)
      BY <1>2, <1>6
    <3>2. PushParent(m, h) = Append(m, HashParent(m[Len(m) - SubtreeSize(h)], m[Len(m)]))
      BY DEF PushParent
    <3> HIDE DEF m
    <3>3. Len(m) - SubtreeSize(h) = l(h)
      <4>1. SubtreeSize(h) \in Int
        BY SizeFacts
      <4> QED BY ONLY <1>1, <2>1, <4>1, h \in Nat DEF l
    <3> QED BY <2>1, <3>1, <3>2, <3>3
  <2>3. /\ IsSeq(n) /\ Len(n) = c + h + 2 /\ n[c + h + 2] = y
        /\ \A k \in 1 .. c + h + 1 : n[k] = m[k]
    <3>1. c + h + 1 + 1 = c + h + 2
      BY <1>1
    <3> HIDE DEF y, m
    <3> QED BY <2>1, <3>1, AppendSeq
  <2>4. y = HashParent(m[l(h)], m[c + h + 1])
    OBVIOUS
  <2>5. /\ \A k \in 1 .. c : m[k] = ns[k]
        /\ m[c + 1] = HashLeaf(x)
        /\ \A g \in Nat : g < h => m[c + g + 2] = HashParent(m[l(g)], m[c + g + 1])
    BY <1>6
  <2> HIDE DEF n, m, y
  <2>6. \A k \in 1 .. c : n[k] = ns[k]
    <3>1. \A k \in 1 .. c : k \in 1 .. c + h + 1
      BY <1>1
    <3> QED BY <2>3, <2>5, <3>1
  <2>7. n[c + 1] = HashLeaf(x)
    <3>1. c + 1 \in 1 .. c + h + 1
      BY <1>1
    <3> QED BY <2>3, <2>5, <3>1
  <2>8. ASSUME NEW g \in Nat, g < h + 1 PROVE n[c + g + 2] = HashParent(n[l(g)], n[c + g + 1])
    <3>1. l(g) \in 1 .. c + g
      <4>1. g < T
        BY ONLY <1>1, <1>6, <2>8, h \in Nat, g \in Nat
      <4> QED BY <1>3, <4>1
    <3>2. l(g) \in 1 .. c + h + 1 /\ c + g + 1 \in 1 .. c + h + 1
      BY <1>1, <2>8, <3>1
    <3>3. n[l(g)] = m[l(g)] /\ n[c + g + 1] = m[c + g + 1]
      BY <2>3, <3>2
    <3>4. CASE g = h
      BY <2>3, <2>4, <3>3, <3>4
    <3>5. CASE g # h
      <4>1. g < h /\ c + g + 2 \in 1 .. c + h + 1
        BY <1>1, <2>8, <3>5
      <4> QED BY <2>3, <2>5, <3>3, <4>1
    <3> QED BY <3>4, <3>5
  <2>9. c + h + 2 = c + 1 + (h + 1)
    BY <1>1
  <2> QED BY <2>2, <2>3, <2>6, <2>7, <2>8, <2>9
<1> DEFINE S == {h \in Nat : h <= T => J(s[h], h)}
<1>7. \A h \in Nat : h \in S
  <2>1. 0 \in S
    BY <1>5
  <2>2. ASSUME NEW h \in Nat, h \in S PROVE h + 1 \in S
    <3>1. h + 1 <= T => h < T /\ h <= T
      BY <1>1
    <3> HIDE DEF J
    <3> QED BY <1>6, <2>2, <3>1
  <2> HIDE DEF S
  <2> QED BY <2>1, <2>2, StepSet
<1>8. J(Merge(nodes, i), T)
  <2>1. T \in S /\ T <= T
    BY <1>1, <1>7
  <2> HIDE DEF J
  <2> QED BY <1>2, <2>1
<1> QED BY <1>1, <1>8 DEF nodes, l, T, c

-----------------------------------------------------------------------------
(* The invariant: the array holds the leaves and, for every complete tree,   *)
(* the hash of its children.                                                 *)

LeavesIn(ns, n) ==
  \A i \in Nat : i < n => \E x \in Leaf : ns[NodeCountForLeaves(i) + 1] = HashLeaf(x)

TreesIn(ns, n) ==
  \A h \in Nat : \A q \in Nat : FirstLeaf(q + 1, h + 1) <= n =>
    ns[TreePos(q, h + 1) + 1] = HashParent(ns[TreePos(2 * q, h) + 1], ns[TreePos(2 * q + 1, h) + 1])

WellFormed(ns, n) ==
  /\ IsSeq(ns)
  /\ Len(ns) = NodeCountForLeaves(n)
  /\ LeavesIn(ns, n)
  /\ TreesIn(ns, n)

RangeInv == nLeaves \in Nat /\ WellFormed(vNodes, nLeaves)

\* The nodes of a tree over the first n leaves and of its children.
LEMMA TreeWithin ==
  ASSUME NEW q \in Nat, NEW h \in Nat, NEW n \in Nat, FirstLeaf(q + 1, h + 1) <= n
  PROVE  /\ TreePos(q, h + 1) + 1 \in 1 .. NodeCountForLeaves(n)
         /\ TreePos(2 * q, h) + 1 \in 1 .. NodeCountForLeaves(n)
         /\ TreePos(2 * q + 1, h) + 1 \in 1 .. NodeCountForLeaves(n)
<1>1. h + 1 \in Nat /\ 2 * q \in Nat /\ 2 * q + 1 \in Nat
  OBVIOUS
<1>2. TreePos(q, h + 1) < NodeCountForLeaves(n)
  BY ONLY <1>1, FirstLeaf(q + 1, h + 1) <= n, q \in Nat, n \in Nat, TreePosBound
<1>3. TreePos(q, h + 1) \in Nat
  BY ONLY <1>1, q \in Nat, TreePosFacts
<1>4. TreePos(2 * q, h) \in Nat
  BY ONLY <1>1, h \in Nat, TreePosFacts
<1>5. TreePos(2 * q + 1, h) \in Nat
  BY ONLY <1>1, h \in Nat, TreePosFacts
<1>6. TreePos(2 * q, h) = TreePos(q, h + 1) - Pow2[h + 1] /\ TreePos(2 * q + 1, h) = TreePos(q, h + 1) - 1
  BY TreePosFacts
<1>7. Pow2[h + 1] \in Nat
  BY <1>1, SizeFacts
<1>8. NodeCountForLeaves(n) \in Nat
  BY NodeCountNext
<1> QED BY ONLY <1>2, <1>3, <1>4, <1>5, <1>6, <1>7, <1>8

\* A leaf of the first n is among their nodes.
LEMMA LeafWithin ==
  ASSUME NEW i \in Nat, NEW n \in Nat, i < n
  PROVE  NodeCountForLeaves(i) + 1 \in 1 .. NodeCountForLeaves(n)
<1>1. NodeCountForLeaves(i) + 1 + TrailingOnes[i] <= NodeCountForLeaves(n)
  BY NodeCountGrows
<1>2. NodeCountForLeaves(i) \in Nat /\ NodeCountForLeaves(n) \in Nat /\ TrailingOnes[i] \in Nat
  BY NodeCountNext, BitFacts
<1> QED BY <1>1, <1>2

\* Two arrays with the same first nodes have the same leaves and trees.
LEMMA SameTrees ==
  ASSUME NEW n \in Nat, NEW ns, NEW ms, \A k \in 1 .. NodeCountForLeaves(n) : ms[k] = ns[k]
  PROVE  /\ LeavesIn(ns, n) => LeavesIn(ms, n)
         /\ TreesIn(ns, n) => TreesIn(ms, n)
<1>1. ASSUME LeavesIn(ns, n), NEW i \in Nat, i < n
      PROVE  \E x \in Leaf : ms[NodeCountForLeaves(i) + 1] = HashLeaf(x)
  <2>1. NodeCountForLeaves(i) + 1 \in 1 .. NodeCountForLeaves(n)
    BY <1>1, LeafWithin
  <2>2. \E x \in Leaf : ns[NodeCountForLeaves(i) + 1] = HashLeaf(x)
    BY <1>1 DEF LeavesIn
  <2>3. ms[NodeCountForLeaves(i) + 1] = ns[NodeCountForLeaves(i) + 1]
    BY <2>1
  <2> QED BY <2>2, <2>3
<1>2. ASSUME TreesIn(ns, n), NEW h \in Nat, NEW q \in Nat, FirstLeaf(q + 1, h + 1) <= n
      PROVE  ms[TreePos(q, h + 1) + 1]
               = HashParent(ms[TreePos(2 * q, h) + 1], ms[TreePos(2 * q + 1, h) + 1])
  <2>1. /\ TreePos(q, h + 1) + 1 \in 1 .. NodeCountForLeaves(n)
        /\ TreePos(2 * q, h) + 1 \in 1 .. NodeCountForLeaves(n)
        /\ TreePos(2 * q + 1, h) + 1 \in 1 .. NodeCountForLeaves(n)
    BY <1>2, TreeWithin
  <2>2. ns[TreePos(q, h + 1) + 1]
          = HashParent(ns[TreePos(2 * q, h) + 1], ns[TreePos(2 * q + 1, h) + 1])
    BY <1>2 DEF TreesIn
  <2>3. /\ ms[TreePos(q, h + 1) + 1] = ns[TreePos(q, h + 1) + 1]
        /\ ms[TreePos(2 * q, h) + 1] = ns[TreePos(2 * q, h) + 1]
        /\ ms[TreePos(2 * q + 1, h) + 1] = ns[TreePos(2 * q + 1, h) + 1]
    BY <2>1
  <2> QED BY ONLY <2>2, <2>3
<1> QED BY <1>1, <1>2 DEF LeavesIn, TreesIn

\* Append leaves the nodes before it alone and completes the trees that the new
\* leaf ends.
LEMMA AppendKeeps ==
  ASSUME NEW ns, NEW i \in Nat, WellFormed(ns, i), NEW x \in Leaf
  PROVE  /\ WellFormed(Merge(Append(ns, HashLeaf(x)), i), i + 1)
         /\ \A k \in 1 .. NodeCountForLeaves(i) : Merge(Append(ns, HashLeaf(x)), i)[k] = ns[k]
         /\ Merge(Append(ns, HashLeaf(x)), i)[NodeCountForLeaves(i) + 1] = HashLeaf(x)
<1> DEFINE m == Merge(Append(ns, HashLeaf(x)), i)
           c == NodeCountForLeaves(i)
<1>0. IsSeq(ns) /\ Len(ns) = c /\ LeavesIn(ns, i) /\ TreesIn(ns, i)
  BY DEF WellFormed
<1>1. /\ IsSeq(m)
      /\ Len(m) = NodeCountForLeaves(i + 1)
      /\ \A k \in 1 .. c : m[k] = ns[k]
      /\ m[c + 1] = HashLeaf(x)
      /\ \A g \in Nat : g < TrailingOnes[i] =>
                  m[c + g + 2] = HashParent(m[c + g + 1 - SubtreeSize(g)], m[c + g + 1])
  BY <1>0, MergeFacts, SMTT(30)
<1> HIDE DEF m
<1>2. c \in Nat /\ TrailingOnes[i] \in Nat
  BY NodeCountNext, BitFacts
<1>3. LeavesIn(m, i) /\ TreesIn(m, i)
  BY <1>0, <1>1, SameTrees
<1>4. LeavesIn(m, i + 1)
  <2>1. ASSUME NEW j \in Nat, j < i + 1 PROVE \E y \in Leaf : m[NodeCountForLeaves(j) + 1] = HashLeaf(y)
    <3>1. CASE j = i
      BY <1>1, <3>1
    <3>2. CASE j # i
      <4>1. j < i
        BY <2>1, <3>2
      <4> QED BY <1>3, <4>1 DEF LeavesIn
    <3> QED BY <3>1, <3>2
  <2> QED BY <2>1 DEF LeavesIn
<1>5. ASSUME NEW h \in Nat, NEW q \in Nat, FirstLeaf(q + 1, h + 1) <= i + 1
      PROVE  m[TreePos(q, h + 1) + 1]
               = HashParent(m[TreePos(2 * q, h) + 1], m[TreePos(2 * q + 1, h) + 1])
  <2>1. FirstLeaf(q + 1, h + 1) \in Nat
    BY ONLY q + 1 \in Nat, h + 1 \in Nat, FirstLeafFacts
  <2>2. CASE FirstLeaf(q + 1, h + 1) <= i
    BY <1>3, <2>2 DEF TreesIn
  <2>3. CASE FirstLeaf(q + 1, h + 1) = i + 1
    <3>1. TreePos(q, h + 1) = c + (h + 1) /\ h + 1 <= TrailingOnes[i]
      BY ONLY i \in Nat, q \in Nat, h + 1 \in Nat, <2>3, NewestTree
    <3>2. /\ TreePos(2 * q + 1, h) = TreePos(q, h + 1) - 1
          /\ TreePos(2 * q + 1, h) = TreePos(2 * q, h) + SubtreeSize(h)
      BY TreePosFacts
    <3>3. TreePos(2 * q, h) \in Nat /\ SubtreeSize(h) \in Nat
      BY 2 * q \in Nat, TreePosFacts, SizeFacts
    <3>4. /\ TreePos(q, h + 1) + 1 = c + h + 2
          /\ TreePos(2 * q, h) + 1 = c + h + 1 - SubtreeSize(h)
          /\ TreePos(2 * q + 1, h) + 1 = c + h + 1
      BY ONLY <1>2, <3>1, <3>2, <3>3, h \in Nat
    <3>5. m[c + h + 2] = HashParent(m[c + h + 1 - SubtreeSize(h)], m[c + h + 1])
      BY <1>1, <1>2, <3>1
    <3> QED BY ONLY <3>4, <3>5
  <2> QED BY <1>5, <2>1, <2>2, <2>3
<1>6. TreesIn(m, i + 1)
  BY <1>5 DEF TreesIn
<1> QED BY <1>1, <1>4, <1>6 DEF WellFormed, m

\* Rewind keeps the trees over the leaves that remain.
LEMMA RewindKeeps ==
  ASSUME NEW ns, NEW i \in Nat, WellFormed(ns, i), NEW n \in Nat, n < i
  PROVE  /\ WellFormed(SubSeq(ns, 1, NodeCountForLeaves(n)), n)
         /\ \A k \in 1 .. NodeCountForLeaves(n) : SubSeq(ns, 1, NodeCountForLeaves(n))[k] = ns[k]
<1> DEFINE c == NodeCountForLeaves(n)
           m == SubSeq(ns, 1, c)
<1>1. c \in Nat /\ c <= Len(ns) /\ Len(ns) \in Nat
  <2>1. c + 1 + TrailingOnes[n] <= NodeCountForLeaves(i)
    BY NodeCountGrows
  <2>2. c \in Nat /\ TrailingOnes[n] \in Nat /\ NodeCountForLeaves(i) \in Nat
    BY NodeCountNext, BitFacts
  <2> QED BY <2>1, <2>2 DEF WellFormed
<1>2. PICK S : ns \in Seq(S)
  BY DEF WellFormed, IsSeq
<1>3. m \in Seq(S) /\ Len(m) = c /\ \A k \in 1 .. c : m[k] = ns[k]
  <2> HIDE DEF c
  <2> QED BY <1>1, <1>2
<1>4. \A j \in Nat : j < n => j < i
  OBVIOUS
<1>5. LeavesIn(ns, n)
  BY <1>4 DEF WellFormed, LeavesIn
<1>6. TreesIn(ns, n)
  <2>1. ASSUME NEW h \in Nat, NEW q \in Nat, FirstLeaf(q + 1, h + 1) <= n
        PROVE  FirstLeaf(q + 1, h + 1) <= i
    <3>1. FirstLeaf(q + 1, h + 1) \in Nat
      BY ONLY q + 1 \in Nat, h + 1 \in Nat, FirstLeafFacts
    <3> QED BY <2>1, <3>1
  <2> QED BY <2>1 DEF WellFormed, TreesIn
<1> HIDE DEF m
<1>7. LeavesIn(m, n) /\ TreesIn(m, n)
  BY <1>3, <1>5, <1>6, SameTrees
<1> QED BY <1>3, <1>7 DEF WellFormed, IsSeq, m

\* The array is well formed after any appends and rewinds.
THEOREM RangeInvariant == RangeSpec => []RangeInv
<1>1. RangeInit => RangeInv
  <2>1. SUFFICES ASSUME RangeInit PROVE RangeInv
    OBVIOUS
  <2>2. nLeaves = 0 /\ vNodes = << >>
    BY <2>1 DEF RangeInit
  <2>3. IsSeq(<< >>) /\ Len(<< >>) = 0
    <3>1. << >> \in Seq({})
      OBVIOUS
    <3> QED BY <3>1 DEF IsSeq
  <2>4. NodeCountForLeaves(0) = 0
    BY 0 \in Nat, NodeCountNext
  <2>5. LeavesIn(<< >>, 0)
    BY DEF LeavesIn
  <2>6. TreesIn(<< >>, 0)
    <3>1. ASSUME NEW h \in Nat, NEW q \in Nat PROVE ~ (FirstLeaf(q + 1, h + 1) <= 0)
      <4>1. FirstLeaf(q + 1, h + 1) \in Nat /\ FirstLeaf(q + 1, h + 1) >= q + 1
        BY ONLY q + 1 \in Nat, h + 1 \in Nat, FirstLeafFacts
      <4> QED BY <4>1
    <3> QED BY <3>1 DEF TreesIn
  <2> QED BY <2>2, <2>3, <2>4, <2>5, <2>6 DEF RangeInv, WellFormed
<1>2. RangeInv /\ [RangeNext]_rangeVars => RangeInv'
  <2>1. SUFFICES ASSUME RangeInv, [RangeNext]_rangeVars PROVE RangeInv'
    OBVIOUS
  <2>2. ASSUME NEW x \in Leaf, AppendHash(x) PROVE RangeInv'
    BY <2>1, <2>2, AppendKeeps DEF RangeInv, AppendHash
  <2>3. ASSUME NEW n \in 0 .. MaxLeaves, Rewind(n) PROVE RangeInv'
    <3>1. n \in Nat
      BY MMRAssumption
    <3> QED BY <2>1, <2>3, <3>1, RewindKeeps DEF RangeInv, Rewind
  <2>4. CASE UNCHANGED rangeVars
    BY <2>1, <2>4 DEF RangeInv, rangeVars
  <2> QED BY <2>1, <2>2, <2>3, <2>4 DEF RangeNext
<1> QED BY <1>1, <1>2, PTL DEF RangeSpec

-----------------------------------------------------------------------------
(* The log of leaves                                                         *)

\* The leaves as GetLeafHash reads them.
LeavesOf(ns, n) == [i \in 1 .. n |-> ns[NodeCountForLeaves(i - 1) + 1][2]]

\* The leaves that the model reads back are those of the array.
LEMMA LeavesAre ==
  ASSUME nLeaves \in Nat
  PROVE  Leaves = LeavesOf(vNodes, nLeaves)
<1>1. ASSUME NEW i \in 1 .. nLeaves
      PROVE  Node(LeafIndexToPos(i - 1)) = vNodes[NodeCountForLeaves(i - 1) + 1]
  <2>1. i - 1 \in Nat
    OBVIOUS
  <2>2. LeafIndexToPos(i - 1) = NodeCountForLeaves(i - 1)
    BY ONLY <2>1, NodeCountNext
  <2> QED BY <2>2 DEF Node
<1> QED BY <1>1 DEF Leaves, LeavesOf

\* They are leaves, as many as the range counts, each hashed at its position.
LEMMA LeavesOfFacts ==
  ASSUME NEW ns, NEW n \in Nat, LeavesIn(ns, n)
  PROVE  /\ LeavesOf(ns, n) \in Seq(Leaf)
         /\ Len(LeavesOf(ns, n)) = n
         /\ \A i \in 1 .. n : /\ LeavesOf(ns, n)[i] = ns[NodeCountForLeaves(i - 1) + 1][2]
                              /\ ns[NodeCountForLeaves(i - 1) + 1] = HashLeaf(LeavesOf(ns, n)[i])
<1>1. ASSUME NEW i \in 1 .. n
      PROVE  /\ ns[NodeCountForLeaves(i - 1) + 1][2] \in Leaf
             /\ ns[NodeCountForLeaves(i - 1) + 1] = HashLeaf(ns[NodeCountForLeaves(i - 1) + 1][2])
  <2>1. i - 1 \in Nat /\ i - 1 < n
    OBVIOUS
  <2>2. PICK x \in Leaf : ns[NodeCountForLeaves(i - 1) + 1] = HashLeaf(x)
    BY <2>1 DEF LeavesIn
  <2> QED BY <2>2 DEF HashLeaf
<1>2. \A i \in 1 .. n : LeavesOf(ns, n)[i] = ns[NodeCountForLeaves(i - 1) + 1][2]
  BY DEF LeavesOf
<1>3. LeavesOf(ns, n) \in [1 .. n -> Leaf]
  BY <1>1 DEF LeavesOf
<1>4. LeavesOf(ns, n) \in Seq(Leaf) /\ Len(LeavesOf(ns, n)) = n
  BY <1>3
<1> QED BY <1>1, <1>2, <1>4

\* The range refines the log of leaves: Append adds its leaf at the end, Rewind
\* cuts, and neither changes a leaf that stays.
THEOREM LeafLogRefinement == RangeSpec => ImplementsLeafLog
<1>1. RangeInit => LL!LeafLogInit
  <2>1. SUFFICES ASSUME RangeInit PROVE Leaves = << >>
    BY DEF LL!LeafLogInit
  <2>2. nLeaves = 0
    BY <2>1 DEF RangeInit
  <2> QED BY <2>2 DEF Leaves
<1>2. RangeInv /\ RangeInv' /\ [RangeNext]_rangeVars => [LL!LeafLogNext]_Leaves
  <2>1. SUFFICES ASSUME RangeInv, RangeInv', [RangeNext]_rangeVars
                 PROVE  [LL!LeafLogNext]_Leaves
    OBVIOUS
  <2> DEFINE old == LeavesOf(vNodes, nLeaves)
             new == LeavesOf(vNodes', nLeaves')
  <2>2. nLeaves \in Nat /\ LeavesIn(vNodes, nLeaves) /\ nLeaves' \in Nat /\ LeavesIn(vNodes', nLeaves')
    BY <2>1 DEF RangeInv, WellFormed
  <2>3. Leaves = old /\ Leaves' = new
    <3>1. Leaves = old
      BY <2>2, LeavesAre
    <3>2. Leaves' = new
      <4>1. nLeaves' \in Nat
        BY <2>2
      <4>2. ASSUME NEW i \in 1 .. nLeaves'
            PROVE  Node(LeafIndexToPos(i - 1))' = vNodes'[NodeCountForLeaves(i - 1) + 1]
        <5>1. i - 1 \in Nat
          BY <4>1
        <5>2. LeafIndexToPos(i - 1) = NodeCountForLeaves(i - 1)
          BY ONLY <5>1, NodeCountNext
        <5> QED BY <5>2 DEF Node
      <4> QED BY <4>2 DEF Leaves, LeavesOf
    <3> QED BY <3>1, <3>2
  <2>4. /\ old \in Seq(Leaf) /\ Len(old) = nLeaves
        /\ new \in Seq(Leaf) /\ Len(new) = nLeaves'
        /\ \A i \in 1 .. nLeaves : old[i] = vNodes[NodeCountForLeaves(i - 1) + 1][2]
        /\ \A i \in 1 .. nLeaves' : new[i] = vNodes'[NodeCountForLeaves(i - 1) + 1][2]
    BY <2>2, LeavesOfFacts
  <2> HIDE DEF old, new
  <2>5. ASSUME NEW x \in Leaf, AppendHash(x) PROVE LL!LeafLogNext
    <3>1. /\ \A k \in 1 .. NodeCountForLeaves(nLeaves) : vNodes'[k] = vNodes[k]
          /\ vNodes'[NodeCountForLeaves(nLeaves) + 1] = HashLeaf(x)
          /\ nLeaves' = nLeaves + 1
      BY <2>1, <2>5, AppendKeeps DEF RangeInv, AppendHash
    <3>2. ASSUME NEW i \in 1 .. nLeaves PROVE new[i] = old[i]
      <4>1. i - 1 \in Nat /\ i - 1 < nLeaves /\ i \in 1 .. nLeaves'
        BY <2>2, <3>1
      <4>2. NodeCountForLeaves(i - 1) + 1 \in 1 .. NodeCountForLeaves(nLeaves)
        BY ONLY <2>2, <4>1, LeafWithin
      <4> QED BY ONLY <2>4, <3>1, <4>1, <4>2, i \in 1 .. nLeaves
    <3>3. new[nLeaves + 1] = x
      <4>1. nLeaves + 1 \in 1 .. nLeaves' /\ (nLeaves + 1) - 1 = nLeaves
        BY <2>2, <3>1
      <4>2. new[nLeaves + 1] = vNodes'[NodeCountForLeaves((nLeaves + 1) - 1) + 1][2]
        BY ONLY <2>4, <4>1, Zenon
      <4>3. new[nLeaves + 1] = HashLeaf(x)[2]
        BY ONLY <3>1, <4>1, <4>2
      <4> QED BY <4>3 DEF HashLeaf
    <3>4. new = Append(old, x)
      BY ONLY <2>2, <2>4, <3>1, <3>2, <3>3, x \in Leaf
    <3>5. Leaves' = Append(Leaves, x)
      BY ONLY <2>3, <3>4
    <3> QED BY <3>5 DEF LL!LeafLogNext, LL!AppendLeaf
  <2>6. ASSUME NEW n \in 0 .. MaxLeaves, Rewind(n) PROVE LL!LeafLogNext
    <3>0. n \in Nat /\ n < nLeaves /\ nLeaves' = n /\ vNodes' = SubSeq(vNodes, 1, NodeCountForLeaves(n))
      BY <2>6, MMRAssumption DEF Rewind
    <3>1. \A k \in 1 .. NodeCountForLeaves(n) : vNodes'[k] = vNodes[k]
      BY <2>1, <3>0, RewindKeeps DEF RangeInv
    <3>2. ASSUME NEW i \in 1 .. n PROVE new[i] = old[i]
      <4>1. i - 1 \in Nat /\ i - 1 < n /\ i \in 1 .. nLeaves' /\ i \in 1 .. nLeaves
        BY <2>2, <3>0
      <4>2. NodeCountForLeaves(i - 1) + 1 \in 1 .. NodeCountForLeaves(n)
        BY ONLY <3>0, <4>1, LeafWithin
      <4> QED BY ONLY <2>4, <3>1, <4>1, <4>2
    <3>3. new = SubSeq(old, 1, n)
      BY ONLY <2>2, <2>4, <3>0, <3>2
    <3>4. n \in 0 .. Len(Leaves) /\ Leaves' = SubSeq(Leaves, 1, n)
      BY <2>2, <2>3, <2>4, <3>0, <3>3
    <3> QED BY <3>4 DEF LL!LeafLogNext, LL!CutTo
  <2>7. CASE UNCHANGED rangeVars
    <3>1. Leaves' = Leaves
      BY <2>7 DEF rangeVars, Leaves, Node
    <3> QED BY <3>1
  <2> QED BY <2>1, <2>5, <2>6, <2>7 DEF RangeNext
<1> QED BY <1>1, <1>2, RangeInvariant, PTL DEF RangeSpec, ImplementsLeafLog, LL!LeafLogSpec

-----------------------------------------------------------------------------
(* The mountains                                                             *)

\* The powers of two grow.
LEMMA Pow2Grows ==
  ASSUME NEW h \in Nat, NEW g \in Nat, h <= g
  PROVE  Pow2[h] <= Pow2[g]
<1> DEFINE S == {k \in Nat : Pow2[h] <= Pow2[h + k]}
<1>1. 0 \in S
  <2>1. h + 0 = h /\ Pow2[h] \in Nat
    BY SizeFacts
  <2> QED BY <2>1
<1>2. ASSUME NEW k \in Nat, k \in S PROVE k + 1 \in S
  <2>1. h + (k + 1) = (h + k) + 1 /\ h + k \in Nat
    OBVIOUS
  <2>2. Pow2[(h + k) + 1] = 2 * Pow2[h + k] /\ Pow2[h + k] \in Nat
    BY ONLY <2>1, SizeFacts
  <2>3. Pow2[h] \in Nat /\ Pow2[h] <= Pow2[h + k]
    BY <1>2, SizeFacts
  <2>4. Pow2[h] <= Pow2[h + (k + 1)]
    BY ONLY <2>1, <2>2, <2>3
  <2> QED BY <2>4
<1> HIDE DEF S
<1>3. \A k \in Nat : k \in S
  BY <1>1, <1>2, StepSet
<1>4. g - h \in Nat /\ h + (g - h) = g
  OBVIOUS
<1>5. g - h \in S
  BY <1>3, <1>4
<1> QED BY <1>4, <1>5 DEF S

\* The bit length of a number is given by the powers around it.
LEMMA BitLengthIs ==
  \A h \in Nat : \A m \in Nat : Pow2[h] <= m /\ m < 2 * Pow2[h] => BitLength[m] = h + 1
<1> DEFINE S == {h \in Nat : \A m \in Nat : Pow2[h] <= m /\ m < 2 * Pow2[h] => BitLength[m] = h + 1}
<1>1. 0 \in S
  <2>1. Pow2[0] = 1
    BY Pow2Facts
  <2>2. \A m \in Nat : Pow2[0] <= m /\ m < 2 * Pow2[0] => m = 2 * 0 + 1
    BY <2>1
  <2>3. BitLength[2 * 0 + 1] = BitLength[0] + 1 /\ BitLength[0] = 0
    BY ONLY 0 \in Nat, BitFacts
  <2> QED BY <2>2, <2>3
<1>2. ASSUME NEW h \in Nat, h \in S PROVE h + 1 \in S
  <2>1. Pow2[h] \in Nat /\ Pow2[h] >= 1 /\ Pow2[h + 1] = 2 * Pow2[h]
    BY SizeFacts
  <2>2. ASSUME NEW m \in Nat, Pow2[h + 1] <= m, m < 2 * Pow2[h + 1] PROVE BitLength[m] = h + 2
    <3>1. PICK k \in Nat : m = 2 * k \/ m = 2 * k + 1
      BY Halves
    <3>2. Pow2[h] <= k /\ k < 2 * Pow2[h] /\ k # 0
      BY <2>1, <2>2, <3>1
    <3>3. BitLength[k] = h + 1
      BY <1>2, <3>2
    <3>4. BitLength[2 * k + 1] = BitLength[k] + 1 /\ BitLength[2 * k] = BitLength[k] + 1
      BY <3>2, BitFacts
    <3> QED BY <3>1, <3>3, <3>4
  <2>3. h + 2 = (h + 1) + 1
    OBVIOUS
  <2> QED BY <2>2, <2>3
<1> HIDE DEF S
<1>3. \A h \in Nat : h \in S
  BY <1>1, <1>2, StepSet
<1> QED BY <1>3 DEF S

\* Every number but zero is between two powers.
LEMMA PowersAround ==
  \A m \in Nat : m # 0 => \E h \in Nat : Pow2[h] <= m /\ m < 2 * Pow2[h]
<1> DEFINE S == {m \in Nat : m # 0 => \E h \in Nat : Pow2[h] <= m /\ m < 2 * Pow2[h]}
<1>1. ASSUME NEW m \in Nat, \A k \in Nat : k < m => k \in S PROVE m \in S
  <2>1. CASE m = 0
    BY <2>1
  <2>2. CASE m = 1
    <3>1. Pow2[0] = 1 /\ 0 \in Nat
      BY Pow2Facts
    <3>2. Pow2[0] <= m /\ m < 2 * Pow2[0]
      BY <2>2, <3>1
    <3> QED BY <3>1, <3>2
  <2>3. CASE m > 1
    <3>1. PICK k \in Nat : m = 2 * k \/ m = 2 * k + 1
      BY Halves
    <3>2. k < m /\ k # 0
      BY <2>3, <3>1
    <3>3. PICK h \in Nat : Pow2[h] <= k /\ k < 2 * Pow2[h]
      BY <1>1, <3>2
    <3>4. Pow2[h] \in Nat /\ Pow2[h + 1] = 2 * Pow2[h] /\ h + 1 \in Nat
      BY SizeFacts
    <3>5. Pow2[h + 1] <= m /\ m < 2 * Pow2[h + 1]
      BY <3>1, <3>3, <3>4
    <3> QED BY <3>4, <3>5
  <2> QED BY <2>1, <2>2, <2>3
<1> HIDE DEF S
<1>2. \A m \in Nat : m \in S
  BY <1>1, StrongSet
<1> QED BY <1>2 DEF S

\* A number is below the power of two of its length.
LEMMA BelowItsPower ==
  ASSUME NEW n \in Nat
  PROVE  n < Pow2[BitLength[n]]
<1>1. CASE n = 0
  <2>1. BitLength[0] = 0 /\ Pow2[0] = 1
    BY 0 \in Nat, BitFacts, Pow2Facts
  <2> QED BY <1>1, <2>1
<1>2. CASE n # 0
  <2>1. PICK h \in Nat : Pow2[h] <= n /\ n < 2 * Pow2[h]
    BY <1>2, PowersAround
  <2>2. BitLength[n] = h + 1
    BY <2>1, BitLengthIs
  <2>3. Pow2[h + 1] = 2 * Pow2[h]
    BY SizeFacts
  <2> QED BY <2>1, <2>2, <2>3
<1> QED BY <1>1, <1>2

\* The largest power of two below n.
LEMMA LargestPower ==
  ASSUME NEW n \in Nat, NEW h \in Nat, Pow2[h] < n, n <= 2 * Pow2[h]
  PROVE  LargestPowerBelow(n) = Pow2[h]
<1>1. Pow2[h] \in Nat /\ Pow2[h] >= 1
  BY SizeFacts
<1>2. n - 1 \in Nat /\ Pow2[h] <= n - 1 /\ n - 1 < 2 * Pow2[h]
  BY <1>1
<1>3. BitLength[n - 1] = h + 1
  BY ONLY <1>2, h \in Nat, BitLengthIs
<1>4. BitLength[n - 1] - 1 = h
  BY <1>3
<1> QED BY <1>4 DEF LargestPowerBelow

\* The power of two that splits n leaves.
LEMMA LargestPowerExists ==
  ASSUME NEW n \in Nat, n > 1
  PROVE  \E h \in Nat : Pow2[h] < n /\ n <= 2 * Pow2[h]
<1>1. n - 1 \in Nat /\ n - 1 # 0
  OBVIOUS
<1>2. PICK h \in Nat : Pow2[h] <= n - 1 /\ n - 1 < 2 * Pow2[h]
  BY <1>1, PowersAround
<1>3. Pow2[h] \in Nat
  BY SizeFacts
<1>4. Pow2[h] < n /\ n <= 2 * Pow2[h]
  BY <1>2, <1>3
<1> QED BY <1>4

\* Zeros at the end add no ones.
LEMMA PopCountShift ==
  ASSUME NEW q \in Nat, NEW h \in Nat
  PROVE  PopCount[FirstLeaf(q, h)] = PopCount[q]
<1> DEFINE S == {k \in Nat : PopCount[FirstLeaf(q, k)] = PopCount[q]}
<1>1. 0 \in S
  <2>1. FirstLeaf(q, 0) = q
    BY ONLY q \in Nat, 0 \in Nat, FirstLeafFacts
  <2> QED BY <2>1
<1>2. ASSUME NEW k \in Nat, k \in S PROVE k + 1 \in S
  <2>1. FirstLeaf(q, k + 1) = 2 * FirstLeaf(q, k) /\ FirstLeaf(q, k) \in Nat
    BY ONLY q \in Nat, k \in Nat, FirstLeafFacts
  <2>2. PopCount[2 * FirstLeaf(q, k)] = PopCount[FirstLeaf(q, k)]
    BY ONLY <2>1, BitFacts
  <2> QED BY <1>2, <2>1, <2>2
<1> HIDE DEF S
<1>3. \A k \in Nat : k \in S
  BY <1>1, <1>2, StepSet
<1> QED BY <1>3 DEF S

\* q is n without its last h bits.
Shifted(q, h, n) == FirstLeaf(q, h) <= n /\ n < FirstLeaf(q, h) + Pow2[h]

\* A further bit of n: zero or one, as the leaves that remain say.
LEMMA ShiftedFacts ==
  ASSUME NEW n \in Nat, NEW h \in Nat, NEW q \in Nat
  PROVE  /\ Shifted(q, h + 1, n) => IF n - FirstLeaf(q, h + 1) < Pow2[h] THEN Shifted(2 * q, h, n)
                                                                         ELSE Shifted(2 * q + 1, h, n)
         /\ Shifted(q, 0, n) => q = n
         /\ FirstLeaf(2 * q, h) = FirstLeaf(q, h + 1)
         /\ FirstLeaf(2 * q + 1, h) = FirstLeaf(q, h + 1) + Pow2[h]
         /\ FirstLeaf(q, h + 1) \in Nat
<1>1. FirstLeaf(2 * q, h) = FirstLeaf(q, h + 1) /\ FirstLeaf(q, 0) = q
  BY FirstLeafFacts
<1>2. FirstLeaf(2 * q + 1, h) = FirstLeaf(2 * q, h) + Pow2[h]
  BY ONLY 2 * q \in Nat, h \in Nat, FirstLeafFacts
<1>3. FirstLeaf(q, h + 1) \in Nat
  BY ONLY h + 1 \in Nat, q \in Nat, FirstLeafFacts
<1>4. Pow2[h] \in Nat /\ Pow2[h + 1] = 2 * Pow2[h] /\ Pow2[0] = 1
  BY SizeFacts, Pow2Facts
<1>5. Shifted(q, h + 1, n) => IF n - FirstLeaf(q, h + 1) < Pow2[h] THEN Shifted(2 * q, h, n)
                                                                   ELSE Shifted(2 * q + 1, h, n)
  BY <1>1, <1>2, <1>3, <1>4 DEF Shifted
<1>6. Shifted(q, 0, n) => q = n
  BY <1>1, <1>4 DEF Shifted
<1> QED BY <1>1, <1>2, <1>3, <1>5, <1>6

\* There is only one.
LEMMA ShiftedUnique ==
  ASSUME NEW n \in Nat, NEW h \in Nat, NEW q \in Nat, NEW r \in Nat,
         Shifted(q, h, n), Shifted(r, h, n)
  PROVE  q = r
<1>1. \A a, b \in Nat : Shifted(a, h, n) /\ Shifted(b, h, n) => ~ (a < b)
  <2>1. SUFFICES ASSUME NEW a \in Nat, NEW b \in Nat, Shifted(a, h, n), Shifted(b, h, n), a < b
                 PROVE  FALSE
    OBVIOUS
  <2>2. FirstLeaf(a + 1, h) <= FirstLeaf(b, h)
    BY ONLY <2>1, h \in Nat, FirstLeafGrows
  <2>3. FirstLeaf(a + 1, h) = FirstLeaf(a, h) + Pow2[h] /\ FirstLeaf(a, h) \in Nat
    BY FirstLeafFacts
  <2>4. FirstLeaf(b, h) \in Nat /\ Pow2[h] \in Nat
    BY FirstLeafFacts, SizeFacts
  <2> QED BY <2>1, <2>2, <2>3, <2>4 DEF Shifted
<1>2. ~ (q < r) /\ ~ (r < q)
  BY <1>1
<1> QED BY <1>2

\* The rounds of the loop over the heights.
LEMMA MountainRounds ==
  ASSUME nLeaves \in Nat
  PROVE  \E s : /\ s[0] = [remaining |-> nLeaves, nodes |-> 0, trees |-> << >>]
                /\ \A k \in Nat : k < BitLength[nLeaves] =>
                     s[k + 1] = PushTree(s[k], BitLength[nLeaves] - (k + 1))
                /\ Mountains = s[BitLength[nLeaves]].trees
<1> DEFINE T == BitLength[nLeaves]
           z == [remaining |-> nLeaves, nodes |-> 0, trees |-> << >>]
           Fits(v, t) == v = [k \in 0 .. t |-> IF k = 0 THEN z ELSE PushTree(v[k - 1], T - k)]
<1>0. T \in Nat
  BY BitFacts
<1>1. \A t \in Nat : \E v : Fits(v, t)
  <2> DEFINE S == {t \in Nat : \E v : Fits(v, t)}
  <2>1. 0 \in S
    <3> HIDE DEF z
    <3>1. Fits([k \in 0 .. 0 |-> z], 0)
      OBVIOUS
    <3> QED BY <3>1
  <2>2. ASSUME NEW t \in Nat, t \in S PROVE t + 1 \in S
    <3> HIDE DEF z, T
    <3>1. PICK v : Fits(v, t)
      BY <2>2
    <3> DEFINE u == [k \in 0 .. t + 1 |-> IF k = t + 1 THEN PushTree(v[t], T - k) ELSE v[k]]
    <3>2. ASSUME NEW k \in 0 .. t + 1
          PROVE  u[k] = IF k = 0 THEN z ELSE PushTree(u[k - 1], T - k)
      <4>1. CASE k = t + 1
        <5>1. u[t] = v[t] /\ u[k] = PushTree(v[t], T - k)
          BY <4>1
        <5>2. k - 1 = t /\ k # 0
          BY <4>1
        <5> HIDE DEF u
        <5> QED BY <5>1, <5>2
      <4>2. CASE k # t + 1
        <5>1. k \in 0 .. t /\ u[k] = v[k]
          BY <4>2
        <5>2. v[k] = IF k = 0 THEN z ELSE PushTree(v[k - 1], T - k)
          BY <3>1, <5>1
        <5>3. k # 0 => u[k - 1] = v[k - 1]
          BY <5>1
        <5> HIDE DEF u
        <5> QED BY <5>1, <5>2, <5>3
      <4> QED BY <4>1, <4>2
    <3>3. Fits(u, t + 1)
      BY <3>2
    <3> HIDE DEF u, Fits
    <3> QED BY <3>3
  <2> HIDE DEF S
  <2>3. \A t \in Nat : t \in S
    BY <2>1, <2>2, StepSet
  <2> QED BY <2>3 DEF S
<1> DEFINE s == CHOOSE v : Fits(v, T)
<1>2. Fits(s, T)
  BY <1>0, <1>1
<1>3. Mountains = s[T].trees
  BY DEF Mountains
<1> HIDE DEF s, z
<1>4. s[0] = z
  BY <1>0, <1>2
<1>5. ASSUME NEW k \in Nat, k < T PROVE s[k + 1] = PushTree(s[k], T - (k + 1))
  <2>1. k + 1 \in 0 .. T /\ k + 1 # 0 /\ (k + 1) - 1 = k
    BY <1>0, <1>5
  <2>2. \A g \in 0 .. T : s[g] = IF g = 0 THEN z ELSE PushTree(s[g - 1], T - g)
    BY <1>2
  <2>3. s[k + 1] = PushTree(s[(k + 1) - 1], T - (k + 1))
    BY ONLY <2>1, <2>2, Zenon
  <2> QED BY ONLY <2>1, <2>3
<1> QED BY <1>3, <1>4, <1>5 DEF z

\* The mountain of height h, for 2q + 1 the bits of the number of leaves from h
\* on.
MountainAt(q, h) == [peak |-> TreePos(2 * q, h), first |-> FirstLeaf(2 * q, h), size |-> Pow2[h]]

\* The mountains of the heights from h on, in the order of their heights.
MountainsFrom(trees, h, n) ==
  /\ \A g \in Nat : \A r \in Nat : g >= h /\ Shifted(2 * r + 1, g, n) =>
       PopCount[r] + 1 \in 1 .. Len(trees) /\ trees[PopCount[r] + 1] = MountainAt(r, g)
  /\ \A j \in 1 .. Len(trees) : \E g \in Nat : \E r \in Nat :
       g >= h /\ Shifted(2 * r + 1, g, n) /\ j = PopCount[r] + 1

LoopAt(m, q, h, n) ==
  /\ Shifted(q, h, n)
  /\ m.remaining = n - FirstLeaf(q, h)
  /\ m.nodes = 2 * FirstLeaf(q, h) - PopCount[q]
  /\ IsSeq(m.trees)
  /\ Len(m.trees) = PopCount[q]
  /\ MountainsFrom(m.trees, h, n)

\* A round of the loop.
LEMMA LoopStep ==
  ASSUME nLeaves \in Nat, NEW h \in Nat, NEW q \in Nat, NEW m, LoopAt(m, q, h + 1, nLeaves)
  PROVE  \E p \in Nat : LoopAt(PushTree(m, h), p, h, nLeaves)
<1> DEFINE n == nLeaves
           f == FirstLeaf(q, h + 1)
<1>1. /\ f \in Nat /\ f <= n /\ FirstLeaf(2 * q, h) = f /\ FirstLeaf(2 * q + 1, h) = f + Pow2[h]
      /\ IF n - f < Pow2[h] THEN Shifted(2 * q, h, n) ELSE Shifted(2 * q + 1, h, n)
  BY ShiftedFacts, ZenonT(60) DEF LoopAt, Shifted
<1>2. /\ PopCount[2 * q] = PopCount[q] /\ PopCount[2 * q + 1] = PopCount[q] + 1
      /\ PopCount[q] \in Nat
  BY BitFacts
<1>3. Pow2[h] \in Nat /\ Pow2[h] >= 1 /\ SubtreeSize(h) = 2 * Pow2[h] - 1
  BY SizeFacts
<1>4. /\ m.remaining = n - f /\ m.nodes = 2 * f - PopCount[q]
      /\ IsSeq(m.trees) /\ Len(m.trees) = PopCount[q]
      /\ MountainsFrom(m.trees, h + 1, n)
  BY DEF LoopAt
<1>5. 2 * q \in Nat /\ 2 * q + 1 \in Nat
  OBVIOUS
<1> HIDE DEF f
<1>6. CASE n - f < Pow2[h]
  <2>1. PushTree(m, h) = m
    BY <1>4, <1>6 DEF PushTree
  <2>2. MountainsFrom(m.trees, h, n)
    <3>1. ASSUME NEW g \in Nat, NEW r \in Nat, g >= h, Shifted(2 * r + 1, g, n)
          PROVE  g >= h + 1
      <4>1. SUFFICES ASSUME g = h PROVE FALSE
        BY <3>1
      <4>2. 2 * r + 1 \in Nat
        OBVIOUS
      <4>3. 2 * r + 1 = 2 * q
        BY ONLY <1>1, <1>5, <1>6, <3>1, <4>1, <4>2, nLeaves \in Nat, h \in Nat, ShiftedUnique
      <4> QED BY <4>3
    <3>2. \A g \in Nat : g >= h + 1 => g >= h
      OBVIOUS
    <3> QED BY <1>4, <3>1, <3>2 DEF MountainsFrom
  <2>3. LoopAt(m, 2 * q, h, n)
    BY <1>1, <1>2, <1>4, <1>6, <2>2 DEF LoopAt
  <2> QED BY <1>5, <2>1, <2>3
<1>7. CASE ~ (n - f < Pow2[h])
  <2> DEFINE t  == [peak |-> m.nodes + SubtreeSize(h) - 1, first |-> n - m.remaining, size |-> Pow2[h]]
             ts == Append(m.trees, t)
  <2>1. PushTree(m, h) = [remaining |-> m.remaining - Pow2[h], nodes |-> m.nodes + SubtreeSize(h), trees |-> ts]
    BY <1>4, <1>7 DEF PushTree
  <2>2. t = MountainAt(q, h)
    <3>1. TreePos(2 * q, h) = 2 * (f + Pow2[h]) - PopCount[q] - 2
      BY <1>1, <1>2 DEF TreePos
    <3>2. m.nodes + SubtreeSize(h) - 1 = TreePos(2 * q, h)
      BY ONLY <1>1, <1>2, <1>3, <1>4, <3>1, SMTT(30)
    <3>3. n - m.remaining = FirstLeaf(2 * q, h)
      BY ONLY <1>1, <1>4, nLeaves \in Nat
    <3> QED BY ONLY <3>2, <3>3 DEF MountainAt
  <2>3. /\ IsSeq(ts) /\ Len(ts) = PopCount[q] + 1 /\ ts[PopCount[q] + 1] = t
        /\ \A k \in 1 .. PopCount[q] : ts[k] = m.trees[k]
    <3> HIDE DEF t
    <3> QED BY <1>4, AppendSeq
  <2> HIDE DEF t, ts
  <2>4. MountainsFrom(ts, h, n)
    <3>1. ASSUME NEW g \in Nat, NEW r \in Nat, g >= h, Shifted(2 * r + 1, g, n)
          PROVE  PopCount[r] + 1 \in 1 .. Len(ts) /\ ts[PopCount[r] + 1] = MountainAt(r, g)
      <4>1. CASE g = h
        <5>1. 2 * r + 1 \in Nat
          OBVIOUS
        <5>2. 2 * r + 1 = 2 * q + 1
          BY ONLY <1>1, <1>5, <1>7, <3>1, <4>1, <5>1, nLeaves \in Nat, h \in Nat, ShiftedUnique
        <5>3. r = q
          BY <5>2
        <5> QED BY <1>2, <2>2, <2>3, <4>1, <5>3
      <4>2. CASE g # h
        <5>1. g >= h + 1
          BY <3>1, <4>2
        <5>2. PopCount[r] + 1 \in 1 .. Len(m.trees) /\ m.trees[PopCount[r] + 1] = MountainAt(r, g)
          BY <1>4, <3>1, <5>1 DEF MountainsFrom
        <5>3. PopCount[r] + 1 \in 1 .. Len(ts)
          BY <1>2, <1>4, <2>3, <5>2, SMTT(30)
        <5> QED BY <1>4, <2>3, <5>2, <5>3
      <4> QED BY <4>1, <4>2
    <3>2. ASSUME NEW j \in 1 .. Len(ts)
          PROVE  \E g \in Nat : \E r \in Nat : g >= h /\ Shifted(2 * r + 1, g, n) /\ j = PopCount[r] + 1
      <4>1. CASE j = PopCount[q] + 1
        BY <1>1, <1>7, <4>1
      <4>2. CASE j # PopCount[q] + 1
        <5>1. j \in 1 .. Len(m.trees)
          BY <1>2, <1>4, <2>3, <4>2
        <5>2. PICK g \in Nat : \E r \in Nat :
                g >= h + 1 /\ Shifted(2 * r + 1, g, n) /\ j = PopCount[r] + 1
          BY <1>4, <5>1 DEF MountainsFrom
        <5>3. g >= h + 1 => g >= h
          OBVIOUS
        <5> QED BY <5>2, <5>3
      <4> QED BY <4>1, <4>2
    <3> QED BY <3>1, <3>2 DEF MountainsFrom
  <2> DEFINE w == PushTree(m, h)
  <2>5. w.remaining = m.remaining - Pow2[h] /\ w.nodes = m.nodes + SubtreeSize(h) /\ w.trees = ts
    BY <2>1
  <2> HIDE DEF w
  <2>6. /\ w.remaining = n - FirstLeaf(2 * q + 1, h)
        /\ w.nodes = 2 * FirstLeaf(2 * q + 1, h) - PopCount[2 * q + 1]
    <3>1. w.remaining = (n - f) - Pow2[h] /\ w.nodes = (2 * f - PopCount[q]) + (2 * Pow2[h] - 1)
      BY ONLY <1>3, <1>4, <2>5
    <3>2. (n - f) - Pow2[h] = n - (f + Pow2[h])
      BY ONLY <1>1, <1>3, nLeaves \in Nat
    <3>3. (2 * f - PopCount[q]) + (2 * Pow2[h] - 1) = 2 * (f + Pow2[h]) - (PopCount[q] + 1)
      BY ONLY <1>1, <1>2, <1>3
    <3> QED BY ONLY <1>1, <1>2, <3>1, <3>2, <3>3
  <2>7. LoopAt(w, 2 * q + 1, h, n)
    BY <1>1, <1>2, <1>7, <2>3, <2>4, <2>5, <2>6 DEF LoopAt
  <2> QED BY <1>5, <2>7 DEF w
<1> QED BY <1>6, <1>7

\* The mountains: one for every one bit of the number of leaves, from the
\* highest.
LEMMA MountainFacts ==
  ASSUME nLeaves \in Nat
  PROVE  /\ IsSeq(Mountains)
         /\ Len(Mountains) = PopCount[nLeaves]
         /\ MountainsFrom(Mountains, 0, nLeaves)
<1> DEFINE T == BitLength[nLeaves]
           z == [remaining |-> nLeaves, nodes |-> 0, trees |-> << >>]
<1>1. T \in Nat /\ nLeaves < Pow2[T] /\ Pow2[T] \in Nat
  BY BitFacts, BelowItsPower, SizeFacts
<1>2. PICK s : /\ s[0] = z
               /\ \A k \in Nat : k < T => s[k + 1] = PushTree(s[k], T - (k + 1))
               /\ Mountains = s[T].trees
  BY MountainRounds
<1>3. LoopAt(z, 0, T, nLeaves)
  <2>1. FirstLeaf(0, T) = 0 /\ PopCount[0] = 0
    BY <1>1, 0 \in Nat, FirstLeafFacts, BitFacts
  <2>2. z.remaining = nLeaves /\ z.nodes = 0 /\ z.trees = << >>
    OBVIOUS
  <2>3. IsSeq(<< >>) /\ Len(<< >>) = 0
    <3>1. << >> \in Seq({})
      OBVIOUS
    <3> QED BY <3>1 DEF IsSeq
  <2>4. ASSUME NEW g \in Nat, NEW r \in Nat, g >= T, Shifted(2 * r + 1, g, nLeaves) PROVE FALSE
    <3>1. FirstLeaf(2 * r + 1, g) = FirstLeaf(2 * r, g) + Pow2[g] /\ FirstLeaf(2 * r, g) \in Nat
      BY ONLY 2 * r \in Nat, g \in Nat, FirstLeafFacts
    <3>2. Pow2[T] <= Pow2[g] /\ Pow2[g] \in Nat
      BY <1>1, <2>4, Pow2Grows, SizeFacts
    <3> QED BY <1>1, <2>4, <3>1, <3>2 DEF Shifted
  <2>5. MountainsFrom(<< >>, T, nLeaves)
    BY <2>3, <2>4 DEF MountainsFrom
  <2>6. Shifted(0, T, nLeaves)
    BY <1>1, <2>1 DEF Shifted
  <2> HIDE DEF z, T
  <2> QED BY <2>1, <2>2, <2>3, <2>5, <2>6 DEF LoopAt
<1> HIDE DEF z, T
<1> DEFINE S == {k \in Nat : k <= T => \E q \in Nat : LoopAt(s[k], q, T - k, nLeaves)}
<1>4. 0 \in S
  <2>1. T - 0 = T
    BY <1>1
  <2> QED BY <1>2, <1>3, <2>1
<1>5. ASSUME NEW k \in Nat, k \in S PROVE k + 1 \in S
  <2>1. SUFFICES ASSUME k + 1 <= T PROVE \E q \in Nat : LoopAt(s[k + 1], q, T - (k + 1), nLeaves)
    OBVIOUS
  <2>2. k < T /\ k <= T /\ T - (k + 1) \in Nat /\ (T - (k + 1)) + 1 = T - k
    BY <1>1, <2>1
  <2>3. PICK q \in Nat : LoopAt(s[k], q, T - k, nLeaves)
    BY <1>5, <2>2
  <2> DEFINE h == T - (k + 1)
  <2>6. h \in Nat /\ LoopAt(s[k], q, h + 1, nLeaves)
    BY <2>2, <2>3
  <2> HIDE DEF h
  <2>4. \E p \in Nat : LoopAt(PushTree(s[k], h), p, h, nLeaves)
    BY ONLY <2>3, <2>6, nLeaves \in Nat, LoopStep
  <2>5. s[k + 1] = PushTree(s[k], T - (k + 1))
    BY <1>2, <2>2
  <2> QED BY <2>4, <2>5 DEF h
<1> HIDE DEF S
<1>6. \A k \in Nat : k \in S
  BY <1>4, <1>5, StepSet
<1>7. T - T = 0 /\ T <= T
  BY <1>1
<1>8. PICK q \in Nat : LoopAt(s[T], q, 0, nLeaves)
  BY <1>1, <1>6, <1>7 DEF S
<1>9. q = nLeaves
  BY <1>8, 0 \in Nat, ShiftedFacts DEF LoopAt
<1> QED BY <1>2, <1>8, <1>9 DEF LoopAt

-----------------------------------------------------------------------------
(* The root                                                                  *)

\* The rounds of the loop of GetRoot, from the last peak to the first.
LEMMA BagRounds ==
  ASSUME NEW peaks, NEW L \in Nat, L >= 1, Len(peaks) = L
  PROVE  \E b : /\ Bag(peaks) = b[1]
                /\ b[L] = Node(peaks[L])
                /\ \A k \in Nat : 1 <= k /\ k < L => b[k] = HashParent(Node(peaks[k]), b[k + 1])
<1> DEFINE E(v, k) == IF k = L THEN Node(peaks[k]) ELSE HashParent(Node(peaks[k]), v[k + 1])
           Fits(v, t) == v = [k \in L - t .. L |-> E(v, k)]
<1>1. \A t \in Nat : \E v : Fits(v, t)
  <2> DEFINE S == {t \in Nat : \E v : Fits(v, t)}
  <2>1. 0 \in S
    <3> DEFINE v0 == [k \in L - 0 .. L |-> Node(peaks[k])]
    <3>1. Fits(v0, 0)
      OBVIOUS
    <3> HIDE DEF v0, Fits
    <3> QED BY <3>1
  <2>2. ASSUME NEW t \in Nat, t \in S PROVE t + 1 \in S
    <3>1. PICK v : Fits(v, t)
      BY <2>2
    <3> DEFINE u == [k \in L - (t + 1) .. L |-> IF k = L - (t + 1) THEN E(v, k) ELSE v[k]]
    <3>2. ASSUME NEW k \in L - (t + 1) .. L PROVE u[k] = E(u, k)
      <4>1. k # L => k + 1 \in L - t .. L /\ u[k + 1] = v[k + 1]
        OBVIOUS
      <4>2. E(u, k) = E(v, k)
        <5> HIDE DEF u
        <5> QED BY <4>1
      <4>3. u[k] = E(v, k)
        <5>1. CASE k = L - (t + 1)
          BY <5>1
        <5>2. CASE k # L - (t + 1)
          <6>1. k \in L - t .. L /\ u[k] = v[k]
            BY <5>2
          <6>2. v[k] = E(v, k)
            BY <3>1, <6>1
          <6> QED BY <6>1, <6>2
        <5> QED BY <5>1, <5>2
      <4> HIDE DEF u, E
      <4> QED BY <4>2, <4>3
    <3>3. u = [k \in L - (t + 1) .. L |-> E(u, k)]
      <4> HIDE DEF E
      <4> QED BY <3>2
    <3>4. Fits(u, t + 1)
      BY <3>3
    <3> HIDE DEF u, Fits
    <3> QED BY <3>4
  <2> HIDE DEF S
  <2>3. \A t \in Nat : t \in S
    BY <2>1, <2>2, StepSet
  <2> QED BY <2>3 DEF S
<1>2. L - 1 \in Nat /\ L - (L - 1) = 1
  OBVIOUS
<1> DEFINE b == CHOOSE v : v = [k \in 1 .. L |-> E(v, k)]
<1>3. \E v : v = [k \in 1 .. L |-> E(v, k)]
  <2>1. \E v : Fits(v, L - 1)
    BY <1>1, <1>2
  <2> QED BY <1>2, <2>1
<1>4. b = [k \in 1 .. L |-> E(b, k)]
  <2> HIDE DEF E
  <2> QED BY <1>3
<1>5. Bag(peaks) = b[1]
  BY Len(peaks) = L DEF Bag
<1> HIDE DEF b
<1>6. b[L] = Node(peaks[L])
  BY <1>4
<1>7. ASSUME NEW k \in Nat, 1 <= k, k < L PROVE b[k] = HashParent(Node(peaks[k]), b[k + 1])
  BY <1>4, <1>7
<1> QED BY <1>5, <1>6, <1>7

\* The reference unfolded.
LEMMA RefRounds ==
  ASSUME NEW leaves, NEW L \in Nat, Len(leaves) = L
  PROVE  \E root :
           /\ RefRoot(leaves) = root[L][0]
           /\ root[0][L] = Zero
           /\ \A a \in Nat : a < L => root[1][a] = HashLeaf(leaves[a + 1])
           /\ \A n \in Nat : \A h \in Nat : \A a \in Nat :
                Pow2[h] < n /\ n <= 2 * Pow2[h] /\ a + n <= L =>
                  root[n][a] = HashParent(root[Pow2[h]][a], root[n - Pow2[h]][a + Pow2[h]])
<1> DEFINE E(v, n, a) == IF n = 0 THEN Zero
                         ELSE IF n = 1 THEN HashLeaf(leaves[a + 1])
                         ELSE HashParent(v[LargestPowerBelow(n)][a],
                                         v[n - LargestPowerBelow(n)][a + LargestPowerBelow(n)])
           Row(v, n) == [a \in 0 .. L - n |-> E(v, n, a)]
           Fits(v, t) == v = [n \in 0 .. t |-> Row(v, n)]
<1>1. ASSUME NEW n \in Nat, n > 1
      PROVE  LargestPowerBelow(n) \in 0 .. n - 1 /\ n - LargestPowerBelow(n) \in 0 .. n - 1
  <2>1. PICK h \in Nat : Pow2[h] < n /\ n <= 2 * Pow2[h]
    BY <1>1, LargestPowerExists
  <2>2. LargestPowerBelow(n) = Pow2[h]
    BY <2>1, LargestPower
  <2>3. Pow2[h] \in Nat /\ Pow2[h] >= 1
    BY SizeFacts
  <2> QED BY <2>1, <2>2, <2>3
<1>2. \A t \in Nat : \E v : Fits(v, t)
  <2> DEFINE S == {t \in Nat : \E v : Fits(v, t)}
  <2>1. 0 \in S
    <3> DEFINE v0 == [n \in 0 .. 0 |-> [a \in 0 .. L - n |-> Zero]]
    <3>1. \A n \in 0 .. 0 : v0[n] = Row(v0, n)
      OBVIOUS
    <3> HIDE DEF Row
    <3>2. Fits(v0, 0)
      BY <3>1
    <3> HIDE DEF v0, Fits
    <3> QED BY <3>2
  <2>2. ASSUME NEW t \in Nat, t \in S PROVE t + 1 \in S
    <3>1. PICK v : Fits(v, t)
      BY <2>2
    <3> DEFINE u == [n \in 0 .. t + 1 |-> IF n = t + 1 THEN Row(v, n) ELSE v[n]]
    <3>2. \A n \in 0 .. t : u[n] = v[n]
      <4> HIDE DEF Row
      <4> QED OBVIOUS
    <3>3. ASSUME NEW n \in 0 .. t + 1 PROVE Row(u, n) = Row(v, n)
      <4>1. n > 1 => LargestPowerBelow(n) \in 0 .. t /\ n - LargestPowerBelow(n) \in 0 .. t
        BY <1>1
      <4>2. n > 1 => /\ u[LargestPowerBelow(n)] = v[LargestPowerBelow(n)]
                     /\ u[n - LargestPowerBelow(n)] = v[n - LargestPowerBelow(n)]
        <5> HIDE DEF u
        <5> QED BY <3>2, <4>1
      <4>3. \A a : E(u, n, a) = E(v, n, a)
        <5>1. n = 0 \/ n = 1 \/ n > 1
          OBVIOUS
        <5> HIDE DEF u
        <5> QED BY <4>2, <5>1
      <4> HIDE DEF u, E
      <4> QED BY <4>3
    <3>4. ASSUME NEW n \in 0 .. t + 1 PROVE u[n] = Row(u, n)
      <4>1. CASE n = t + 1
        <5>1. u[n] = Row(v, n)
          BY <4>1
        <5> HIDE DEF u, Row
        <5> QED BY <3>3, <5>1
      <4>2. CASE n # t + 1
        <5>1. n \in 0 .. t
          BY <4>2
        <5>2. u[n] = v[n] /\ v[n] = Row(v, n)
          <6> HIDE DEF u, Row
          <6> QED BY <3>1, <3>2, <5>1
        <5> HIDE DEF u, Row
        <5> QED BY <3>3, <5>2
      <4> QED BY <4>1, <4>2
    <3>5. Fits(u, t + 1)
      <4> HIDE DEF Row
      <4> QED BY <3>4
    <3> HIDE DEF u, Fits
    <3> QED BY <3>5
  <2> HIDE DEF S
  <2>3. \A t \in Nat : t \in S
    BY <2>1, <2>2, StepSet
  <2> QED BY <2>3 DEF S
<1> DEFINE root == CHOOSE v : Fits(v, L)
<1>3. Fits(root, L)
  <2> HIDE DEF Fits
  <2> QED BY <1>2
<1>4. RefRoot(leaves) = root[L][0]
  BY Len(leaves) = L DEF RefRoot
<1> HIDE DEF root
<1>5. ASSUME NEW n \in 0 .. L, NEW a \in 0 .. L - n PROVE root[n][a] = E(root, n, a)
  <2>1. root[n] = Row(root, n)
    <3> HIDE DEF Row
    <3> QED BY <1>3
  <2>2. Row(root, n)[a] = E(root, n, a)
    <3> HIDE DEF E
    <3> QED OBVIOUS
  <2> QED BY ONLY <2>1, <2>2
<1>6. root[0][L] = Zero
  <2>1. 0 \in 0 .. L /\ L \in 0 .. L - 0
    OBVIOUS
  <2>2. root[0][L] = E(root, 0, L)
    <3> HIDE DEF E
    <3> QED BY <1>5, <2>1
  <2> QED BY <2>2
<1>7. ASSUME NEW a \in Nat, a < L PROVE root[1][a] = HashLeaf(leaves[a + 1])
  <2>1. 1 \in 0 .. L /\ a \in 0 .. L - 1
    BY <1>7
  <2>2. root[1][a] = E(root, 1, a)
    <3> HIDE DEF E
    <3> QED BY <1>5, <2>1
  <2> QED BY <2>2
<1>8. ASSUME NEW n \in Nat, NEW h \in Nat, NEW a \in Nat,
             Pow2[h] < n, n <= 2 * Pow2[h], a + n <= L
      PROVE  root[n][a] = HashParent(root[Pow2[h]][a], root[n - Pow2[h]][a + Pow2[h]])
  <2>1. n \in 0 .. L /\ a \in 0 .. L - n
    BY <1>8
  <2>2. root[n][a] = E(root, n, a)
    <3> HIDE DEF E
    <3> QED BY <1>5, <2>1
  <2>3. LargestPowerBelow(n) = Pow2[h] /\ n # 0 /\ n # 1
    <3>1. LargestPowerBelow(n) = Pow2[h]
      BY ONLY <1>8, n \in Nat, h \in Nat, LargestPower
    <3>2. Pow2[h] \in Nat /\ Pow2[h] >= 1
      BY SizeFacts
    <3> QED BY <1>8, <3>1, <3>2
  <2> QED BY ONLY <2>2, <2>3
<1> QED BY ONLY <1>4, <1>6, <1>7, <1>8

\* GetPeaks: one peak for every one bit of the number of leaves, in order.
LEMMA PeakFacts ==
  ASSUME nLeaves \in Nat
  PROVE  /\ GetPeaks = [j \in 1 .. PopCount[nLeaves] |-> GetPeaks[j]]
         /\ Len(GetPeaks) = PopCount[nLeaves] /\ PopCount[nLeaves] \in Nat
         /\ \A h \in Nat : \A q \in Nat : Shifted(2 * q + 1, h, nLeaves) =>
              /\ PopCount[q] + 1 \in 1 .. Len(GetPeaks)
              /\ GetPeaks[PopCount[q] + 1] = TreePos(2 * q, h)
         /\ \A j \in 1 .. Len(GetPeaks) : \E h \in Nat : \E q \in Nat :
              /\ Shifted(2 * q + 1, h, nLeaves) /\ j = PopCount[q] + 1
              /\ GetPeaks[j] = TreePos(2 * q, h)
<1>1. /\ IsSeq(Mountains) /\ Len(Mountains) = PopCount[nLeaves]
      /\ MountainsFrom(Mountains, 0, nLeaves)
  BY MountainFacts
<1>2. PopCount[nLeaves] \in Nat
  BY BitFacts
<1>3. DOMAIN Mountains = 1 .. PopCount[nLeaves]
  <2>1. PICK S : Mountains \in Seq(S)
    BY <1>1 DEF IsSeq
  <2> QED BY <1>1, <2>1
<1>4. /\ GetPeaks = [j \in 1 .. PopCount[nLeaves] |-> GetPeaks[j]]
      /\ \A j \in 1 .. PopCount[nLeaves] : GetPeaks[j] = Mountains[j].peak
  BY <1>3 DEF GetPeaks
<1>5. Len(GetPeaks) = PopCount[nLeaves]
  <2> DEFINE p == GetPeaks
             L == PopCount[nLeaves]
  <2>1. p = [j \in 1 .. L |-> p[j]] /\ L \in Nat
    BY <1>2, <1>4
  <2> HIDE DEF p, L
  <2>2. Len([j \in 1 .. L |-> p[j]]) = L
    BY <2>1
  <2>3. Len(p) = L
    BY ONLY <2>1, <2>2
  <2> QED BY <2>3 DEF p, L
<1>6. ASSUME NEW h \in Nat, NEW q \in Nat, Shifted(2 * q + 1, h, nLeaves)
      PROVE  /\ PopCount[q] + 1 \in 1 .. Len(GetPeaks)
             /\ GetPeaks[PopCount[q] + 1] = TreePos(2 * q, h)
  <2>1. /\ PopCount[q] + 1 \in 1 .. PopCount[nLeaves]
        /\ Mountains[PopCount[q] + 1] = MountainAt(q, h)
    <3>1. h >= 0
      OBVIOUS
    <3> QED BY ONLY <1>1, <1>6, <3>1, h \in Nat, q \in Nat DEF MountainsFrom
  <2>2. MountainAt(q, h).peak = TreePos(2 * q, h)
    BY DEF MountainAt
  <2> QED BY ONLY <1>4, <1>5, <2>1, <2>2
<1>7. ASSUME NEW j \in 1 .. Len(GetPeaks)
      PROVE  \E h \in Nat : \E q \in Nat :
              /\ Shifted(2 * q + 1, h, nLeaves) /\ j = PopCount[q] + 1
              /\ GetPeaks[j] = TreePos(2 * q, h)
  <2>1. j \in 1 .. Len(Mountains)
    BY <1>1, <1>5
  <2>2. \E h \in Nat : \E q \in Nat : h >= 0 /\ Shifted(2 * q + 1, h, nLeaves) /\ j = PopCount[q] + 1
    BY <1>1, <2>1 DEF MountainsFrom
  <2> QED BY ONLY <1>6, <2>2
<1> QED BY ONLY <1>2, <1>4, <1>5, <1>6, <1>7

\* A peak is among the nodes.
LEMMA PeaksPresent ==
  ASSUME RangeInv, NEW j \in 1 .. Len(GetPeaks)
  PROVE  GetPeaks[j] \in Nat /\ GetPeaks[j] < Len(vNodes)
<1>1. nLeaves \in Nat /\ Len(vNodes) = NodeCountForLeaves(nLeaves)
  BY DEF RangeInv, WellFormed
<1>2. \E h \in Nat : \E q \in Nat :
        Shifted(2 * q + 1, h, nLeaves) /\ j = PopCount[q] + 1 /\ GetPeaks[j] = TreePos(2 * q, h)
  BY <1>1, PeakFacts
<1>3. PICK h \in Nat : \E q \in Nat :
        Shifted(2 * q + 1, h, nLeaves) /\ j = PopCount[q] + 1 /\ GetPeaks[j] = TreePos(2 * q, h)
  BY <1>2
<1>4. PICK q \in Nat :
        Shifted(2 * q + 1, h, nLeaves) /\ j = PopCount[q] + 1 /\ GetPeaks[j] = TreePos(2 * q, h)
  BY <1>3
<1>5. 2 * q \in Nat /\ FirstLeaf(2 * q + 1, h) <= nLeaves
  BY <1>4 DEF Shifted
<1>6. TreePos(2 * q, h) < NodeCountForLeaves(nLeaves)
  BY ONLY <1>1, <1>5, h \in Nat, TreePosBound
<1>7. TreePos(2 * q, h) \in Nat
  BY ONLY <1>5, h \in Nat, TreePosFacts
<1> QED BY ONLY <1>1, <1>4, <1>6, <1>7

\* root is the reference over the leaves, b the bags of GetRoot.
RefOf(root) ==
  /\ \A a \in Nat : a < nLeaves => root[1][a] = HashLeaf(Leaves[a + 1])
  /\ \A n \in Nat : \A h \in Nat : \A a \in Nat :
       Pow2[h] < n /\ n <= 2 * Pow2[h] /\ a + n <= nLeaves =>
         root[n][a] = HashParent(root[Pow2[h]][a], root[n - Pow2[h]][a + Pow2[h]])

BagOf(b) ==
  /\ b[Len(GetPeaks)] = Node(GetPeaks[Len(GetPeaks)])
  /\ \A k \in Nat : 1 <= k /\ k < Len(GetPeaks) => b[k] = HashParent(Node(GetPeaks[k]), b[k + 1])

\* The reference over the leaves of a tree is the hash at its peak.
LEMMA TreeRoot ==
  ASSUME RangeInv, NEW root, RefOf(root)
  PROVE  \A h \in Nat : \A q \in Nat : FirstLeaf(q + 1, h) <= nLeaves =>
           root[Pow2[h]][FirstLeaf(q, h)] = Node(TreePos(q, h))
<1>1. nLeaves \in Nat /\ LeavesIn(vNodes, nLeaves) /\ TreesIn(vNodes, nLeaves)
  BY DEF RangeInv, WellFormed
<1> DEFINE R(q, h) == root[Pow2[h]][FirstLeaf(q, h)] = Node(TreePos(q, h))
           S == {h \in Nat : \A q \in Nat : FirstLeaf(q + 1, h) <= nLeaves => R(q, h)}
<1>2. 0 \in S
  <2>1. ASSUME NEW q \in Nat, FirstLeaf(q + 1, 0) <= nLeaves PROVE R(q, 0)
    <3>1. FirstLeaf(q + 1, 0) = q + 1 /\ FirstLeaf(q, 0) = q
      BY ONLY q \in Nat, q + 1 \in Nat, 0 \in Nat, FirstLeafFacts
    <3>2. Pow2[0] = 1 /\ TreePos(q, 0) = NodeCountForLeaves(q)
      BY 0 \in Nat, Pow2Facts, TreePosFacts
    <3>3. q < nLeaves /\ q + 1 \in 1 .. nLeaves /\ (q + 1) - 1 = q
      BY <1>1, <2>1, <3>1
    <3>4. root[1][q] = HashLeaf(Leaves[q + 1])
      BY <3>3 DEF RefOf
    <3>5. vNodes[NodeCountForLeaves((q + 1) - 1) + 1] = HashLeaf(LeavesOf(vNodes, nLeaves)[q + 1])
      BY ONLY <1>1, <3>3, LeavesOfFacts
    <3>6. Leaves = LeavesOf(vNodes, nLeaves)
      BY <1>1, LeavesAre
    <3> QED BY ONLY <3>1, <3>2, <3>3, <3>4, <3>5, <3>6 DEF Node
  <2> HIDE DEF R
  <2> QED BY <2>1
<1>3. ASSUME NEW h \in Nat, h \in S PROVE h + 1 \in S
  <2>1. ASSUME NEW q \in Nat, FirstLeaf(q + 1, h + 1) <= nLeaves PROVE R(q, h + 1)
    <3>1. 2 * q \in Nat /\ 2 * q + 1 \in Nat /\ q + 1 \in Nat /\ (2 * q + 1) + 1 = 2 * (q + 1)
      OBVIOUS
    <3>2. FirstLeaf(2 * q, h) = FirstLeaf(q, h + 1) /\ FirstLeaf(q, h + 1) \in Nat
      BY ONLY <3>1, h \in Nat, q \in Nat, h + 1 \in Nat, FirstLeafFacts
    <3>3. FirstLeaf(2 * q + 1, h) = FirstLeaf(2 * q, h) + Pow2[h]
      BY ONLY <3>1, h \in Nat, FirstLeafFacts
    <3>4. FirstLeaf((2 * q + 1) + 1, h) = FirstLeaf(2 * q + 1, h) + Pow2[h]
      BY ONLY <3>1, h \in Nat, FirstLeafFacts
    <3>5. FirstLeaf(2 * (q + 1), h) = FirstLeaf(q + 1, h + 1)
      BY ONLY <3>1, h \in Nat, FirstLeafFacts
    <3>6. Pow2[h] \in Nat /\ Pow2[h] >= 1 /\ Pow2[h + 1] = 2 * Pow2[h]
      BY SizeFacts
    <3> DEFINE f == FirstLeaf(q, h + 1)
               p == Pow2[h]
    <3>7. FirstLeaf(2 * q + 1, h) <= nLeaves /\ FirstLeaf((2 * q + 1) + 1, h) <= nLeaves /\ f + 2 * p <= nLeaves
      BY ONLY <1>1, <2>1, <3>1, <3>2, <3>3, <3>4, <3>5, <3>6
    <3>8. root[p][FirstLeaf(2 * q, h)] = Node(TreePos(2 * q, h))
      <4> HIDE DEF p
      <4> QED BY <1>3, <3>1, <3>7 DEF p
    <3>9. root[p][FirstLeaf(2 * q + 1, h)] = Node(TreePos(2 * q + 1, h))
      <4> HIDE DEF p
      <4> QED BY <1>3, <3>1, <3>7 DEF p
    <3>10. root[2 * p][f] = HashParent(root[p][f], root[2 * p - p][f + p])
      <4>1. p < 2 * p /\ 2 * p <= 2 * p /\ 2 * p \in Nat /\ f \in Nat /\ f + 2 * p <= nLeaves
        BY ONLY <3>2, <3>6, <3>7
      <4> QED BY ONLY <4>1, h \in Nat, RefOf(root) DEF RefOf
    <3>11. 2 * p - p = p
      BY ONLY <3>6
    <3>12. vNodes[TreePos(q, h + 1) + 1]
             = HashParent(vNodes[TreePos(2 * q, h) + 1], vNodes[TreePos(2 * q + 1, h) + 1])
      BY ONLY <1>1, <2>1, h \in Nat, q \in Nat DEF TreesIn
    <3> QED BY ONLY <3>2, <3>3, <3>6, <3>8, <3>9, <3>10, <3>11, <3>12 DEF Node
  <2> HIDE DEF R
  <2> QED BY <2>1
<1> HIDE DEF S
<1>4. \A h \in Nat : h \in S
  BY <1>2, <1>3, StepSet
<1> QED BY <1>4 DEF S

\* The bag of the mountains below height h is the reference over their leaves.
LEMMA BagIs ==
  ASSUME RangeInv, NEW root, RefOf(root), NEW b, BagOf(b)
  PROVE  \A h \in Nat : \A q \in Nat : Shifted(q, h, nLeaves) /\ FirstLeaf(q, h) < nLeaves =>
           /\ PopCount[q] < Len(GetPeaks)
           /\ b[PopCount[q] + 1] = root[nLeaves - FirstLeaf(q, h)][FirstLeaf(q, h)]
<1> DEFINE n == nLeaves
           L == Len(GetPeaks)
           R(q, h) == /\ PopCount[q] < L
                      /\ b[PopCount[q] + 1] = root[n - FirstLeaf(q, h)][FirstLeaf(q, h)]
           S == {h \in Nat : \A q \in Nat : Shifted(q, h, n) /\ FirstLeaf(q, h) < n => R(q, h)}
<1>1. n \in Nat /\ L = PopCount[n] /\ L \in Nat
  BY PeakFacts DEF RangeInv
<1>2. 0 \in S
  <2>1. ASSUME NEW q \in Nat, Shifted(q, 0, n), FirstLeaf(q, 0) < n PROVE FALSE
    <3>1. q = n
      BY ONLY <1>1, <2>1, 0 \in Nat, q \in Nat, ShiftedFacts
    <3>2. FirstLeaf(q, 0) = q
      BY ONLY 0 \in Nat, q \in Nat, FirstLeafFacts
    <3> QED BY <1>1, <2>1, <3>1, <3>2
  <2> QED BY <2>1
<1>3. ASSUME NEW h \in Nat, h \in S PROVE h + 1 \in S
  <2>1. ASSUME NEW q \in Nat, Shifted(q, h + 1, n), FirstLeaf(q, h + 1) < n PROVE R(q, h + 1)
    <3> DEFINE f == FirstLeaf(q, h + 1)
               p == Pow2[h]
    <3>1. 2 * q \in Nat /\ 2 * q + 1 \in Nat
      OBVIOUS
    <3>2. /\ f \in Nat /\ FirstLeaf(2 * q, h) = f /\ FirstLeaf(2 * q + 1, h) = f + p
          /\ IF n - f < p THEN Shifted(2 * q, h, n) ELSE Shifted(2 * q + 1, h, n)
      BY ONLY <1>1, <2>1, h \in Nat, q \in Nat, ShiftedFacts
    <3>3. PopCount[2 * q] = PopCount[q] /\ PopCount[2 * q + 1] = PopCount[q] + 1 /\ PopCount[q] \in Nat
      BY BitFacts
    <3>4. p \in Nat /\ p >= 1 /\ Pow2[h + 1] = 2 * p
      BY SizeFacts
    <3>5. f < n /\ n < f + 2 * p
      BY <2>1, <3>4 DEF Shifted
    <3> HIDE DEF f, p
    <3>6. CASE n - f < p
      <4>1. R(2 * q, h)
        <5> HIDE DEF R
        <5>1. FirstLeaf(2 * q, h) < n
          BY ONLY <3>2, <3>5
        <5> QED BY <1>3, <3>1, <3>2, <3>6, <5>1
      <4> QED BY ONLY <3>2, <3>3, <4>1 DEF f
    <3>7. CASE ~ (n - f < p)
      <4>1. Shifted(2 * q + 1, h, n)
        BY <3>2, <3>7
      <4>2. PopCount[q] + 1 \in 1 .. L /\ GetPeaks[PopCount[q] + 1] = TreePos(2 * q, h)
        BY <1>1, <4>1, PeakFacts
      <4>3. root[p][f] = Node(TreePos(2 * q, h))
        <5>1. FirstLeaf(2 * q + 1, h) <= n
          BY <4>1 DEF Shifted
        <5>2. root[Pow2[h]][FirstLeaf(2 * q, h)] = Node(TreePos(2 * q, h))
          BY <3>1, <5>1, TreeRoot
        <5> QED BY ONLY <3>2, <5>2 DEF p
      <4>4. CASE f + p = n
        <5>1. PopCount[f + p] = PopCount[2 * q + 1]
          BY ONLY <3>1, <3>2, h \in Nat, PopCountShift
        <5>2. PopCount[q] + 1 = L /\ PopCount[q] < L
          BY <1>1, <3>3, <4>4, <5>1
        <5>3. n - f = p
          BY ONLY <1>1, <3>2, <3>4, <4>4
        <5>4. b[PopCount[q] + 1] = Node(GetPeaks[PopCount[q] + 1])
          BY <5>2 DEF BagOf
        <5> QED BY ONLY <4>2, <4>3, <5>2, <5>3, <5>4 DEF f
      <4>5. CASE f + p # n
        <5>1. f + p < n
          BY ONLY <1>1, <3>2, <3>4, <3>7, <4>5
        <5>2. R(2 * q + 1, h)
          <6> HIDE DEF R
          <6>1. FirstLeaf(2 * q + 1, h) < n
            BY ONLY <3>2, <5>1
          <6> QED BY <1>3, <3>1, <4>1, <6>1
        <5>3. PopCount[q] + 1 < L /\ b[PopCount[q] + 1 + 1] = root[n - (f + p)][f + p]
          BY ONLY <3>2, <3>3, <5>2
        <5>4. b[PopCount[q] + 1] = HashParent(Node(GetPeaks[PopCount[q] + 1]), b[PopCount[q] + 1 + 1])
          <6>1. PopCount[q] + 1 \in Nat /\ 1 <= PopCount[q] + 1
            BY ONLY <3>3
          <6> QED BY <5>3, <6>1 DEF BagOf
        <5>5. root[n - f][f] = HashParent(root[p][f], root[(n - f) - p][f + p])
          <6>1. p < n - f /\ n - f <= 2 * p /\ n - f \in Nat /\ f \in Nat /\ f + (n - f) <= n
            BY ONLY <1>1, <3>2, <3>4, <3>5, <5>1
          <6> QED BY ONLY <6>1, h \in Nat, RefOf(root) DEF RefOf, p
        <5>6. (n - f) - p = n - (f + p)
          BY ONLY <1>1, <3>2, <3>4
        <5>7. PopCount[q] < L
          BY ONLY <1>1, <3>3, <5>3
        <5> QED BY ONLY <4>2, <4>3, <5>3, <5>4, <5>5, <5>6, <5>7 DEF f
      <4> QED BY <4>4, <4>5
    <3> QED BY <3>6, <3>7
  <2> HIDE DEF R
  <2> QED BY <2>1
<1> HIDE DEF S
<1>4. \A h \in Nat : h \in S
  BY <1>2, <1>3, StepSet
<1> QED BY <1>4 DEF S

\* The domain of the peaks.
LEMMA PeakIndices ==
  ASSUME nLeaves \in Nat
  PROVE  DOMAIN GetPeaks = 1 .. Len(GetPeaks) /\ Len(GetPeaks) \in Nat
<1> DEFINE p == GetPeaks
<1>1. /\ p = [j \in 1 .. PopCount[nLeaves] |-> p[j]]
      /\ Len(p) = PopCount[nLeaves] /\ PopCount[nLeaves] \in Nat
  BY PeakFacts
<1> HIDE DEF p
<1>2. DOMAIN p = 1 .. Len(p) /\ Len(p) \in Nat
  BY ONLY <1>1
<1> QED BY <1>2 DEF p

\* The root is the bag of all peaks.
LEMMA RootBag ==
  ASSUME RangeInv, nLeaves # 0
  PROVE  \E b : GetRoot = b[1] /\ BagOf(b)
<1>1. nLeaves \in Nat /\ Len(vNodes) = NodeCountForLeaves(nLeaves)
  BY DEF RangeInv, WellFormed
<1>2. DOMAIN GetPeaks = 1 .. Len(GetPeaks) /\ Len(GetPeaks) \in Nat
  BY <1>1, PeakIndices
<1>3. Len(GetPeaks) >= 1
  <2>1. PICK h \in Nat : Pow2[h] <= nLeaves /\ nLeaves < 2 * Pow2[h]
    BY <1>1, PowersAround
  <2>2. FirstLeaf(0, h) = 0 /\ FirstLeaf(0 + 1, h) = FirstLeaf(0, h) + Pow2[h] /\ Pow2[h] \in Nat
    BY ONLY 0 \in Nat, h \in Nat, FirstLeafFacts, SizeFacts
  <2>3. Shifted(2 * 0 + 1, h, nLeaves)
    BY <1>1, <2>1, <2>2 DEF Shifted
  <2>4. PopCount[0] + 1 \in 1 .. Len(GetPeaks)
    BY ONLY <1>1, <2>3, 0 \in Nat, h \in Nat, PeakFacts
  <2>5. PopCount[0] = 0
    BY 0 \in Nat, BitFacts
  <2> QED BY <1>2, <2>4, <2>5
<1>4. PICK b : Bag(GetPeaks) = b[1] /\ BagOf(b)
  <2> DEFINE p == GetPeaks
             L == Len(p)
  <2>1. L \in Nat /\ L >= 1 /\ Len(p) = L
    BY <1>2, <1>3
  <2> HIDE DEF p, L
  <2>2. \E b : /\ Bag(p) = b[1]
               /\ b[L] = Node(p[L])
               /\ \A k \in Nat : 1 <= k /\ k < L => b[k] = HashParent(Node(p[k]), b[k + 1])
    BY ONLY <2>1, BagRounds
  <2> QED BY <2>2 DEF p, L, BagOf
<1>5. GetPeaks # << >>
  <2>1. Len(<< >>) = 0
    OBVIOUS
  <2> QED BY <1>3, <2>1
<1>6. ASSUME NEW i \in 1 .. Len(GetPeaks) PROVE ~ (GetPeaks[i] >= Len(vNodes))
  <2>1. GetPeaks[i] \in Nat /\ GetPeaks[i] < Len(vNodes)
    BY PeaksPresent
  <2>2. Len(vNodes) \in Nat
    BY <1>1, NodeCountNext
  <2> QED BY <2>1, <2>2
<1>7. GetRoot = Bag(GetPeaks)
  BY <1>2, <1>5, <1>6 DEF GetRoot
<1> QED BY <1>4, <1>7

\* In a well formed range the root is that of the reference.
LEMMA RootIsExact ==
  ASSUME RangeInv
  PROVE  RootExact
<1>1. nLeaves \in Nat /\ LeavesIn(vNodes, nLeaves)
  BY DEF RangeInv, WellFormed
<1>2. Leaves = LeavesOf(vNodes, nLeaves)
  BY <1>1, LeavesAre
<1>3. Len(Leaves) = nLeaves
  BY <1>1, <1>2, LeavesOfFacts
<1>4. PICK root :
           /\ RefRoot(Leaves) = root[nLeaves][0]
           /\ root[0][nLeaves] = Zero
           /\ RefOf(root)
  <2>1. \E root :
           /\ RefRoot(Leaves) = root[nLeaves][0]
           /\ root[0][nLeaves] = Zero
           /\ \A a \in Nat : a < nLeaves => root[1][a] = HashLeaf(Leaves[a + 1])
           /\ \A n \in Nat : \A h \in Nat : \A a \in Nat :
                Pow2[h] < n /\ n <= 2 * Pow2[h] /\ a + n <= nLeaves =>
                  root[n][a] = HashParent(root[Pow2[h]][a], root[n - Pow2[h]][a + Pow2[h]])
    BY ONLY <1>1, <1>3, RefRounds
  <2> QED BY <2>1 DEF RefOf
<1>5. CASE nLeaves = 0
  <2>1. PopCount[0] = 0
    BY 0 \in Nat, BitFacts
  <2>2. GetPeaks = << >>
    <3> DEFINE p == GetPeaks
    <3>1. p = [j \in 1 .. 0 |-> p[j]]
      BY <1>1, <1>5, <2>1, PeakFacts
    <3> HIDE DEF p
    <3>2. [j \in 1 .. 0 |-> p[j]] = << >>
      OBVIOUS
    <3>3. p = << >>
      BY ONLY <3>1, <3>2
    <3> QED BY <3>3 DEF p
  <2>3. GetRoot = Zero
    BY <2>2 DEF GetRoot
  <2> QED BY <1>4, <1>5, <2>3 DEF RootExact
<1>6. CASE nLeaves # 0
  <2> DEFINE T == BitLength[nLeaves]
  <2>1. T \in Nat /\ nLeaves < Pow2[T] /\ FirstLeaf(0, T) = 0 /\ PopCount[0] = 0
    BY <1>1, 0 \in Nat, BitFacts, BelowItsPower, FirstLeafFacts
  <2> HIDE DEF T
  <2>2. Shifted(0, T, nLeaves) /\ FirstLeaf(0, T) < nLeaves
    BY <1>1, <1>6, <2>1, SizeFacts DEF Shifted
  <2>3. PICK b : GetRoot = b[1] /\ BagOf(b)
    BY <1>6, RootBag
  <2>4. b[PopCount[0] + 1] = root[nLeaves - FirstLeaf(0, T)][FirstLeaf(0, T)]
    <3>1. \A h \in Nat : \A q \in Nat : Shifted(q, h, nLeaves) /\ FirstLeaf(q, h) < nLeaves =>
            /\ PopCount[q] < Len(GetPeaks)
            /\ b[PopCount[q] + 1] = root[nLeaves - FirstLeaf(q, h)][FirstLeaf(q, h)]
      BY ONLY RangeInv, <1>4, <2>3, BagIs
    <3> QED BY <2>1, <2>2, <3>1
  <2>5. PopCount[0] + 1 = 1 /\ nLeaves - FirstLeaf(0, T) = nLeaves
    BY <1>1, <2>1
  <2>6. GetRoot = root[nLeaves][0]
    BY ONLY <2>1, <2>3, <2>4, <2>5
  <2> QED BY <1>4, <2>6 DEF RootExact
<1> QED BY <1>5, <1>6

\* After any appends and rewinds, whatever their number, the root that GetRoot
\* reads off the array is the one that the leaves define.
THEOREM RootExactHolds == RangeSpec => []RootExact
<1>1. RangeInv => RootExact
  BY RootIsExact
<1> QED BY <1>1, RangeInvariant, PTL

-----------------------------------------------------------------------------
(* Heights and siblings                                                      *)

\* The largest number of ones not above n, from the length of n.
LEMMA AllOnesFacts ==
  ASSUME NEW n \in Nat, NEW h \in Nat, Pow2[h] <= n, n < 2 * Pow2[h]
  PROVE  /\ BitLength[n] = h + 1
         /\ AllOnesBelow(n) = IF 2 * Pow2[h] - 1 <= n THEN 2 * Pow2[h] - 1 ELSE Pow2[h] - 1
         /\ AllOnesBelow(n) \in 1 .. n
<1>1. Pow2[h] \in Nat /\ Pow2[h] >= 1 /\ Pow2[h + 1] = 2 * Pow2[h]
  BY SizeFacts
<1>2. BitLength[n] = h + 1 /\ (h + 1) - 1 = h
  BY BitLengthIs
<1>3. n # 0
  BY <1>1
<1>4. AllOnesBelow(n) = IF 2 * Pow2[h] - 1 <= n THEN 2 * Pow2[h] - 1 ELSE Pow2[h] - 1
  BY ONLY <1>1, <1>2, <1>3 DEF AllOnesBelow
<1>5. Pow2[h] = 1 \/ Pow2[h] >= 2
  BY <1>1
<1> QED BY <1>1, <1>2, <1>4, <1>5

\* The equation of the loop of GetHeight.
LEMMA HeightFromDef ==
  \A n \in Nat : /\ HeightFrom[n] = IF n = 0 THEN 0
                      ELSE IF n = AllOnesBelow(n) THEN BitLength[n] - 1
                      ELSE HeightFrom[n - AllOnesBelow(n)]
                 /\ n # 0 => AllOnesBelow(n) \in 1 .. n
<1> DEFINE E(f, n) == IF n = 0 THEN 0 ELSE IF n = AllOnesBelow(n) THEN BitLength[n] - 1
                                         ELSE f[n - AllOnesBelow(n)]
           Q(f) == f = [n \in Nat |-> E(f, n)]
<1>1. ASSUME NEW n \in Nat, n # 0
      PROVE  AllOnesBelow(n) \in 1 .. n /\ BitLength[n] - 1 \in Nat
  <2>1. PICK h \in Nat : Pow2[h] <= n /\ n < 2 * Pow2[h]
    BY <1>1, PowersAround
  <2>2. AllOnesBelow(n) \in 1 .. n /\ BitLength[n] = h + 1
    BY <2>1, AllOnesFacts
  <2> QED BY <2>2
<1>2. \E f : Q(f)
  <2> DEFINE d == [n \in Nat |-> IF n = 0 THEN 0 ELSE n - AllOnesBelow(n)]
             G == [n \in Nat |-> [x \in Nat |-> IF n # 0 /\ n = AllOnesBelow(n) THEN BitLength[n] - 1 ELSE x]]
  <2>1. /\ \A n \in Nat : d[n] \in Nat
        /\ \A n \in Nat : n # 0 => d[n] < n
        /\ \A n \in Nat : n # 0 => d[n] = n - AllOnesBelow(n)
    BY <1>1
  <2>2. /\ \A n, x \in Nat : G[n][x] \in Nat
        /\ \A n, x \in Nat : n # 0 => G[n][x] = IF n = AllOnesBelow(n) THEN BitLength[n] - 1 ELSE x
    BY <1>1
  <2> HIDE DEF d, G
  <2>3. PICK f : RecFrom(f, 0, d, G)
    BY ONLY 0 \in Nat, <2>1, <2>2, NatRec
  <2>4. ASSUME NEW n \in Nat PROVE f[n] = E(f, n)
    <3>1. f[n] = IF n = 0 THEN 0 ELSE G[n][f[d[n]]]
      BY <2>3 DEF RecFrom
    <3>2. CASE n = 0
      BY <3>1, <3>2
    <3>3. CASE n # 0
      <4>1. d[n] = n - AllOnesBelow(n) /\ d[n] \in Nat
        BY <2>1, <3>3
      <4>2. f[d[n]] \in Nat
        BY <2>3, <4>1 DEF RecFrom
      <4>3. G[n][f[d[n]]] = IF n = AllOnesBelow(n) THEN BitLength[n] - 1 ELSE f[d[n]]
        BY <2>2, <3>3, <4>2
      <4> QED BY ONLY <3>1, <3>3, <4>1, <4>3
    <3> QED BY <3>2, <3>3
  <2>5. Q(f)
    <3> HIDE DEF E
    <3> QED BY <2>3, <2>4 DEF RecFrom
  <2> QED BY <2>5
<1>3. Q(HeightFrom)
  BY <1>2 DEF HeightFrom
<1>4. \A n \in Nat : HeightFrom[n] = E(HeightFrom, n)
  <2> HIDE DEF E
  <2> QED BY <1>3
<1> QED BY <1>1, <1>4

\* A power of two on top of a smaller number is one more one.
LEMMA PopCountTop ==
  \A j \in Nat : \A r \in Nat : r < Pow2[j] => PopCount[Pow2[j] + r] = PopCount[r] + 1
<1> DEFINE S == {j \in Nat : \A r \in Nat : r < Pow2[j] => PopCount[Pow2[j] + r] = PopCount[r] + 1}
<1>1. 0 \in S
  <2>1. Pow2[0] = 1
    BY Pow2Facts
  <2>2. \A r \in Nat : r < Pow2[0] => r = 0
    BY <2>1
  <2>3. PopCount[2 * 0 + 1] = PopCount[0] + 1
    BY ONLY 0 \in Nat, BitFacts
  <2>4. 2 * 0 + 1 = Pow2[0] + 0
    BY <2>1
  <2> QED BY <2>2, <2>3, <2>4
<1>2. ASSUME NEW j \in Nat, j \in S PROVE j + 1 \in S
  <2>1. Pow2[j] \in Nat /\ Pow2[j + 1] = 2 * Pow2[j]
    BY SizeFacts
  <2>2. ASSUME NEW r \in Nat, r < Pow2[j + 1] PROVE PopCount[Pow2[j + 1] + r] = PopCount[r] + 1
    <3>1. PICK k \in Nat : r = 2 * k \/ r = 2 * k + 1
      BY Halves
    <3>2. k < Pow2[j] /\ Pow2[j] + k \in Nat
      BY <2>1, <2>2, <3>1
    <3>3. PopCount[Pow2[j] + k] = PopCount[k] + 1
      BY <1>2, <3>2
    <3>4. /\ PopCount[2 * (Pow2[j] + k)] = PopCount[Pow2[j] + k]
          /\ PopCount[2 * (Pow2[j] + k) + 1] = PopCount[Pow2[j] + k] + 1
      BY ONLY <3>2, BitFacts
    <3>5. PopCount[2 * k] = PopCount[k] /\ PopCount[2 * k + 1] = PopCount[k] + 1
      BY BitFacts
    <3>6. CASE r = 2 * k
      <4>1. Pow2[j + 1] + r = 2 * (Pow2[j] + k)
        BY <2>1, <3>6
      <4> QED BY ONLY <3>3, <3>4, <3>5, <3>6, <4>1
    <3>7. CASE r = 2 * k + 1
      <4>1. Pow2[j + 1] + r = 2 * (Pow2[j] + k) + 1
        BY <2>1, <3>7
      <4> QED BY ONLY <3>3, <3>4, <3>5, <3>7, <4>1
    <3> QED BY <3>1, <3>6, <3>7
  <2> QED BY <2>2
<1> HIDE DEF S
<1>3. \A j \in Nat : j \in S
  BY <1>1, <1>2, StepSet
<1> QED BY <1>3 DEF S

\* A power of two shifted.
LEMMA FirstLeafPow ==
  ASSUME NEW j \in Nat
  PROVE  \A h \in Nat : FirstLeaf(Pow2[j], h) = Pow2[j + h]
<1> DEFINE S == {h \in Nat : FirstLeaf(Pow2[j], h) = Pow2[j + h]}
<1>0. Pow2[j] \in Nat
  BY SizeFacts
<1>1. 0 \in S
  <2>1. FirstLeaf(Pow2[j], 0) = Pow2[j]
    BY ONLY <1>0, 0 \in Nat, FirstLeafFacts, Zenon
  <2>2. j + 0 = j
    OBVIOUS
  <2> QED BY <2>1, <2>2
<1>2. ASSUME NEW h \in Nat, h \in S PROVE h + 1 \in S
  <2>1. FirstLeaf(Pow2[j], h + 1) = 2 * FirstLeaf(Pow2[j], h)
    BY ONLY <1>0, h \in Nat, FirstLeafFacts
  <2>2. j + h \in Nat /\ j + (h + 1) = (j + h) + 1
    OBVIOUS
  <2>3. Pow2[(j + h) + 1] = 2 * Pow2[j + h]
    BY ONLY <2>2, SizeFacts
  <2> QED BY <1>2, <2>1, <2>2, <2>3
<1> HIDE DEF S
<1>3. \A h \in Nat : h \in S
  BY <1>1, <1>2, StepSet
<1> QED BY <1>3 DEF S

\* GetHeight finds the height of a tree from the position of its peak.
LEMMA HeightAt ==
  \A q \in Nat : \A h \in Nat : GetHeight(TreePos(q, h)) = h
<1> DEFINE S == {q \in Nat : \A h \in Nat : GetHeight(TreePos(q, h)) = h}
<1>1. ASSUME NEW q \in Nat, \A r \in Nat : r < q => r \in S PROVE q \in S
  <2>1. SUFFICES ASSUME NEW h \in Nat PROVE GetHeight(TreePos(q, h)) = h
    OBVIOUS
  <2> DEFINE P == Pow2[h]
  <2>2. P \in Nat /\ P >= 1
    BY SizeFacts
  <2>3. CASE q = 0
    <3>1. FirstLeaf(0 + 1, h) = FirstLeaf(0, h) + P /\ FirstLeaf(0, h) = 0 /\ PopCount[0] = 0
      BY ONLY 0 \in Nat, h \in Nat, FirstLeafFacts, BitFacts
    <3> DEFINE n == 2 * P - 1
    <3>2. TreePos(0, h) + 1 = n
      BY <2>2, <3>1 DEF TreePos
    <3>3. n \in Nat /\ n # 0 /\ P <= n /\ n < 2 * P
      BY <2>2
    <3> HIDE DEF n
    <3>4. AllOnesBelow(n) = (IF 2 * P - 1 <= n THEN 2 * P - 1 ELSE P - 1) /\ BitLength[n] = h + 1
      BY ONLY <3>3, h \in Nat, AllOnesFacts
    <3>5. AllOnesBelow(n) = n
      BY <2>2, <3>4 DEF n
    <3>6. HeightFrom[n] = BitLength[n] - 1
      BY <3>3, <3>5, HeightFromDef
    <3> QED BY <2>3, <3>2, <3>4, <3>6 DEF GetHeight
  <2>4. CASE q # 0
    <3>1. PICK j \in Nat : Pow2[j] <= q /\ q < 2 * Pow2[j]
      BY <2>4, PowersAround
    <3> DEFINE r == q - Pow2[j]
               W == Pow2[j + h]
    <3>2. Pow2[j] \in Nat /\ Pow2[j] >= 1
      BY SizeFacts
    <3>3. r \in Nat /\ r < Pow2[j] /\ r < q /\ q = Pow2[j] + r
      BY <3>1, <3>2
    <3> HIDE DEF r
    <3>4. PopCount[q] = PopCount[r] + 1 /\ PopCount[r] \in Nat
      BY <3>3, PopCountTop, BitFacts
    <3>5. FirstLeaf(Pow2[j], h) = W
      BY FirstLeafPow
    <3>6. W \in Nat /\ W >= 1 /\ Pow2[(j + h) + 1] = 2 * W
      BY ONLY j \in Nat, h \in Nat, j + h \in Nat, SizeFacts
    <3>7. FirstLeaf(q + 1, h) = W + FirstLeaf(r + 1, h) /\ FirstLeaf(r + 1, h) \in Nat
      <4>1. q + 1 = Pow2[j] + (r + 1) /\ r + 1 \in Nat
        BY <3>2, <3>3
      <4>2. (Pow2[j] + (r + 1)) * Pow2[h] = Pow2[j] * Pow2[h] + (r + 1) * Pow2[h]
        BY ONLY <2>2, <3>2, <4>1, Distribute
      <4>3. FirstLeaf(r + 1, h) \in Nat
        BY ONLY <4>1, h \in Nat, FirstLeafFacts
      <4> QED BY ONLY <3>5, <4>1, <4>2, <4>3 DEF FirstLeaf
    <3>8. FirstLeaf(r + 1, h) <= W
      <4>1. FirstLeaf(r + 1, h) <= FirstLeaf(Pow2[j], h)
        BY ONLY <3>2, <3>3, h \in Nat, FirstLeafGrows
      <4> QED BY ONLY <3>5, <4>1
    <3> DEFINE t == TreePos(r, h)
               n == t + 2 * W
    <3>9. t \in Nat /\ t <= 2 * W - 2
      <4>1. TreePos(r, h) \in Nat
        BY ONLY <3>3, h \in Nat, TreePosFacts
      <4> QED BY ONLY <3>4, <3>6, <3>7, <3>8, <4>1 DEF TreePos
    <3>10. TreePos(q, h) + 1 = n
      BY ONLY <3>4, <3>6, <3>7 DEF TreePos
    <3> HIDE DEF W, t
    <3>11. n \in Nat /\ n # 0 /\ 2 * W <= n /\ n < 4 * W - 1 /\ n - (2 * W - 1) = t + 1
      BY ONLY <3>6, <3>9
    <3> HIDE DEF n
    <3>12. AllOnesBelow(n) = 2 * W - 1
      <4>1. (j + h) + 1 \in Nat /\ Pow2[(j + h) + 1] <= n /\ n < 2 * Pow2[(j + h) + 1]
        BY <3>6, <3>11
      <4>2. AllOnesBelow(n) = IF 2 * Pow2[(j + h) + 1] - 1 <= n THEN 2 * Pow2[(j + h) + 1] - 1
                              ELSE Pow2[(j + h) + 1] - 1
        BY ONLY <3>11, <4>1, AllOnesFacts
      <4> QED BY ONLY <3>6, <3>11, <4>2
    <3>13. HeightFrom[n] = HeightFrom[t + 1]
      <4>1. n # 2 * W - 1
        BY ONLY <3>6, <3>11
      <4>2. HeightFrom[n] = IF n = 0 THEN 0
                      ELSE IF n = AllOnesBelow(n) THEN BitLength[n] - 1
                      ELSE HeightFrom[n - AllOnesBelow(n)]
        BY ONLY <3>11, HeightFromDef
      <4> QED BY ONLY <3>11, <3>12, <4>1, <4>2
    <3>14. GetHeight(TreePos(r, h)) = h
      BY <1>1, <3>3
    <3> QED BY ONLY <3>10, <3>13, <3>14 DEF GetHeight, t
  <2> QED BY <2>3, <2>4
<1> HIDE DEF S
<1>2. \A q \in Nat : q \in S
  BY <1>1, StrongSet
<1> QED BY <1>2 DEF S

\* Between the first node of a tree and its peak there are lower peaks only.
LEMMA InsideTree ==
  \A h \in Nat : \A q \in Nat : \A x \in Nat :
    TreePos(q, h) - SubtreeSize(h) < x /\ x < TreePos(q, h) =>
      \E g \in Nat : \E r \in Nat : g < h /\ x = TreePos(r, g)
<1> DEFINE I(q, h) == \A x \in Nat : TreePos(q, h) - SubtreeSize(h) < x /\ x < TreePos(q, h) =>
                        \E g \in Nat : \E r \in Nat : g < h /\ x = TreePos(r, g)
           S == {h \in Nat : \A q \in Nat : I(q, h)}
<1>1. 0 \in S
  <2>1. SubtreeSize(0) = 1
    BY SizeFacts, Pow2Facts
  <2>2. ASSUME NEW q \in Nat PROVE I(q, 0)
    <3>1. TreePos(q, 0) \in Nat
      BY ONLY q \in Nat, 0 \in Nat, TreePosFacts
    <3> QED BY <2>1, <3>1
  <2> QED BY <2>2
<1>2. ASSUME NEW h \in Nat, h \in S PROVE h + 1 \in S
  <2>1. ASSUME NEW q \in Nat, NEW x \in Nat,
               TreePos(q, h + 1) - SubtreeSize(h + 1) < x, x < TreePos(q, h + 1)
        PROVE  \E g \in Nat : \E r \in Nat : g < h + 1 /\ x = TreePos(r, g)
    <3> DEFINE l == TreePos(2 * q, h)
               m == TreePos(2 * q + 1, h)
               z == SubtreeSize(h)
    <3>1. 2 * q \in Nat /\ 2 * q + 1 \in Nat /\ h + 1 \in Nat
      OBVIOUS
    <3>2. l \in Nat /\ m \in Nat
      BY ONLY <3>1, h \in Nat, TreePosFacts
    <3>3. m = TreePos(q, h + 1) - 1 /\ m = l + z /\ TreePos(q, h + 1) \in Nat
      BY ONLY <3>1, q \in Nat, h \in Nat, TreePosFacts
    <3>4. z \in Nat /\ SubtreeSize(h + 1) = 2 * z + 1
      BY SizeFacts, <3>1
    <3>5. I(2 * q, h) /\ I(2 * q + 1, h)
      BY <1>2, <3>1
    <3>6. CASE x = l
      BY <3>1, <3>6
    <3>7. CASE x = m
      BY <3>1, <3>7
    <3>8. CASE l - z < x /\ x < l
      BY <3>5, <3>8
    <3>9. CASE m - z < x /\ x < m
      BY <3>5, <3>9
    <3> HIDE DEF l, m, z
    <3> QED BY ONLY x \in Nat, <2>1, <3>2, <3>3, <3>4, <3>6, <3>7, <3>8, <3>9
  <2> QED BY <2>1
<1> HIDE DEF S
<1>3. \A h \in Nat : h \in S
  BY <1>1, <1>2, StepSet
<1> QED BY <1>3 DEF S

\* Above a tree that ends at a trailing one is its parent, one position on.
LEMMA Spine ==
  \A k \in Nat : \A p \in Nat : \A h \in Nat : k <= TrailingOnes[p] =>
    \E r \in Nat : TreePos(r, h + k) = TreePos(p, h) + k
<1> DEFINE S == {k \in Nat : \A p \in Nat : \A h \in Nat : k <= TrailingOnes[p] =>
                   \E r \in Nat : TreePos(r, h + k) = TreePos(p, h) + k}
<1>1. 0 \in S
  <2>1. ASSUME NEW p \in Nat, NEW h \in Nat PROVE TreePos(p, h + 0) = TreePos(p, h) + 0
    <3>1. TreePos(p, h) \in Nat /\ h + 0 = h
      BY TreePosFacts
    <3> QED BY <3>1
  <2> QED BY <2>1
<1>2. ASSUME NEW k \in Nat, k \in S PROVE k + 1 \in S
  <2>1. ASSUME NEW p \in Nat, NEW h \in Nat, k + 1 <= TrailingOnes[p]
        PROVE  \E r \in Nat : TreePos(r, h + (k + 1)) = TreePos(p, h) + (k + 1)
    <3>1. PICK m \in Nat : p = 2 * m \/ p = 2 * m + 1
      BY Halves
    <3>2. /\ TrailingOnes[m] \in Nat /\ TrailingOnes[2 * m] = 0
          /\ TrailingOnes[2 * m + 1] = TrailingOnes[m] + 1
      BY BitFacts
    <3>3. p = 2 * m + 1 /\ k <= TrailingOnes[m]
      BY <2>1, <3>1, <3>2
    <3>4. TreePos(p, h) = TreePos(m, h + 1) - 1 /\ TreePos(m, h + 1) \in Nat
      BY <3>3, TreePosFacts
    <3>5. PICK r \in Nat : TreePos(r, (h + 1) + k) = TreePos(m, h + 1) + k
      BY <1>2, <3>3
    <3>6. (h + 1) + k = h + (k + 1) /\ TreePos(m, h + 1) + k = TreePos(p, h) + (k + 1)
      BY <3>4
    <3> QED BY ONLY r \in Nat, <3>5, <3>6
  <2> QED BY <2>1
<1> HIDE DEF S
<1>3. \A k \in Nat : k \in S
  BY <1>1, <1>2, StepSet
<1> QED BY <1>3 DEF S

\* IsLeftSibling tells left children from right ones.
LEMMA SiblingAt ==
  ASSUME NEW q \in Nat, NEW h \in Nat
  PROVE  IsLeftSibling(TreePos(2 * q, h)) /\ ~ IsLeftSibling(TreePos(2 * q + 1, h))
<1> DEFINE p == 2 * q + 1
           z == SubtreeSize(h)
           x == TreePos(p, h) + z
           t == TrailingOnes[p]
<1>1. p \in Nat /\ 2 * q \in Nat /\ p + 1 \in Nat
  OBVIOUS
<1>2. GetHeight(TreePos(p, h)) = h /\ GetHeight(TreePos(2 * q, h)) = h
  BY ONLY <1>1, h \in Nat, HeightAt
<1>3. TreePos(p, h) = TreePos(2 * q, h) + z
  BY TreePosFacts
<1>4. IsLeftSibling(TreePos(2 * q, h))
  BY ONLY <1>2, <1>3 DEF IsLeftSibling
<1>5. z = 2 * Pow2[h] - 1 /\ z \in Nat /\ z >= 1 /\ Pow2[h] \in Nat
  BY SizeFacts
<1>6. TreePos(p, h) \in Nat /\ x \in Nat
  <2>1. TreePos(p, h) \in Nat
    BY ONLY <1>1, h \in Nat, TreePosFacts
  <2> QED BY <1>5, <2>1
<1>7. t \in Nat /\ t >= 1
  <2>1. TrailingOnes[2 * q + 1] = TrailingOnes[q] + 1 /\ TrailingOnes[q] \in Nat
    BY BitFacts
  <2> QED BY <2>1
<1> HIDE DEF p
<1>8. TreePos(p + 1, h) = x + t
  <2>1. FirstLeaf((p + 1) + 1, h) = FirstLeaf(p + 1, h) + Pow2[h] /\ FirstLeaf(p + 1, h) \in Nat
    BY ONLY <1>1, h \in Nat, FirstLeafFacts
  <2>2. PopCount[p + 1] = PopCount[p] + 1 - t
    BY <1>1, PopCountNext
  <2>3. PopCount[p] \in Nat /\ PopCount[p + 1] \in Nat
    BY ONLY <1>1, PopCountBound
  <2> QED BY ONLY <1>5, <1>7, <2>1, <2>2, <2>3 DEF TreePos
<1>9. GetHeight(x) # h
  <2>1. CASE t < z
    <3>1. TreePos(p + 1, h) - z < x /\ x < TreePos(p + 1, h)
      BY ONLY <1>5, <1>6, <1>7, <1>8, <2>1
    <3>2. PICK g \in Nat : \E r \in Nat : g < h /\ x = TreePos(r, g)
      BY ONLY <1>1, <1>6, <3>1, h \in Nat, InsideTree DEF z
    <3>3. GetHeight(x) = g
      BY <3>2, HeightAt
    <3> QED BY <3>2, <3>3
  <2>2. CASE t >= z
    <3>1. z <= t
      BY <1>5, <1>7, <2>2
    <3>2. PICK r \in Nat : TreePos(r, h + z) = TreePos(p, h) + z
      BY ONLY <1>1, <1>5, <3>1, h \in Nat, Spine DEF t
    <3>3. h + z \in Nat /\ h + z # h
      BY <1>5
    <3>4. GetHeight(TreePos(r, h + z)) = h + z
      BY ONLY <3>3, r \in Nat, HeightAt
    <3> QED BY ONLY <3>2, <3>3, <3>4 DEF x
  <2> QED BY <1>5, <1>7, <2>1, <2>2
<1>10. ~ IsLeftSibling(TreePos(p, h))
  BY ONLY <1>2, <1>9 DEF IsLeftSibling, x, z
<1> QED BY <1>4, <1>10 DEF p

\* Of two trees of a height the later one has its peak further on.
LEMMA TreePosGrows ==
  ASSUME NEW h \in Nat, NEW q \in Nat, NEW r \in Nat, q < r
  PROVE  TreePos(q, h) < TreePos(r, h)
<1> DEFINE S == {d \in Nat : TreePos(q, h) < TreePos(q + 1 + d, h)}
<1>1. ASSUME NEW p \in Nat PROVE TreePos(p, h) \in Nat /\ TreePos(p, h) < TreePos(p + 1, h)
  <2>1. p + 1 \in Nat
    OBVIOUS
  <2>2. FirstLeaf((p + 1) + 1, h) = FirstLeaf(p + 1, h) + Pow2[h] /\ FirstLeaf(p + 1, h) \in Nat
    BY ONLY <2>1, h \in Nat, FirstLeafFacts
  <2>3. PopCount[p + 1] = PopCount[p] + 1 - TrailingOnes[p] /\ TrailingOnes[p] \in Nat
    BY PopCountNext, BitFacts
  <2>4. PopCount[p] \in Nat /\ PopCount[p + 1] \in Nat
    BY ONLY <2>1, p \in Nat, PopCountBound
  <2>5. Pow2[h] \in Nat /\ Pow2[h] >= 1
    BY SizeFacts
  <2>6. TreePos(p, h) \in Nat
    BY TreePosFacts
  <2> QED BY ONLY <2>2, <2>3, <2>4, <2>5, <2>6 DEF TreePos
<1>2. 0 \in S
  <2>1. q + 1 + 0 = q + 1
    OBVIOUS
  <2> QED BY <1>1, <2>1
<1>3. ASSUME NEW d \in Nat, d \in S PROVE d + 1 \in S
  <2>1. q + 1 + (d + 1) = (q + 1 + d) + 1 /\ q + 1 + d \in Nat
    OBVIOUS
  <2>2. TreePos(q + 1 + d, h) < TreePos((q + 1 + d) + 1, h)
    BY ONLY <1>1, <2>1
  <2>3. TreePos((q + 1 + d) + 1, h) \in Nat /\ TreePos(q + 1 + d, h) \in Nat /\ TreePos(q, h) \in Nat
    BY ONLY <1>1, <2>1, q \in Nat, (q + 1 + d) + 1 \in Nat
  <2>4. TreePos(q, h) < TreePos(q + 1 + d, h)
    BY <1>3
  <2>5. TreePos(q, h) < TreePos((q + 1 + d) + 1, h)
    BY ONLY <2>2, <2>3, <2>4
  <2> QED BY <2>1, <2>5
<1> HIDE DEF S
<1>4. \A d \in Nat : d \in S
  BY <1>2, <1>3, StepSet
<1>5. r - (q + 1) \in Nat /\ q + 1 + (r - (q + 1)) = r
  OBVIOUS
<1>6. TreePos(q, h) < TreePos(q + 1 + (r - (q + 1)), h)
  BY <1>4, <1>5 DEF S
<1> QED BY ONLY <1>5, <1>6

\* A position is the peak of one tree only.
LEMMA SamePeak ==
  ASSUME NEW q \in Nat, NEW h \in Nat, NEW r \in Nat, NEW g \in Nat, TreePos(q, h) = TreePos(r, g)
  PROVE  q = r /\ h = g
<1>1. GetHeight(TreePos(q, h)) = h /\ GetHeight(TreePos(r, g)) = g
  BY HeightAt
<1>2. h = g
  BY <1>1
<1>3. TreePos(q, h) \in Nat /\ TreePos(r, h) \in Nat
  BY ONLY q \in Nat, r \in Nat, h \in Nat, TreePosFacts
<1>4. ~ (q < r) /\ ~ (r < q)
  BY <1>2, <1>3, TreePosGrows
<1> QED BY <1>2, <1>4

\* A tree of height h has at least h nodes before its peak.
LEMMA TreePosHigh ==
  \A h \in Nat : \A q \in Nat : h <= TreePos(q, h)
<1> DEFINE S == {h \in Nat : \A q \in Nat : h <= TreePos(q, h)}
<1>1. 0 \in S
  <2>1. ASSUME NEW q \in Nat PROVE TreePos(q, 0) \in Nat
    BY TreePosFacts
  <2> QED BY <2>1
<1>2. ASSUME NEW h \in Nat, h \in S PROVE h + 1 \in S
  <2>1. ASSUME NEW q \in Nat PROVE h + 1 <= TreePos(q, h + 1)
    <3>1. TreePos(2 * q + 1, h) = TreePos(q, h + 1) - 1
      BY TreePosFacts
    <3>2. TreePos(q, h + 1) \in Nat
      BY ONLY q \in Nat, h + 1 \in Nat, TreePosFacts
    <3>3. h <= TreePos(2 * q + 1, h)
      BY <1>2
    <3> QED BY <3>1, <3>2, <3>3
  <2> QED BY <2>1
<1> HIDE DEF S
<1>3. \A h \in Nat : h \in S
  BY <1>1, <1>2, StepSet
<1> QED BY <1>3 DEF S

-----------------------------------------------------------------------------
(* Proofs: the climb to the peak, the peaks on both sides, the verification  *)

\* The rounds of the loop of GetProof.
ClimbRun(s, p, peaks, T) ==
  /\ s[0] = [pos |-> p, path |-> << >>]
  /\ \A k \in Nat : k < T => s[k + 1] = ClimbOne(s[k], peaks)
  /\ PathToPeak(p, peaks) = s[T].path

\* There are such rounds.
LEMMA PathRounds ==
  ASSUME NEW p, NEW peaks, NEW T \in Nat, Len(vNodes) = T
  PROVE  \E s : ClimbRun(s, p, peaks, T)
<1> DEFINE z == [pos |-> p, path |-> << >>]
           Fits(v, t) == v = [k \in 0 .. t |-> IF k = 0 THEN z ELSE ClimbOne(v[k - 1], peaks)]
<1>1. \A t \in Nat : \E v : Fits(v, t)
  <2> DEFINE S == {t \in Nat : \E v : Fits(v, t)}
  <2>1. 0 \in S
    <3> HIDE DEF z
    <3>1. Fits([k \in 0 .. 0 |-> z], 0)
      OBVIOUS
    <3> QED BY <3>1
  <2>2. ASSUME NEW t \in Nat, t \in S PROVE t + 1 \in S
    <3> HIDE DEF z
    <3>1. PICK v : Fits(v, t)
      BY <2>2
    <3> DEFINE u == [k \in 0 .. t + 1 |-> IF k = t + 1 THEN ClimbOne(v[t], peaks) ELSE v[k]]
    <3>2. ASSUME NEW k \in 0 .. t + 1
          PROVE  u[k] = IF k = 0 THEN z ELSE ClimbOne(u[k - 1], peaks)
      <4>1. CASE k = t + 1
        <5>1. u[t] = v[t] /\ u[k] = ClimbOne(v[t], peaks)
          BY <4>1
        <5>2. k - 1 = t /\ k # 0
          BY <4>1
        <5> HIDE DEF u
        <5> QED BY <5>1, <5>2
      <4>2. CASE k # t + 1
        <5>1. k \in 0 .. t /\ u[k] = v[k]
          BY <4>2
        <5>2. v[k] = IF k = 0 THEN z ELSE ClimbOne(v[k - 1], peaks)
          BY <3>1, <5>1
        <5>3. k # 0 => u[k - 1] = v[k - 1]
          BY <5>1
        <5> HIDE DEF u
        <5> QED BY <5>1, <5>2, <5>3
      <4> QED BY <4>1, <4>2
    <3>3. Fits(u, t + 1)
      BY <3>2
    <3> HIDE DEF u, Fits
    <3> QED BY <3>3
  <2> HIDE DEF S
  <2>3. \A t \in Nat : t \in S
    BY <2>1, <2>2, StepSet
  <2> QED BY <2>3 DEF S
<1> DEFINE s == CHOOSE v : Fits(v, T)
<1>2. Fits(s, T)
  BY <1>1
<1>3. PathToPeak(p, peaks) = s[T].path
  BY DEF PathToPeak
<1> HIDE DEF s, z
<1>4. s[0] = z
  BY <1>2
<1>5. ASSUME NEW k \in Nat, k < T PROVE s[k + 1] = ClimbOne(s[k], peaks)
  <2>1. k + 1 \in 0 .. T /\ k + 1 # 0 /\ (k + 1) - 1 = k
    BY <1>5
  <2>2. \A g \in 0 .. T : s[g] = IF g = 0 THEN z ELSE ClimbOne(s[g - 1], peaks)
    BY <1>2
  <2>3. s[k + 1] = ClimbOne(s[(k + 1) - 1], peaks)
    BY ONLY <2>1, <2>2, Zenon
  <2> QED BY ONLY <2>1, <2>3
<1>6. ClimbRun(s, p, peaks, T)
  BY ONLY <1>3, <1>4, <1>5 DEF z, ClimbRun
<1> QED BY <1>6

\* The rounds of the loop of VerifyProof.
CombineRun(s, x, proof, T) ==
  /\ s[0] = HashLeaf(x)
  /\ \A k \in Nat : k < T => s[k + 1] = Combine(s[k], proof[k + 1])
  /\ Combined(x, proof) = s[T]

\* There are such rounds.
LEMMA CombineRounds ==
  ASSUME NEW x, NEW proof, NEW T \in Nat, Len(proof) = T
  PROVE  \E s : CombineRun(s, x, proof, T)
<1> DEFINE z == HashLeaf(x)
           Fits(v, t) == v = [k \in 0 .. t |-> IF k = 0 THEN z ELSE Combine(v[k - 1], proof[k])]
<1>1. \A t \in Nat : \E v : Fits(v, t)
  <2> DEFINE S == {t \in Nat : \E v : Fits(v, t)}
  <2>1. 0 \in S
    <3> HIDE DEF z
    <3>1. Fits([k \in 0 .. 0 |-> z], 0)
      OBVIOUS
    <3> QED BY <3>1
  <2>2. ASSUME NEW t \in Nat, t \in S PROVE t + 1 \in S
    <3> HIDE DEF z
    <3>1. PICK v : Fits(v, t)
      BY <2>2
    <3> DEFINE u == [k \in 0 .. t + 1 |-> IF k = t + 1 THEN Combine(v[t], proof[k]) ELSE v[k]]
    <3>2. ASSUME NEW k \in 0 .. t + 1
          PROVE  u[k] = IF k = 0 THEN z ELSE Combine(u[k - 1], proof[k])
      <4>1. CASE k = t + 1
        <5>1. u[t] = v[t] /\ u[k] = Combine(v[t], proof[k])
          BY <4>1
        <5>2. k - 1 = t /\ k # 0
          BY <4>1
        <5> HIDE DEF u
        <5> QED BY <5>1, <5>2
      <4>2. CASE k # t + 1
        <5>1. k \in 0 .. t /\ u[k] = v[k]
          BY <4>2
        <5>2. v[k] = IF k = 0 THEN z ELSE Combine(v[k - 1], proof[k])
          BY <3>1, <5>1
        <5>3. k # 0 => u[k - 1] = v[k - 1]
          BY <5>1
        <5> HIDE DEF u
        <5> QED BY <5>1, <5>2, <5>3
      <4> QED BY <4>1, <4>2
    <3>3. Fits(u, t + 1)
      BY <3>2
    <3> HIDE DEF u, Fits
    <3> QED BY <3>3
  <2> HIDE DEF S
  <2>3. \A t \in Nat : t \in S
    BY <2>1, <2>2, StepSet
  <2> QED BY <2>3 DEF S
<1> DEFINE s == CHOOSE v : Fits(v, T)
<1>2. Fits(s, T)
  BY <1>1
<1>3. Combined(x, proof) = s[T]
  BY DEF Combined
<1> HIDE DEF s, z
<1>4. s[0] = z
  BY <1>2
<1>5. ASSUME NEW k \in Nat, k < T PROVE s[k + 1] = Combine(s[k], proof[k + 1])
  <2>1. k + 1 \in 0 .. T /\ k + 1 # 0 /\ (k + 1) - 1 = k
    BY <1>5
  <2>2. \A g \in 0 .. T : s[g] = IF g = 0 THEN z ELSE Combine(s[g - 1], proof[g])
    BY <1>2
  <2>3. s[k + 1] = Combine(s[(k + 1) - 1], proof[k + 1])
    BY ONLY <2>1, <2>2, Zenon
  <2> QED BY ONLY <2>1, <2>3
<1>6. CombineRun(s, x, proof, T)
  BY ONLY <1>3, <1>4, <1>5 DEF z, CombineRun
<1> QED BY <1>6

\* The tree q of height h is a mountain of the range.
Arrived(q, h) == \E r \in Nat : q = 2 * r /\ Shifted(2 * r + 1, h, nLeaves)

\* The test for a peak in the loop of GetProof finds the mountains.
LEMMA ArrivedAtPeak ==
  ASSUME nLeaves \in Nat, NEW q \in Nat, NEW h \in Nat
  PROVE  Arrived(q, h) <=> \E k \in DOMAIN GetPeaks : GetPeaks[k] = TreePos(q, h)
<1>1. DOMAIN GetPeaks = 1 .. Len(GetPeaks)
  BY PeakIndices
<1>2. ASSUME Arrived(q, h) PROVE \E k \in DOMAIN GetPeaks : GetPeaks[k] = TreePos(q, h)
  <2>1. PICK r \in Nat : q = 2 * r /\ Shifted(2 * r + 1, h, nLeaves)
    BY <1>2 DEF Arrived
  <2>2. /\ PopCount[r] + 1 \in 1 .. Len(GetPeaks)
        /\ GetPeaks[PopCount[r] + 1] = TreePos(2 * r, h)
    BY <2>1, PeakFacts
  <2> QED BY ONLY <1>1, <2>1, <2>2, Zenon
<1>3. ASSUME NEW k \in 1 .. Len(GetPeaks), GetPeaks[k] = TreePos(q, h) PROVE Arrived(q, h)
  <2>1. PICK g \in Nat : \E r \in Nat :
          Shifted(2 * r + 1, g, nLeaves) /\ GetPeaks[k] = TreePos(2 * r, g)
    BY PeakFacts
  <2>2. PICK r \in Nat : Shifted(2 * r + 1, g, nLeaves) /\ GetPeaks[k] = TreePos(2 * r, g)
    BY <2>1
  <2>3. TreePos(q, h) = TreePos(2 * r, g) /\ 2 * r \in Nat
    BY <1>3, <2>2
  <2>4. q = 2 * r /\ h = g
    BY ONLY q \in Nat, h \in Nat, g \in Nat, <2>3, SamePeak
  <2> QED BY <2>2, <2>4 DEF Arrived
<1> QED BY <1>1, <1>2, <1>3

\* Every sibling of the path takes the hash of one tree over leaf i to that of
\* the next.
PathOK(path, h, i) ==
  \A k \in Nat : \A a \in Nat : \A b \in Nat : k < h /\ Shifted(a, k, i) /\ Shifted(b, k + 1, i) =>
    Combine(Node(TreePos(a, k)), path[k + 1]) = Node(TreePos(b, k + 1))

\* The loop of GetProof has come from leaf i to the tree q of height h.
WalkAt(w, q, h, i) ==
  /\ Shifted(q, h, i)
  /\ FirstLeaf(q + 1, h) <= nLeaves
  /\ w.pos = TreePos(q, h)
  /\ IsSeq(w.path)
  /\ Len(w.path) = h
  /\ PathOK(w.path, h, i)

\* The tree over a leaf that is next above a tree over it.
LEMMA ShiftedUp ==
  ASSUME NEW i \in Nat, NEW h \in Nat, NEW m \in Nat
  PROVE  Shifted(2 * m, h, i) \/ Shifted(2 * m + 1, h, i) => Shifted(m, h + 1, i)
<1>1. FirstLeaf(2 * m, h) = FirstLeaf(m, h + 1) /\ FirstLeaf(m, h + 1) \in Nat
  <2>1. FirstLeaf(m, h + 1) \in Nat
    BY ONLY m \in Nat, h + 1 \in Nat, FirstLeafFacts
  <2> QED BY <2>1, FirstLeafFacts
<1>2. FirstLeaf(2 * m + 1, h) = FirstLeaf(2 * m, h) + Pow2[h]
  BY ONLY 2 * m \in Nat, h \in Nat, FirstLeafFacts
<1>3. Pow2[h] \in Nat /\ Pow2[h + 1] = 2 * Pow2[h]
  BY SizeFacts
<1> QED BY ONLY i \in Nat, <1>1, <1>2, <1>3 DEF Shifted

\* A new sibling on the path.
LEMMA PathGrows ==
  ASSUME NEW i \in Nat, NEW h \in Nat, NEW q \in Nat, NEW m \in Nat, NEW path, NEW s,
         IsSeq(path), Len(path) = h, PathOK(path, h, i), Shifted(q, h, i), Shifted(m, h + 1, i),
         Combine(Node(TreePos(q, h)), s) = Node(TreePos(m, h + 1))
  PROVE  /\ IsSeq(Append(path, s)) /\ Len(Append(path, s)) = h + 1
         /\ PathOK(Append(path, s), h + 1, i)
<1>1. /\ IsSeq(Append(path, s)) /\ Len(Append(path, s)) = h + 1
      /\ Append(path, s)[h + 1] = s
      /\ \A k \in 1 .. h : Append(path, s)[k] = path[k]
  BY AppendSeq
<1> DEFINE n == Append(path, s)
<1> HIDE DEF n
<1>2. ASSUME NEW k \in Nat, NEW a \in Nat, NEW b \in Nat, k < h + 1, Shifted(a, k, i), Shifted(b, k + 1, i)
      PROVE  Combine(Node(TreePos(a, k)), n[k + 1]) = Node(TreePos(b, k + 1))
  <2>1. CASE k = h
    <3>1. a = q
      BY ONLY i \in Nat, h \in Nat, a \in Nat, q \in Nat, <1>2, <2>1, Shifted(q, h, i), ShiftedUnique
    <3>2. b = m
      BY ONLY i \in Nat, h + 1 \in Nat, b \in Nat, m \in Nat, <1>2, <2>1, Shifted(m, h + 1, i), ShiftedUnique
    <3>3. n[k + 1] = s
      BY <1>1, <2>1 DEF n
    <3> QED BY ONLY <2>1, <3>1, <3>2, <3>3, Combine(Node(TreePos(q, h)), s) = Node(TreePos(m, h + 1))
  <2>2. CASE k # h
    <3>1. k < h /\ k + 1 \in 1 .. h
      BY <1>2, <2>2
    <3>2. n[k + 1] = path[k + 1]
      BY <1>1, <3>1 DEF n
    <3>3. Combine(Node(TreePos(a, k)), path[k + 1]) = Node(TreePos(b, k + 1))
      BY ONLY PathOK(path, h, i), <1>2, <3>1 DEF PathOK
    <3> QED BY ONLY <3>2, <3>3
  <2> QED BY <2>1, <2>2
<1>3. PathOK(n, h + 1, i)
  BY <1>2 DEF PathOK
<1> QED BY <1>1, <1>3 DEF n

\* A round of the loop of GetProof: nothing at a peak, else one tree up.
LEMMA ClimbStep ==
  ASSUME RangeInv, NEW i \in Nat, NEW h \in Nat, NEW q \in Nat, NEW w, WalkAt(w, q, h, i)
  PROVE  IF Arrived(q, h) THEN ClimbOne(w, GetPeaks) = w
         ELSE \E m \in Nat : WalkAt(ClimbOne(w, GetPeaks), m, h + 1, i)
<1>1. nLeaves \in Nat /\ Len(vNodes) = NodeCountForLeaves(nLeaves) /\ TreesIn(vNodes, nLeaves)
  BY DEF RangeInv, WellFormed
<1>2. w.pos = TreePos(q, h) /\ IsSeq(w.path) /\ Len(w.path) = h /\ PathOK(w.path, h, i)
  BY DEF WalkAt
<1>3. Arrived(q, h) <=> \E k \in DOMAIN GetPeaks : GetPeaks[k] = w.pos
  BY ONLY <1>1, <1>2, q \in Nat, h \in Nat, ArrivedAtPeak
<1>4. CASE Arrived(q, h)
  <2>1. ClimbOne(w, GetPeaks) = w
    BY ONLY <1>3, <1>4 DEF ClimbOne
  <2> QED BY <1>4, <2>1
<1>5. CASE ~ Arrived(q, h)
  <2>1. PICK m \in Nat : q = 2 * m \/ q = 2 * m + 1
    BY Halves
  <2>2. Shifted(m, h + 1, i)
    BY <2>1, ShiftedUp DEF WalkAt
  <2> DEFINE l == TreePos(2 * m, h)
             r == TreePos(2 * m + 1, h)
             z == SubtreeSize(h)
  <2>3. l \in Nat /\ r \in Nat /\ z \in Nat
    BY ONLY 2 * m \in Nat, 2 * m + 1 \in Nat, h \in Nat, TreePosFacts, SizeFacts
  <2>4. r = l + z /\ TreePos(m, h + 1) = r + 1
    <3>1. TreePos(m, h + 1) \in Nat
      BY ONLY m \in Nat, h + 1 \in Nat, TreePosFacts
    <3>2. TreePos(2 * m + 1, h) = TreePos(m, h + 1) - 1 /\ r = l + z
      BY TreePosFacts
    <3> QED BY ONLY <2>3, <3>1, <3>2
  <2>5. FirstLeaf(m + 1, h + 1) = FirstLeaf((2 * m + 1) + 1, h)
    <3>1. FirstLeaf(2 * (m + 1), h) = FirstLeaf(m + 1, h + 1)
      BY ONLY m + 1 \in Nat, h \in Nat, FirstLeafFacts
    <3>2. 2 * (m + 1) = (2 * m + 1) + 1
      OBVIOUS
    <3> QED BY ONLY <3>1, <3>2
  <2>6. FirstLeaf(m + 1, h + 1) <= nLeaves
    <3>1. CASE q = 2 * m + 1
      BY <2>5, <3>1 DEF WalkAt
    <3>2. CASE q = 2 * m
      <4>1. ~ Shifted(2 * m + 1, h, nLeaves)
        BY <1>5, <3>2 DEF Arrived
      <4>2. FirstLeaf(2 * m + 1, h) <= nLeaves
        BY <3>2 DEF WalkAt
      <4>3. /\ FirstLeaf((2 * m + 1) + 1, h) = FirstLeaf(2 * m + 1, h) + Pow2[h]
            /\ FirstLeaf(2 * m + 1, h) \in Nat
        BY ONLY 2 * m + 1 \in Nat, h \in Nat, FirstLeafFacts
      <4>4. Pow2[h] \in Nat
        BY SizeFacts
      <4> QED BY ONLY <1>1, <2>5, <4>1, <4>2, <4>3, <4>4 DEF Shifted
    <3> QED BY <2>1, <3>1, <3>2
  <2>7. l < Len(vNodes) /\ r < Len(vNodes)
    <3>1. /\ l + 1 \in 1 .. NodeCountForLeaves(nLeaves)
          /\ r + 1 \in 1 .. NodeCountForLeaves(nLeaves)
      BY ONLY <1>1, <2>6, m \in Nat, h \in Nat, TreeWithin
    <3>2. NodeCountForLeaves(nLeaves) \in Nat
      BY <1>1, NodeCountNext
    <3> QED BY ONLY <1>1, <2>3, <3>1, <3>2
  <2>8. Node(TreePos(m, h + 1)) = HashParent(Node(l), Node(r))
    BY ONLY <1>1, <2>6, m \in Nat, h \in Nat DEF TreesIn, Node
  <2>9. GetHeight(w.pos) = h
    BY ONLY <1>2, q \in Nat, h \in Nat, HeightAt
  <2>10. IsLeftSibling(l) /\ ~ IsLeftSibling(r)
    BY SiblingAt
  <2>11. NodeCountForLeaves(nLeaves) \in Nat /\ Len(vNodes) \in Nat
    BY <1>1, NodeCountNext
  <2> HIDE DEF l, r, z
  <2>12. ASSUME NEW s,
                ClimbOne(w, GetPeaks) = [pos |-> TreePos(m, h + 1), path |-> Append(w.path, s)],
                Combine(Node(TreePos(q, h)), s) = Node(TreePos(m, h + 1))
         PROVE  WalkAt(ClimbOne(w, GetPeaks), m, h + 1, i)
    <3>1. /\ IsSeq(Append(w.path, s)) /\ Len(Append(w.path, s)) = h + 1
          /\ PathOK(Append(w.path, s), h + 1, i)
      <4> DEFINE path == w.path
      <4>1. IsSeq(path) /\ Len(path) = h /\ PathOK(path, h, i) /\ Shifted(q, h, i)
        BY <1>2 DEF WalkAt
      <4> HIDE DEF path
      <4>2. /\ IsSeq(Append(path, s)) /\ Len(Append(path, s)) = h + 1
            /\ PathOK(Append(path, s), h + 1, i)
        BY ONLY <2>2, <2>12, <4>1, i \in Nat, h \in Nat, q \in Nat, m \in Nat, PathGrows
      <4> QED BY <4>2 DEF path
    <3> DEFINE c == ClimbOne(w, GetPeaks)
    <3>2. c.pos = TreePos(m, h + 1) /\ c.path = Append(w.path, s)
      BY <2>12
    <3> HIDE DEF c
    <3>3. WalkAt(c, m, h + 1, i)
      BY ONLY <2>2, <2>6, <3>1, <3>2 DEF WalkAt
    <3> QED BY <3>3 DEF c
  <2>13. CASE q = 2 * m
    <3>1. w.pos = l /\ IsLeftSibling(w.pos)
      BY <1>2, <2>10, <2>13 DEF l
    <3>2. l + z = r /\ ~ (r >= Len(vNodes)) /\ r + 1 = TreePos(m, h + 1)
      BY ONLY <2>3, <2>4, <2>7, <2>11
    <3>3. ClimbOne(w, GetPeaks) = [pos |-> TreePos(m, h + 1), path |-> Append(w.path, Step(r, FALSE))]
      BY ONLY <1>3, <1>5, <2>9, <3>1, <3>2 DEF ClimbOne, z
    <3>4. Combine(Node(TreePos(q, h)), Step(r, FALSE)) = Node(TreePos(m, h + 1))
      <4>1. Combine(Node(l), Step(r, FALSE)) = HashParent(Node(l), Node(r))
        BY DEF Combine, Step
      <4> QED BY <1>2, <2>8, <3>1, <4>1
    <3> QED BY <1>5, <2>12, <3>3, <3>4
  <2>14. CASE q = 2 * m + 1
    <3>1. w.pos = r /\ ~ IsLeftSibling(w.pos)
      BY <1>2, <2>10, <2>14 DEF r
    <3>2. r - z = l /\ ~ (l >= Len(vNodes)) /\ r + 1 = TreePos(m, h + 1)
      BY ONLY <2>3, <2>4, <2>7, <2>11
    <3>3. ClimbOne(w, GetPeaks) = [pos |-> TreePos(m, h + 1), path |-> Append(w.path, Step(l, TRUE))]
      BY ONLY <1>3, <1>5, <2>9, <3>1, <3>2 DEF ClimbOne, z
    <3>4. Combine(Node(TreePos(q, h)), Step(l, TRUE)) = Node(TreePos(m, h + 1))
      <4>1. Combine(Node(r), Step(l, TRUE)) = HashParent(Node(l), Node(r))
        BY DEF Combine, Step
      <4> QED BY <1>2, <2>8, <3>1, <4>1
    <3> QED BY <1>5, <2>12, <3>3, <3>4
  <2> QED BY <2>1, <2>13, <2>14
<1> QED BY <1>4, <1>5

\* The path of a leaf ends at the mountain that the leaf is in.
LEMMA PathFacts ==
  ASSUME RangeInv, NEW i \in Nat, i < nLeaves
  PROVE  \E h \in Nat : \E r \in Nat :
           /\ Shifted(2 * r, h, i) /\ Shifted(2 * r + 1, h, nLeaves)
           /\ IsSeq(PathToPeak(LeafIndexToPos(i), GetPeaks))
           /\ Len(PathToPeak(LeafIndexToPos(i), GetPeaks)) = h
           /\ PathOK(PathToPeak(LeafIndexToPos(i), GetPeaks), h, i)
<1> DEFINE T == NodeCountForLeaves(nLeaves)
           p == LeafIndexToPos(i)
<1>1. nLeaves \in Nat /\ Len(vNodes) = T
  BY DEF RangeInv, WellFormed
<1>2. T \in Nat
  BY <1>1, NodeCountNext
<1>3. PICK s : ClimbRun(s, p, GetPeaks, T)
  <2> HIDE DEF T, p
  <2> DEFINE pk == GetPeaks
  <2> HIDE DEF pk
  <2>1. \E s : ClimbRun(s, p, pk, T)
    BY ONLY <1>1, <1>2, PathRounds, Zenon
  <2> QED BY <2>1 DEF pk
<1> DEFINE J(k) == \E h \in Nat : \E q \in Nat : WalkAt(s[k], q, h, i) /\ (Arrived(q, h) \/ h = k)
           S == {k \in Nat : k <= T => J(k)}
<1>4. 0 \in S
  <2>1. FirstLeaf(i, 0) = i /\ Pow2[0] = 1
    BY FirstLeafFacts, Pow2Facts
  <2>2. FirstLeaf(i + 1, 0) = i + 1
    BY ONLY i + 1 \in Nat, 0 \in Nat, FirstLeafFacts
  <2>3. TreePos(i, 0) = p
    BY TreePosFacts, NodeCountNext
  <2> DEFINE w == [pos |-> p, path |-> << >>]
  <2>4. w.pos = p /\ w.path = << >> /\ IsSeq(<< >>) /\ Len(<< >>) = 0
    BY DEF IsSeq
  <2>5. PathOK(<< >>, 0, i)
    BY DEF PathOK
  <2>6. Shifted(i, 0, i)
    BY ONLY i \in Nat, <2>1 DEF Shifted
  <2>7. FirstLeaf(i + 1, 0) <= nLeaves
    BY <1>1, <2>2
  <2> HIDE DEF w, p
  <2>8. WalkAt(w, i, 0, i)
    BY ONLY <2>3, <2>4, <2>5, <2>6, <2>7 DEF WalkAt
  <2>9. WalkAt(s[0], i, 0, i)
    BY ONLY <1>3, <2>8 DEF w, ClimbRun
  <2> QED BY <2>9
<1>5. ASSUME NEW k \in Nat, k \in S PROVE k + 1 \in S
  <2>1. ASSUME k + 1 <= T PROVE J(k + 1)
    <3>1. k < T /\ k <= T
      BY <1>2, <2>1
    <3>2. PICK h \in Nat : \E q \in Nat : WalkAt(s[k], q, h, i) /\ (Arrived(q, h) \/ h = k)
      BY <1>5, <3>1
    <3>3. PICK q \in Nat : WalkAt(s[k], q, h, i) /\ (Arrived(q, h) \/ h = k)
      BY <3>2
    <3>4. s[k + 1] = ClimbOne(s[k], GetPeaks)
      BY ONLY <1>3, <3>1, k \in Nat DEF ClimbRun
    <3>5. IF Arrived(q, h) THEN ClimbOne(s[k], GetPeaks) = s[k]
          ELSE \E m \in Nat : WalkAt(ClimbOne(s[k], GetPeaks), m, h + 1, i)
      BY ONLY RangeInv, i \in Nat, h \in Nat, q \in Nat, <3>3, ClimbStep
    <3>6. CASE Arrived(q, h)
      BY ONLY <3>3, <3>4, <3>5, <3>6, h \in Nat, q \in Nat
    <3>7. CASE ~ Arrived(q, h)
      <4>1. PICK m \in Nat : WalkAt(s[k + 1], m, h + 1, i)
        BY <3>4, <3>5, <3>7
      <4>2. h + 1 = k + 1 /\ h + 1 \in Nat
        BY <3>3, <3>7
      <4> QED BY ONLY <4>1, <4>2, m \in Nat
    <3> QED BY <3>6, <3>7
  <2> QED BY <2>1
<1> HIDE DEF S
<1>6. T \in S
  BY <1>2, <1>4, <1>5, StepSet
<1>7. J(T)
  BY <1>2, <1>6 DEF S
<1>8. PICK h \in Nat : \E q \in Nat : WalkAt(s[T], q, h, i) /\ (Arrived(q, h) \/ h = T)
  BY <1>7
<1>9. PICK q \in Nat : WalkAt(s[T], q, h, i) /\ (Arrived(q, h) \/ h = T)
  BY <1>8
<1>10. h # T
  <2>1. FirstLeaf(q + 1, h) <= nLeaves
    BY <1>9 DEF WalkAt
  <2>2. TreePos(q, h) < NodeCountForLeaves(nLeaves)
    BY ONLY <1>1, <2>1, q \in Nat, h \in Nat, TreePosBound
  <2>3. h <= TreePos(q, h) /\ TreePos(q, h) \in Nat
    BY ONLY q \in Nat, h \in Nat, TreePosHigh, TreePosFacts
  <2> QED BY ONLY <1>2, <2>2, <2>3, h \in Nat
<1>11. PICK r \in Nat : q = 2 * r /\ Shifted(2 * r + 1, h, nLeaves)
  BY <1>9, <1>10 DEF Arrived
<1>12. /\ Shifted(2 * r, h, i) /\ Shifted(2 * r + 1, h, nLeaves)
       /\ IsSeq(s[T].path) /\ Len(s[T].path) = h /\ PathOK(s[T].path, h, i)
  BY ONLY <1>9, <1>11 DEF WalkAt
<1> HIDE DEF T, p
<1>13. /\ IsSeq(PathToPeak(p, GetPeaks))
       /\ Len(PathToPeak(p, GetPeaks)) = h
       /\ PathOK(PathToPeak(p, GetPeaks), h, i)
  BY ONLY <1>3, <1>12 DEF ClimbRun
<1> QED BY ONLY <1>12, <1>13, h \in Nat, r \in Nat DEF p

\* A higher mountain is before a lower one.
LEMMA MountainOrder ==
  ASSUME NEW n \in Nat, NEW f \in Nat, NEW r \in Nat, Shifted(2 * r + 1, f, n)
  PROVE  \A d \in Nat : \A p \in Nat : Shifted(p, f + 1 + d, n) =>
           FirstLeaf(p, f + 1 + d) <= FirstLeaf(2 * r, f) /\ PopCount[p] <= PopCount[r]
<1> DEFINE S == {d \in Nat : \A p \in Nat : Shifted(p, f + 1 + d, n) =>
                   FirstLeaf(p, f + 1 + d) <= FirstLeaf(2 * r, f) /\ PopCount[p] <= PopCount[r]}
<1>0. FirstLeaf(2 * r, f) \in Nat /\ PopCount[r] \in Nat
  BY ONLY 2 * r \in Nat, r \in Nat, f \in Nat, FirstLeafFacts, PopCountBound
<1>1. 0 \in S
  <2>1. ASSUME NEW p \in Nat, Shifted(p, f + 1, n)
        PROVE  FirstLeaf(p, f + 1) <= FirstLeaf(2 * r, f) /\ PopCount[p] <= PopCount[r]
    <3>1. Shifted(r, f + 1, n)
      BY ShiftedUp
    <3>2. p = r
      BY ONLY n \in Nat, f + 1 \in Nat, p \in Nat, r \in Nat, <2>1, <3>1, ShiftedUnique
    <3>3. FirstLeaf(2 * r, f) = FirstLeaf(r, f + 1)
      BY FirstLeafFacts
    <3> QED BY ONLY <1>0, <3>2, <3>3
  <2>2. f + 1 + 0 = f + 1
    OBVIOUS
  <2> QED BY <2>1, <2>2
<1>2. ASSUME NEW d \in Nat, d \in S PROVE d + 1 \in S
  <2> DEFINE g == f + 1 + d
  <2>1. g \in Nat /\ f + 1 + (d + 1) = g + 1
    OBVIOUS
  <2>2. \A p \in Nat : Shifted(p, g, n) => FirstLeaf(p, g) <= FirstLeaf(2 * r, f) /\ PopCount[p] <= PopCount[r]
    BY <1>2
  <2> HIDE DEF g
  <2>3. ASSUME NEW p \in Nat, Shifted(p, g + 1, n)
        PROVE  FirstLeaf(p, g + 1) <= FirstLeaf(2 * r, f) /\ PopCount[p] <= PopCount[r]
    <3>1. /\ Shifted(2 * p, g, n) \/ Shifted(2 * p + 1, g, n)
          /\ FirstLeaf(2 * p, g) = FirstLeaf(p, g + 1)
          /\ FirstLeaf(2 * p + 1, g) = FirstLeaf(p, g + 1) + Pow2[g]
          /\ FirstLeaf(p, g + 1) \in Nat
      BY ONLY <2>1, <2>3, n \in Nat, p \in Nat, ShiftedFacts
    <3>2. Pow2[g] \in Nat
      BY <2>1, SizeFacts
    <3>3. PopCount[2 * p] = PopCount[p] /\ PopCount[2 * p + 1] = PopCount[p] + 1 /\ PopCount[p] \in Nat
      BY BitFacts
    <3>4. CASE Shifted(2 * p, g, n)
      <4>1. FirstLeaf(2 * p, g) <= FirstLeaf(2 * r, f) /\ PopCount[2 * p] <= PopCount[r]
        BY ONLY <2>2, <3>4, 2 * p \in Nat
      <4> QED BY ONLY <3>1, <3>3, <4>1
    <3>5. CASE Shifted(2 * p + 1, g, n)
      <4>1. FirstLeaf(2 * p + 1, g) <= FirstLeaf(2 * r, f) /\ PopCount[2 * p + 1] <= PopCount[r]
        BY ONLY <2>2, <3>5, 2 * p + 1 \in Nat
      <4> QED BY ONLY <1>0, <3>1, <3>2, <3>3, <4>1
    <3> QED BY <3>1, <3>4, <3>5
  <2> QED BY <2>1, <2>3
<1> HIDE DEF S
<1>3. \A d \in Nat : d \in S
  BY <1>1, <1>2, StepSet
<1> QED BY <1>3 DEF S

\* The order of the mountains is that of their leaves.
LEMMA MountainsOrdered ==
  ASSUME NEW n \in Nat, NEW f \in Nat, NEW r \in Nat, Shifted(2 * r + 1, f, n),
         NEW g \in Nat, NEW p \in Nat, Shifted(2 * p + 1, g, n), PopCount[p] <= PopCount[r]
  PROVE  (p = r /\ g = f) \/ (PopCount[p] < PopCount[r] /\ FirstLeaf(2 * p + 1, g) <= FirstLeaf(2 * r, f))
<1>0. PopCount[p] \in Nat /\ PopCount[r] \in Nat
  BY PopCountBound
<1>1. CASE g = f
  <2>1. 2 * p + 1 = 2 * r + 1
    BY ONLY <1>1, n \in Nat, f \in Nat, 2 * p + 1 \in Nat, 2 * r + 1 \in Nat,
            Shifted(2 * r + 1, f, n), Shifted(2 * p + 1, g, n), ShiftedUnique
  <2> QED BY <1>1, <2>1
<1>2. CASE g > f
  <2>1. g - (f + 1) \in Nat /\ f + 1 + (g - (f + 1)) = g
    BY <1>2
  <2>2. \A d \in Nat : \A a \in Nat : Shifted(a, f + 1 + d, n) =>
           FirstLeaf(a, f + 1 + d) <= FirstLeaf(2 * r, f) /\ PopCount[a] <= PopCount[r]
    BY ONLY n \in Nat, f \in Nat, r \in Nat, Shifted(2 * r + 1, f, n), MountainOrder
  <2>3. \A a \in Nat : Shifted(a, g, n) => FirstLeaf(a, g) <= FirstLeaf(2 * r, f) /\ PopCount[a] <= PopCount[r]
    BY ONLY <2>1, <2>2, Zenon
  <2>4. FirstLeaf(2 * p + 1, g) <= FirstLeaf(2 * r, f) /\ PopCount[2 * p + 1] <= PopCount[r]
    BY ONLY <2>3, 2 * p + 1 \in Nat, Shifted(2 * p + 1, g, n)
  <2>5. PopCount[2 * p + 1] = PopCount[p] + 1
    BY BitFacts
  <2> QED BY ONLY <1>0, <2>4, <2>5
<1>3. CASE g < f
  <2>1. f - (g + 1) \in Nat /\ g + 1 + (f - (g + 1)) = f
    BY <1>3
  <2>2. \A d \in Nat : \A a \in Nat : Shifted(a, g + 1 + d, n) =>
           FirstLeaf(a, g + 1 + d) <= FirstLeaf(2 * p, g) /\ PopCount[a] <= PopCount[p]
    BY ONLY n \in Nat, g \in Nat, p \in Nat, Shifted(2 * p + 1, g, n), MountainOrder
  <2>3. \A a \in Nat : Shifted(a, f, n) => PopCount[a] <= PopCount[p]
    BY ONLY <2>1, <2>2, Zenon
  <2>4. PopCount[2 * r + 1] <= PopCount[p]
    BY ONLY <2>3, 2 * r + 1 \in Nat, Shifted(2 * r + 1, f, n)
  <2>5. PopCount[2 * r + 1] = PopCount[r] + 1
    BY BitFacts
  <2> QED BY ONLY <1>0, <2>4, <2>5, PopCount[p] <= PopCount[r]
<1> QED BY <1>1, <1>2, <1>3

\* The search of GetProof finds the mountain of the leaf.
LEMMA MyPeak ==
  ASSUME nLeaves \in Nat, NEW i \in Nat, NEW h \in Nat, NEW r \in Nat,
         Shifted(2 * r, h, i), Shifted(2 * r + 1, h, nLeaves)
  PROVE  \A k \in 1 .. Len(GetPeaks) :
           i \in Mountains[k].first .. Mountains[k].first + Mountains[k].size - 1 <=> k = PopCount[r] + 1
<1>1. SUFFICES ASSUME NEW k \in 1 .. Len(GetPeaks)
               PROVE  i \in Mountains[k].first .. Mountains[k].first + Mountains[k].size - 1
                        <=> k = PopCount[r] + 1
  OBVIOUS
<1>2. k \in 1 .. Len(Mountains) /\ MountainsFrom(Mountains, 0, nLeaves)
  BY MountainFacts, PeakFacts
<1>3. PICK g \in Nat : \E p \in Nat : Shifted(2 * p + 1, g, nLeaves) /\ k = PopCount[p] + 1
  BY <1>2 DEF MountainsFrom
<1>4. PICK p \in Nat : Shifted(2 * p + 1, g, nLeaves) /\ k = PopCount[p] + 1
  BY <1>3
<1>5. Mountains[k] = MountainAt(p, g)
  BY <1>2, <1>4 DEF MountainsFrom
<1>6. Mountains[k].first = FirstLeaf(2 * p, g) /\ Mountains[k].size = Pow2[g]
  BY <1>5 DEF MountainAt
<1>7. /\ FirstLeaf(2 * p + 1, g) = FirstLeaf(2 * p, g) + Pow2[g] /\ FirstLeaf(2 * p, g) \in Nat
      /\ FirstLeaf(2 * r + 1, h) = FirstLeaf(2 * r, h) + Pow2[h] /\ FirstLeaf(2 * r, h) \in Nat
  BY ONLY 2 * p \in Nat, 2 * r \in Nat, g \in Nat, h \in Nat, FirstLeafFacts
<1>8. Pow2[g] \in Nat /\ Pow2[h] \in Nat /\ PopCount[p] \in Nat /\ PopCount[r] \in Nat
  BY SizeFacts, PopCountBound
<1>9. i \in Mountains[k].first .. Mountains[k].first + Mountains[k].size - 1
        <=> FirstLeaf(2 * p, g) <= i /\ i < FirstLeaf(2 * p + 1, g)
  <2> DEFINE a == FirstLeaf(2 * p, g)
             s == Pow2[g]
  <2>1. a \in Nat /\ s \in Nat /\ FirstLeaf(2 * p + 1, g) = a + s
    BY <1>7, <1>8
  <2>2. Mountains[k].first = a /\ Mountains[k].size = s
    BY <1>6
  <2> HIDE DEF a, s
  <2>3. i \in a .. a + s - 1 <=> a <= i /\ i < a + s
    BY ONLY <2>1, i \in Nat
  <2> QED BY ONLY <2>1, <2>2, <2>3 DEF a
<1>10. FirstLeaf(2 * r, h) <= i /\ i < FirstLeaf(2 * r + 1, h)
  BY ONLY <1>7, Shifted(2 * r, h, i) DEF Shifted
<1>11. CASE PopCount[p] <= PopCount[r]
  <2>1. (p = r /\ g = h) \/ (PopCount[p] < PopCount[r] /\ FirstLeaf(2 * p + 1, g) <= FirstLeaf(2 * r, h))
    BY ONLY nLeaves \in Nat, h \in Nat, r \in Nat, g \in Nat, p \in Nat, Shifted(2 * r + 1, h, nLeaves),
            <1>4, <1>11, MountainsOrdered
  <2>2. CASE p = r /\ g = h
    BY ONLY <1>4, <1>9, <1>10, <2>2
  <2>3. CASE PopCount[p] < PopCount[r] /\ FirstLeaf(2 * p + 1, g) <= FirstLeaf(2 * r, h)
    <3>1. ~ (FirstLeaf(2 * p, g) <= i /\ i < FirstLeaf(2 * p + 1, g))
      BY ONLY <1>7, <1>8, <1>10, <2>3, i \in Nat, SMTT(30)
    <3>2. k # PopCount[r] + 1
      BY ONLY <1>4, <1>8, <2>3
    <3> QED BY ONLY <1>9, <3>1, <3>2
  <2> QED BY <2>1, <2>2, <2>3
<1>12. CASE ~ (PopCount[p] <= PopCount[r])
  <2>1. PopCount[r] <= PopCount[p]
    BY ONLY <1>8, <1>12
  <2>2. (r = p /\ h = g) \/ (PopCount[r] < PopCount[p] /\ FirstLeaf(2 * r + 1, h) <= FirstLeaf(2 * p, g))
    BY ONLY nLeaves \in Nat, h \in Nat, r \in Nat, g \in Nat, p \in Nat, Shifted(2 * r + 1, h, nLeaves),
            <1>4, <2>1, MountainsOrdered
  <2>3. FirstLeaf(2 * r + 1, h) <= FirstLeaf(2 * p, g)
    BY ONLY <1>8, <1>12, <2>2
  <2>4. ~ (FirstLeaf(2 * p, g) <= i /\ i < FirstLeaf(2 * p + 1, g))
    BY ONLY <1>7, <1>8, <1>10, <2>3, i \in Nat, SMTT(30)
  <2>5. k # PopCount[r] + 1
    BY ONLY <1>4, <1>8, <1>12
  <2> QED BY ONLY <1>9, <2>4, <2>5
<1> QED BY <1>11, <1>12

\* What the concatenation of two sequences holds.
LEMMA ConcatSeq ==
  ASSUME NEW s, NEW t, IsSeq(s), IsSeq(t)
  PROVE  /\ IsSeq(s \o t)
         /\ Len(s) \in Nat /\ Len(t) \in Nat
         /\ Len(s \o t) = Len(s) + Len(t)
         /\ \A k \in 1 .. Len(s) : (s \o t)[k] = s[k]
         /\ \A k \in 1 .. Len(t) : (s \o t)[Len(s) + k] = t[k]
<1>1. PICK S : s \in Seq(S)
  BY DEF IsSeq
<1>2. PICK U : t \in Seq(U)
  BY DEF IsSeq
<1>3. s \in Seq(S \cup U) /\ t \in Seq(S \cup U)
  BY <1>1, <1>2
<1>4. s \o t \in Seq(S \cup U)
  BY <1>3
<1>5. Len(s) \in Nat /\ Len(t) \in Nat /\ Len(s \o t) = Len(s) + Len(t)
  BY <1>3
<1>6. ASSUME NEW k \in 1 .. Len(s) PROVE (s \o t)[k] = s[k]
  BY <1>3, <1>5
<1>7. ASSUME NEW k \in 1 .. Len(t) PROVE (s \o t)[Len(s) + k] = t[k]
  BY <1>3, <1>5
<1> QED BY <1>4, <1>5, <1>6, <1>7 DEF IsSeq

\* A function on 1 .. n is a sequence of length n.
LEMMA FunctionSeq ==
  ASSUME NEW n \in Nat, NEW f, f = [k \in 1 .. n |-> f[k]]
  PROVE  IsSeq(f) /\ Len(f) = n
<1>1. f \in Seq({f[k] : k \in 1 .. n})
  OBVIOUS
<1>2. Len(f) = n
  BY <1>1
<1> QED BY <1>1, <1>2 DEF IsSeq

\* The proof of leaf i, in the mountain my of height h: the path, the later peaks
\* from the last one on, the earlier peaks from the nearest one on.
ProofShape(proof, h, my, i) ==
  /\ Len(proof) = h + (Len(GetPeaks) - my) + (my - 1)
  /\ PathOK(proof, h, i)
  /\ \A k \in Nat : k < Len(GetPeaks) - my => proof[h + k + 1] = Step(GetPeaks[Len(GetPeaks) - k], FALSE)
  /\ \A k \in Nat : k < my - 1 =>
       proof[h + (Len(GetPeaks) - my) + k + 1] = Step(GetPeaks[my - 1 - k], TRUE)

\* GetProof makes a proof of that shape.
LEMMA ProofFacts ==
  ASSUME RangeInv, NEW i \in Nat, i < nLeaves
  PROVE  \E h \in Nat : \E r \in Nat :
           /\ Shifted(2 * r, h, i) /\ Shifted(2 * r + 1, h, nLeaves)
           /\ ProofShape(GetProof(i), h, PopCount[r] + 1, i)
<1>1. nLeaves \in Nat /\ Len(vNodes) = NodeCountForLeaves(nLeaves)
  BY DEF RangeInv, WellFormed
<1> DEFINE path == PathToPeak(LeafIndexToPos(i), GetPeaks)
<1>2. PICK h \in Nat : \E r \in Nat :
        /\ Shifted(2 * r, h, i) /\ Shifted(2 * r + 1, h, nLeaves)
        /\ IsSeq(path) /\ Len(path) = h /\ PathOK(path, h, i)
  BY PathFacts
<1>3. PICK r \in Nat :
        /\ Shifted(2 * r, h, i) /\ Shifted(2 * r + 1, h, nLeaves)
        /\ IsSeq(path) /\ Len(path) = h /\ PathOK(path, h, i)
  BY <1>2
<1> DEFINE m  == Len(GetPeaks)
           my == PopCount[r] + 1
<1>4. m \in Nat /\ my \in 1 .. m /\ DOMAIN GetPeaks = 1 .. m
  BY <1>1, <1>3, PeakFacts, PeakIndices
<1>5. my = CHOOSE k \in DOMAIN GetPeaks :
              i \in Mountains[k].first .. Mountains[k].first + Mountains[k].size - 1
  <2> DEFINE Here(k) == i \in Mountains[k].first .. Mountains[k].first + Mountains[k].size - 1
  <2>1. \A k \in 1 .. Len(GetPeaks) : Here(k) <=> k = PopCount[r] + 1
    BY ONLY <1>1, <1>3, i \in Nat, h \in Nat, r \in Nat, MyPeak
  <2> HIDE DEF Here
  <2>2. \A k \in 1 .. m : Here(k) <=> k = my
    BY <2>1
  <2> HIDE DEF my, m
  <2>3. my = CHOOSE k \in DOMAIN GetPeaks : Here(k)
    BY ONLY <1>4, <2>2
  <2> QED BY <2>3 DEF Here
<1>6. ~ (i >= nLeaves \/ LeafIndexToPos(i) >= Len(vNodes))
  <2>1. NodeCountForLeaves(i) + 1 \in 1 .. NodeCountForLeaves(nLeaves)
    BY ONLY <1>1, i \in Nat, i < nLeaves, LeafWithin
  <2>2. LeafIndexToPos(i) = NodeCountForLeaves(i) /\ NodeCountForLeaves(i) \in Nat
    BY NodeCountNext
  <2>3. NodeCountForLeaves(nLeaves) \in Nat
    BY <1>1, NodeCountNext
  <2> QED BY ONLY <1>1, <2>1, <2>2, <2>3, i \in Nat, i < nLeaves
<1> DEFINE right == [k \in 1 .. m - my |-> Step(GetPeaks[m + 1 - k], FALSE)]
           left  == [k \in 1 .. my - 1 |-> Step(GetPeaks[my - k], TRUE)]
           proof == (path \o right) \o left
<1>7. GetProof(i) = proof
  <2> HIDE DEF my
  <2> DEFINE c == CHOOSE k \in DOMAIN GetPeaks :
                    i \in Mountains[k].first .. Mountains[k].first + Mountains[k].size - 1
             R(y) == [k \in 1 .. m - y |-> Step(GetPeaks[m + 1 - k], FALSE)]
             L(y) == [k \in 1 .. y - 1 |-> Step(GetPeaks[y - k], TRUE)]
  <2>1. GetProof(i) = (path \o R(c)) \o L(c)
    BY ONLY <1>6 DEF GetProof
  <2>2. my = c
    BY ONLY <1>5
  <2> HIDE DEF c
  <2>3. GetProof(i) = (path \o R(my)) \o L(my)
    BY ONLY <2>1, <2>2
  <2> QED BY ONLY <2>3
<1> HIDE DEF path, my, m
<1>8. IsSeq(right) /\ Len(right) = m - my /\ m - my \in Nat
  <2>1. m - my \in Nat /\ right = [k \in 1 .. m - my |-> right[k]]
    BY <1>4
  <2> HIDE DEF right
  <2> QED BY ONLY <2>1, FunctionSeq
<1>9. IsSeq(left) /\ Len(left) = my - 1 /\ my - 1 \in Nat
  <2>1. my - 1 \in Nat /\ left = [k \in 1 .. my - 1 |-> left[k]]
    BY <1>4
  <2> HIDE DEF left
  <2> QED BY ONLY <2>1, FunctionSeq
<1>10. /\ \A k \in Nat : k < m - my => right[k + 1] = Step(GetPeaks[m - k], FALSE)
       /\ \A k \in Nat : k < my - 1 => left[k + 1] = Step(GetPeaks[my - 1 - k], TRUE)
  <2>1. ASSUME NEW k \in Nat, k < m - my PROVE right[k + 1] = Step(GetPeaks[m - k], FALSE)
    <3>1. k + 1 \in 1 .. m - my /\ m + 1 - (k + 1) = m - k
      BY <1>4, <2>1
    <3> QED BY ONLY <3>1
  <2>2. ASSUME NEW k \in Nat, k < my - 1 PROVE left[k + 1] = Step(GetPeaks[my - 1 - k], TRUE)
    <3>1. k + 1 \in 1 .. my - 1 /\ my - (k + 1) = my - 1 - k
      BY <1>4, <2>2
    <3> QED BY ONLY <3>1
  <2> QED BY <2>1, <2>2
<1> HIDE DEF right, left
<1>11. /\ IsSeq(path \o right) /\ Len(path \o right) = h + (m - my)
       /\ \A k \in 1 .. h : (path \o right)[k] = path[k]
       /\ \A k \in 1 .. m - my : (path \o right)[h + k] = right[k]
  BY ONLY <1>3, <1>8, ConcatSeq
<1> DEFINE front == path \o right
<1> HIDE DEF front
<1>12. /\ Len(proof) = h + (m - my) + (my - 1)
       /\ \A k \in 1 .. h + (m - my) : proof[k] = front[k]
       /\ \A k \in 1 .. my - 1 : proof[h + (m - my) + k] = left[k]
  <2>1. IsSeq(front) /\ Len(front) = h + (m - my)
    BY <1>11 DEF front
  <2>2. /\ Len(front \o left) = (h + (m - my)) + (my - 1)
        /\ \A k \in 1 .. h + (m - my) : (front \o left)[k] = front[k]
        /\ \A k \in 1 .. my - 1 : (front \o left)[(h + (m - my)) + k] = left[k]
    BY ONLY <1>9, <2>1, ConcatSeq
  <2> QED BY ONLY <2>2 DEF front
<1>13. /\ \A k \in 1 .. h : proof[k] = path[k]
       /\ \A k \in 1 .. m - my : proof[h + k] = right[k]
  <2> HIDE DEF proof
  <2>1. \A k \in 1 .. h : k \in 1 .. h + (m - my)
    BY ONLY <1>8, h \in Nat
  <2>2. \A k \in 1 .. m - my : h + k \in 1 .. h + (m - my)
    BY ONLY <1>8, h \in Nat
  <2> QED BY ONLY <1>11, <1>12, <2>1, <2>2, Zenon DEF front
<1> HIDE DEF proof
<1>14. PathOK(proof, h, i)
  <2>1. ASSUME NEW k \in Nat, NEW a \in Nat, NEW b \in Nat, k < h, Shifted(a, k, i), Shifted(b, k + 1, i)
        PROVE  Combine(Node(TreePos(a, k)), proof[k + 1]) = Node(TreePos(b, k + 1))
    <3>1. k + 1 \in 1 .. h
      BY ONLY <2>1, h \in Nat
    <3>2. proof[k + 1] = path[k + 1]
      BY ONLY <1>13, <3>1
    <3>3. Combine(Node(TreePos(a, k)), path[k + 1]) = Node(TreePos(b, k + 1))
      BY ONLY <1>3, <2>1 DEF PathOK
    <3> QED BY ONLY <3>2, <3>3
  <2> QED BY <2>1 DEF PathOK
<1>15. ASSUME NEW k \in Nat, k < m - my PROVE proof[h + k + 1] = Step(GetPeaks[m - k], FALSE)
  <2>1. k + 1 \in 1 .. m - my /\ h + (k + 1) = h + k + 1
    BY <1>8, <1>15
  <2>2. proof[h + (k + 1)] = right[k + 1]
    BY ONLY <1>13, <2>1
  <2> QED BY ONLY <1>10, <1>15, <2>1, <2>2
<1>16. ASSUME NEW k \in Nat, k < my - 1 PROVE proof[h + (m - my) + k + 1] = Step(GetPeaks[my - 1 - k], TRUE)
  <2>1. k + 1 \in 1 .. my - 1 /\ h + (m - my) + (k + 1) = h + (m - my) + k + 1
    BY <1>8, <1>9, <1>16
  <2>2. proof[h + (m - my) + (k + 1)] = left[k + 1]
    BY ONLY <1>12, <2>1
  <2> QED BY ONLY <1>10, <1>16, <2>1, <2>2
<1>17. ProofShape(proof, h, my, i)
  BY ONLY <1>12, <1>14, <1>15, <1>16 DEF ProofShape, m
<1>18. ProofShape(GetProof(i), h, PopCount[r] + 1, i)
  BY ONLY <1>7, <1>17 DEF my
<1> QED BY ONLY <1>3, <1>18, h \in Nat, r \in Nat

\* A hash determines what it was made from.
LEMMA HashParts ==
  ASSUME NEW a, NEW b, NEW c, NEW d
  PROVE  /\ HashParent(a, b) = HashParent(c, d) => a = c /\ b = d
         /\ HashLeaf(a) # HashParent(c, d)
         /\ HashLeaf(a) = HashLeaf(b) => a = b
<1>1. ASSUME HashParent(a, b) = HashParent(c, d) PROVE a = c /\ b = d
  <2> DEFINE s == HashParent(a, b)
             t == HashParent(c, d)
  <2>1. s[2] = a /\ s[3] = b /\ t[2] = c /\ t[3] = d
    BY DEF HashParent
  <2> QED BY <1>1, <2>1
<1>2. HashLeaf(a) # HashParent(c, d)
  <2>1. Len(HashLeaf(a)) = 2 /\ Len(HashParent(c, d)) = 3
    BY DEF HashLeaf, HashParent
  <2> QED BY <2>1
<1>3. ASSUME HashLeaf(a) = HashLeaf(b) PROVE a = b
  <2>1. HashLeaf(a)[2] = a /\ HashLeaf(b)[2] = b
    BY DEF HashLeaf
  <2> QED BY <1>3, <2>1
<1> QED BY <1>1, <1>2, <1>3

\* A round of VerifyProof tells two hashes apart.
LEMMA CombineParts ==
  ASSUME NEW a, NEW c, NEW s, Combine(a, s) = Combine(c, s)
  PROVE  a = c
<1>1. CASE s.side
  <2>1. HashParent(s.hash, a) = HashParent(s.hash, c)
    BY <1>1 DEF Combine
  <2> QED BY <2>1, HashParts
<1>2. CASE ~ s.side
  <2>1. HashParent(a, s.hash) = HashParent(c, s.hash)
    BY <1>2 DEF Combine
  <2> QED BY <2>1, HashParts
<1> QED BY <1>1, <1>2

\* The hash at a node is not the left part of itself.
LEMMA NoSelf ==
  ASSUME RangeInv
  PROVE  \A h \in Nat : \A q \in Nat : FirstLeaf(q + 1, h) <= nLeaves =>
           \A y : Node(TreePos(q, h)) # HashParent(Node(TreePos(q, h)), y)
<1>1. nLeaves \in Nat /\ LeavesIn(vNodes, nLeaves) /\ TreesIn(vNodes, nLeaves)
  BY DEF RangeInv, WellFormed
<1> DEFINE N(q, h) == \A y : Node(TreePos(q, h)) # HashParent(Node(TreePos(q, h)), y)
           S == {h \in Nat : \A q \in Nat : FirstLeaf(q + 1, h) <= nLeaves => N(q, h)}
<1>2. 0 \in S
  <2>1. ASSUME NEW q \in Nat, FirstLeaf(q + 1, 0) <= nLeaves, NEW y
        PROVE  Node(TreePos(q, 0)) # HashParent(Node(TreePos(q, 0)), y)
    <3>1. FirstLeaf(q + 1, 0) = q + 1
      BY ONLY q + 1 \in Nat, 0 \in Nat, FirstLeafFacts
    <3>2. q < nLeaves
      BY <1>1, <2>1, <3>1
    <3>3. TreePos(q, 0) = NodeCountForLeaves(q)
      BY TreePosFacts
    <3>4. PICK x \in Leaf : Node(TreePos(q, 0)) = HashLeaf(x)
      BY <1>1, <3>2, <3>3 DEF LeavesIn, Node
    <3> QED BY <3>4, HashParts
  <2> QED BY <2>1
<1>3. ASSUME NEW h \in Nat, h \in S PROVE h + 1 \in S
  <2>1. ASSUME NEW q \in Nat, FirstLeaf(q + 1, h + 1) <= nLeaves, NEW y,
               Node(TreePos(q, h + 1)) = HashParent(Node(TreePos(q, h + 1)), y)
        PROVE  FALSE
    <3> DEFINE l == Node(TreePos(2 * q, h))
               r == Node(TreePos(2 * q + 1, h))
    <3>1. Node(TreePos(q, h + 1)) = HashParent(l, r)
      BY ONLY <1>1, <2>1, q \in Nat, h \in Nat DEF TreesIn, Node
    <3>2. HashParent(l, r) = HashParent(HashParent(l, r), y)
      BY ONLY <2>1, <3>1
    <3>3. FirstLeaf(2 * q + 1, h) <= nLeaves
      <4>1. /\ FirstLeaf((2 * q + 1) + 1, h) = FirstLeaf(2 * q + 1, h) + Pow2[h]
            /\ FirstLeaf(2 * q + 1, h) \in Nat
        BY ONLY 2 * q + 1 \in Nat, h \in Nat, FirstLeafFacts
      <4>2. FirstLeaf(2 * (q + 1), h) = FirstLeaf(q + 1, h + 1)
        BY ONLY q + 1 \in Nat, h \in Nat, FirstLeafFacts
      <4>3. 2 * (q + 1) = (2 * q + 1) + 1
        OBVIOUS
      <4>4. Pow2[h] \in Nat
        BY SizeFacts
      <4>5. FirstLeaf((2 * q + 1) + 1, h) <= nLeaves
        BY ONLY <2>1, <4>2, <4>3
      <4> QED BY ONLY <1>1, <4>1, <4>4, <4>5
    <3>4. N(2 * q, h)
      BY <1>3, <3>3
    <3> HIDE DEF l, r
    <3>5. l = HashParent(l, r)
      BY ONLY <3>2, HashParts
    <3> QED BY <3>4, <3>5 DEF l
  <2> QED BY <2>1
<1> HIDE DEF S
<1>4. \A h \in Nat : h \in S
  BY <1>2, <1>3, StepSet
<1> QED BY <1>4 DEF S

\* Along the path the proof has the hashes of the trees over the leaf exactly if
\* it started with that of the leaf.
LEMMA PathDecides ==
  ASSUME NEW i \in Nat, NEW h \in Nat, NEW proof, PathOK(proof, h, i), NEW c,
         \A k \in Nat : k < h => c[k + 1] = Combine(c[k], proof[k + 1])
  PROVE  \A k \in Nat : k <= h => \A a \in Nat : Shifted(a, k, i) =>
           (c[k] = Node(TreePos(a, k)) <=> c[0] = Node(TreePos(i, 0)))
<1> DEFINE D(a, k) == c[k] = Node(TreePos(a, k)) <=> c[0] = Node(TreePos(i, 0))
           S == {k \in Nat : k <= h => \A a \in Nat : Shifted(a, k, i) => D(a, k)}
<1>1. 0 \in S
  <2>1. ASSUME NEW a \in Nat, Shifted(a, 0, i) PROVE D(a, 0)
    <3>1. a = i
      BY ONLY i \in Nat, a \in Nat, 0 \in Nat, <2>1, ShiftedFacts
    <3> QED BY <3>1
  <2> QED BY <2>1
<1>2. ASSUME NEW k \in Nat, k \in S PROVE k + 1 \in S
  <2>1. ASSUME k + 1 <= h, NEW b \in Nat, Shifted(b, k + 1, i) PROVE D(b, k + 1)
    <3>1. k < h /\ k <= h
      BY <2>1
    <3>2. PICK a \in Nat : Shifted(a, k, i)
      <4>1. Shifted(2 * b, k, i) \/ Shifted(2 * b + 1, k, i)
        BY ONLY <2>1, i \in Nat, k \in Nat, b \in Nat, ShiftedFacts
      <4>2. 2 * b \in Nat /\ 2 * b + 1 \in Nat
        OBVIOUS
      <4> QED BY ONLY <4>1, <4>2, Zenon
    <3>3. D(a, k)
      BY <1>2, <3>1, <3>2
    <3>4. c[k + 1] = Combine(c[k], proof[k + 1])
      BY <3>1
    <3>5. Combine(Node(TreePos(a, k)), proof[k + 1]) = Node(TreePos(b, k + 1))
      BY ONLY PathOK(proof, h, i), <2>1, <3>1, <3>2, k \in Nat, a \in Nat, b \in Nat DEF PathOK
    <3>6. c[k + 1] = Node(TreePos(b, k + 1)) <=> c[k] = Node(TreePos(a, k))
      <4> DEFINE u == c[k]
                 v == Node(TreePos(a, k))
                 s == proof[k + 1]
      <4> HIDE DEF u, v, s
      <4>1. Combine(u, s) = Combine(v, s) <=> u = v
        BY ONLY CombineParts
      <4> QED BY ONLY <3>4, <3>5, <4>1 DEF u, v, s
    <3> QED BY <3>3, <3>6
  <2> QED BY <2>1
<1> HIDE DEF S
<1>3. \A k \in Nat : k \in S
  BY <1>1, <1>2, StepSet
<1> QED BY <1>3 DEF S

\* The peaks on the left wrap both sides alike.
LEMMA LeftDecides ==
  ASSUME NEW b, BagOf(b), nLeaves \in Nat, NEW my \in 1 .. Len(GetPeaks), NEW e \in Nat, NEW c,
         \A j \in Nat : j < my - 1 => c[e + j + 1] = HashParent(Node(GetPeaks[my - 1 - j]), c[e + j])
  PROVE  c[e + (my - 1)] = b[1] <=> c[e] = b[my]
<1>0. Len(GetPeaks) \in Nat /\ my \in Nat /\ my >= 1 /\ my <= Len(GetPeaks)
  BY PeakIndices
<1> DEFINE S == {j \in Nat : j <= my - 1 => (c[e + j] = b[my - j] <=> c[e] = b[my])}
<1>1. 0 \in S
  <2>1. e + 0 = e /\ my - 0 = my
    BY <1>0
  <2> QED BY <2>1
<1>2. ASSUME NEW j \in Nat, j \in S PROVE j + 1 \in S
  <2>1. ASSUME j + 1 <= my - 1 PROVE c[e + (j + 1)] = b[my - (j + 1)] <=> c[e] = b[my]
    <3> DEFINE k == my - 1 - j
    <3>1. j < my - 1 /\ j <= my - 1 /\ k \in Nat /\ 1 <= k /\ k < Len(GetPeaks) /\ k + 1 = my - j
          /\ e + (j + 1) = e + j + 1 /\ my - (j + 1) = k
      BY <1>0, <2>1
    <3>2. c[e + j] = b[my - j] <=> c[e] = b[my]
      BY <1>2, <3>1
    <3> HIDE DEF k
    <3>3. c[e + j + 1] = HashParent(Node(GetPeaks[k]), c[e + j])
      BY <3>1 DEF k
    <3>4. b[k] = HashParent(Node(GetPeaks[k]), b[k + 1])
      BY ONLY <3>1, BagOf(b) DEF BagOf
    <3>5. c[e + j + 1] = b[k] <=> c[e + j] = b[k + 1]
      <4> DEFINE p == Node(GetPeaks[k])
                 x == c[e + j]
                 y == b[k + 1]
      <4> HIDE DEF p, x, y
      <4>1. HashParent(p, x) = HashParent(p, y) <=> x = y
        BY ONLY HashParts
      <4> QED BY ONLY <3>3, <3>4, <4>1 DEF p, x, y
    <3> QED BY ONLY <3>1, <3>2, <3>5
  <2> QED BY <2>1
<1> HIDE DEF S
<1>3. \A j \in Nat : j \in S
  BY <1>1, <1>2, StepSet
<1>4. my - 1 \in Nat /\ my - 1 <= my - 1 /\ my - (my - 1) = 1
  BY <1>0
<1>5. my - 1 \in S
  BY <1>3, <1>4
<1>6. c[e + (my - 1)] = b[my - (my - 1)] <=> c[e] = b[my]
  BY <1>4, <1>5 DEF S
<1> QED BY ONLY <1>4, <1>6

\* Right of the mountain: the last or the last but one has what the bag has, an
\* earlier one never.
LEMMA RightDecides ==
  ASSUME RangeInv, NEW b, BagOf(b), NEW my \in 1 .. Len(GetPeaks), NEW h \in Nat, NEW c,
         \A k \in Nat : k < Len(GetPeaks) - my =>
           c[h + k + 1] = HashParent(c[h + k], Node(GetPeaks[Len(GetPeaks) - k]))
  PROVE  c[h + (Len(GetPeaks) - my)] = b[my] <=>
           my >= Len(GetPeaks) - 1 /\ c[h] = Node(GetPeaks[my])
<1> DEFINE m == Len(GetPeaks)
<1>0. nLeaves \in Nat
  BY DEF RangeInv
<1>1. m \in Nat /\ my \in Nat /\ my >= 1 /\ my <= m
  BY <1>0, PeakIndices
<1>2. b[m] = Node(GetPeaks[m])
  BY DEF BagOf
<1>3. \A k \in Nat : 1 <= k /\ k < m => b[k] = HashParent(Node(GetPeaks[k]), b[k + 1])
  BY DEF BagOf
<1>4. \A k \in Nat : k < m - my => c[h + k + 1] = HashParent(c[h + k], Node(GetPeaks[m - k]))
  OBVIOUS
<1> HIDE DEF m
<1>5. CASE my = m
  <2>1. h + (m - my) = h /\ my >= m - 1
    BY <1>1, <1>5
  <2>2. c[h + (m - my)] = b[my] <=> my >= m - 1 /\ c[h] = Node(GetPeaks[my])
    BY ONLY <1>2, <1>5, <2>1
  <2> QED BY <2>2 DEF m
<1>6. CASE my = m - 1
  <2>1. /\ h + (m - my) = h + 0 + 1 /\ my >= m - 1 /\ 0 < m - my /\ m - 0 = m /\ h + 0 = h
        /\ my + 1 = m /\ my < m
    BY <1>1, <1>6
  <2>2. c[h + 0 + 1] = HashParent(c[h + 0], Node(GetPeaks[m - 0]))
    BY ONLY <1>4, <2>1, 0 \in Nat
  <2>3. b[my] = HashParent(Node(GetPeaks[my]), b[my + 1])
    BY ONLY <1>1, <1>3, <2>1
  <2> DEFINE x == c[h]
             p == Node(GetPeaks[my])
             l == Node(GetPeaks[m])
  <2>4. c[h + (m - my)] = HashParent(x, l) /\ b[my] = HashParent(p, l)
    BY ONLY <1>2, <2>1, <2>2, <2>3
  <2> HIDE DEF x, p, l
  <2>5. HashParent(x, l) = HashParent(p, l) <=> x = p
    BY ONLY HashParts
  <2>6. c[h + (m - my)] = b[my] <=> my >= m - 1 /\ c[h] = Node(GetPeaks[my])
    BY ONLY <2>1, <2>4, <2>5 DEF x, p
  <2> QED BY <2>6 DEF m
<1>7. CASE my < m - 1
  <2> DEFINE k == m - my - 1
  <2>1. /\ k \in Nat /\ k < m - my /\ h + (m - my) = h + k + 1 /\ m - k = my + 1 /\ ~ (my >= m - 1)
        /\ my < m /\ my + 1 \in Nat /\ my + 1 < m /\ 1 <= my + 1 /\ my + 1 \in 1 .. m
    BY <1>1, <1>7
  <2> HIDE DEF k
  <2>2. c[h + k + 1] = HashParent(c[h + k], Node(GetPeaks[m - k]))
    BY ONLY <1>4, <2>1
  <2>3. b[my] = HashParent(Node(GetPeaks[my]), b[my + 1])
    BY ONLY <1>1, <1>3, <2>1
  <2>4. b[my + 1] = HashParent(Node(GetPeaks[my + 1]), b[(my + 1) + 1])
    BY ONLY <1>3, <2>1
  <2>5. \A y : Node(GetPeaks[my + 1]) # HashParent(Node(GetPeaks[my + 1]), y)
    <3>1. PICK g \in Nat : \E q \in Nat :
            Shifted(2 * q + 1, g, nLeaves) /\ GetPeaks[my + 1] = TreePos(2 * q, g)
      BY <1>0, <2>1, PeakFacts DEF m
    <3>2. PICK q \in Nat : Shifted(2 * q + 1, g, nLeaves) /\ GetPeaks[my + 1] = TreePos(2 * q, g)
      BY <3>1
    <3>3. FirstLeaf(2 * q + 1, g) <= nLeaves
      BY <3>2 DEF Shifted
    <3>4. \A y : Node(TreePos(2 * q, g)) # HashParent(Node(TreePos(2 * q, g)), y)
      BY ONLY RangeInv, <3>3, 2 * q \in Nat, g \in Nat, NoSelf
    <3> QED BY ONLY <3>2, <3>4
  <2> DEFINE x == c[h + k]
             l == Node(GetPeaks[my])
             p == Node(GetPeaks[my + 1])
             z == b[(my + 1) + 1]
  <2>6. c[h + (m - my)] = HashParent(x, p) /\ b[my] = HashParent(l, HashParent(p, z))
    BY ONLY <2>1, <2>2, <2>3, <2>4
  <2>7. p # HashParent(p, z)
    BY <2>5
  <2> HIDE DEF x, l, p, z
  <2>8. HashParent(x, p) # HashParent(l, HashParent(p, z))
    BY ONLY <2>7, HashParts
  <2>9. ~ (c[h + (m - my)] = b[my])
    BY ONLY <2>6, <2>8
  <2>10. c[h + (m - my)] = b[my] <=> my >= m - 1 /\ c[h] = Node(GetPeaks[my])
    BY ONLY <2>1, <2>9
  <2> QED BY <2>10 DEF m
<1> QED BY <1>1, <1>5, <1>6, <1>7

\* A proof verifies for its own leaf only, and only in the last two mountains.
LEMMA VerifyDecides ==
  ASSUME RangeInv, NEW i \in Nat, i < nLeaves, NEW h \in Nat, NEW r \in Nat,
         Shifted(2 * r, h, i), Shifted(2 * r + 1, h, nLeaves),
         ProofShape(GetProof(i), h, PopCount[r] + 1, i), NEW x
  PROVE  VerifyProof(GetRoot, x, GetProof(i)) <=>
           PopCount[r] + 1 >= Len(GetPeaks) - 1 /\ x = Leaves[i + 1]
<1> DEFINE my == PopCount[r] + 1
           m  == Len(GetPeaks)
           e  == h + (m - my)
           T  == e + (my - 1)
           proof == GetProof(i)
<1>1. nLeaves \in Nat /\ nLeaves # 0 /\ LeavesIn(vNodes, nLeaves)
  BY DEF RangeInv, WellFormed
<1>2. m \in Nat /\ my \in 1 .. m /\ GetPeaks[my] = TreePos(2 * r, h)
  BY <1>1, PeakFacts, PeakIndices
<1>3. PICK b : GetRoot = b[1] /\ BagOf(b)
  BY <1>1, RootBag
<1> HIDE DEF my, m
<1>4. e \in Nat /\ T \in Nat /\ m - my \in Nat /\ my - 1 \in Nat /\ h <= T /\ h + (m - my) <= T
  BY <1>2
<1>5. /\ Len(proof) = T /\ PathOK(proof, h, i)
      /\ \A k \in Nat : k < m - my => proof[h + k + 1] = Step(GetPeaks[m - k], FALSE)
      /\ \A k \in Nat : k < my - 1 => proof[e + k + 1] = Step(GetPeaks[my - 1 - k], TRUE)
  BY ONLY ProofShape(GetProof(i), h, PopCount[r] + 1, i) DEF ProofShape, my, m
<1> HIDE DEF proof
<1>6. PICK c : CombineRun(c, x, proof, T)
  <2> HIDE DEF T
  <2> QED BY ONLY <1>4, <1>5, CombineRounds, Zenon
<1>7. \A k \in Nat : k < T => c[k + 1] = Combine(c[k], proof[k + 1])
  BY ONLY <1>6 DEF CombineRun
<1> HIDE DEF e, T
<1>8. c[h] = Node(GetPeaks[my]) <=> x = Leaves[i + 1]
  <2>1. \A k \in Nat : k < h => k < T
    BY ONLY <1>4, h \in Nat
  <2>2. \A k \in Nat : k < h => c[k + 1] = Combine(c[k], proof[k + 1])
    BY ONLY <1>7, <2>1
  <2>3. \A k \in Nat : k <= h => \A a \in Nat : Shifted(a, k, i) =>
           (c[k] = Node(TreePos(a, k)) <=> c[0] = Node(TreePos(i, 0)))
    BY ONLY <1>5, <2>2, i \in Nat, h \in Nat, PathDecides, SMTT(30)
  <2>4. c[h] = Node(TreePos(2 * r, h)) <=> c[0] = Node(TreePos(i, 0))
    BY ONLY <2>3, h \in Nat, h <= h, 2 * r \in Nat, Shifted(2 * r, h, i)
  <2>5. c[0] = HashLeaf(x)
    BY ONLY <1>6 DEF CombineRun
  <2>6. Node(TreePos(i, 0)) = HashLeaf(Leaves[i + 1])
    <3>1. Leaves = LeavesOf(vNodes, nLeaves)
      BY <1>1, LeavesAre
    <3>2. i + 1 \in 1 .. nLeaves /\ (i + 1) - 1 = i
      BY <1>1
    <3>3. vNodes[NodeCountForLeaves((i + 1) - 1) + 1] = HashLeaf(LeavesOf(vNodes, nLeaves)[i + 1])
      BY ONLY <1>1, <3>2, LeavesOfFacts
    <3>4. TreePos(i, 0) = NodeCountForLeaves(i)
      BY TreePosFacts
    <3> QED BY ONLY <3>1, <3>2, <3>3, <3>4 DEF Node
  <2>7. HashLeaf(x) = HashLeaf(Leaves[i + 1]) <=> x = Leaves[i + 1]
    <3> DEFINE y == Leaves[i + 1]
    <3> HIDE DEF y
    <3>1. HashLeaf(x) = HashLeaf(y) <=> x = y
      BY ONLY HashParts
    <3> QED BY <3>1 DEF y
  <2> QED BY ONLY <1>2, <2>4, <2>5, <2>6, <2>7
<1>9. c[e] = b[my] <=> my >= m - 1 /\ c[h] = Node(GetPeaks[my])
  <2>1. ASSUME NEW k \in Nat, k < m - my
        PROVE  c[h + k + 1] = HashParent(c[h + k], Node(GetPeaks[m - k]))
    <3>1. h + k \in Nat /\ h + k < T
      BY ONLY <1>4, <2>1, h \in Nat
    <3>2. c[(h + k) + 1] = Combine(c[h + k], proof[(h + k) + 1])
      BY ONLY <1>7, <3>1
    <3>3. proof[(h + k) + 1] = Step(GetPeaks[m - k], FALSE)
      BY ONLY <1>5, <2>1
    <3>4. Combine(c[h + k], Step(GetPeaks[m - k], FALSE)) = HashParent(c[h + k], Node(GetPeaks[m - k]))
      BY DEF Combine, Step
    <3> QED BY ONLY <3>2, <3>3, <3>4
  <2>2. c[h + (m - my)] = b[my] <=> my >= m - 1 /\ c[h] = Node(GetPeaks[my])
    BY ONLY RangeInv, <1>2, <1>3, <2>1, h \in Nat, RightDecides DEF m
  <2> QED BY ONLY <2>2 DEF e
<1>10. c[e + (my - 1)] = b[1] <=> c[e] = b[my]
  <2>1. ASSUME NEW j \in Nat, j < my - 1
        PROVE  c[e + j + 1] = HashParent(Node(GetPeaks[my - 1 - j]), c[e + j])
    <3>1. e + j \in Nat /\ e + j < T
      BY <1>2, <1>4, <2>1 DEF T
    <3>2. c[(e + j) + 1] = Combine(c[e + j], proof[(e + j) + 1])
      BY ONLY <1>7, <3>1
    <3>3. proof[(e + j) + 1] = Step(GetPeaks[my - 1 - j], TRUE)
      BY ONLY <1>5, <2>1
    <3>4. Combine(c[e + j], Step(GetPeaks[my - 1 - j], TRUE)) = HashParent(Node(GetPeaks[my - 1 - j]), c[e + j])
      BY DEF Combine, Step
    <3> QED BY ONLY <3>2, <3>3, <3>4
  <2> QED BY ONLY <1>1, <1>2, <1>3, <1>4, <2>1, LeftDecides DEF m
<1>11. Combined(x, proof) = c[e + (my - 1)]
  BY ONLY <1>6 DEF CombineRun, T
<1>12. VerifyProof(GetRoot, x, proof) <=> my >= m - 1 /\ x = Leaves[i + 1]
  BY ONLY <1>3, <1>8, <1>9, <1>10, <1>11 DEF VerifyProof
<1> QED BY ONLY <1>12 DEF proof, my, m

\* The last mountain but one starts where the first leaf with a proof that
\* verifies is.
LEMMA LastTwo ==
  ASSUME nLeaves \in Nat, NEW i \in Nat, NEW h \in Nat, NEW r \in Nat,
         Shifted(2 * r, h, i), Shifted(2 * r + 1, h, nLeaves), Len(Mountains) > 2
  PROVE  PopCount[r] + 1 >= Len(GetPeaks) - 1 <=> i >= Mountains[Len(Mountains) - 1].first
<1> DEFINE m == Len(Mountains)
           k == m - 1
<1>1. m \in Nat /\ Len(GetPeaks) = m /\ PopCount[r] + 1 \in 1 .. m /\ MountainsFrom(Mountains, 0, nLeaves)
  BY MountainFacts, PeakFacts
<1>2. k \in 1 .. m
  BY <1>1
<1> HIDE DEF k
<1>3. PICK g \in Nat : \E p \in Nat : Shifted(2 * p + 1, g, nLeaves) /\ k = PopCount[p] + 1
  BY <1>1, <1>2 DEF MountainsFrom
<1>4. PICK p \in Nat : Shifted(2 * p + 1, g, nLeaves) /\ k = PopCount[p] + 1
  BY <1>3
<1>5. Mountains[k] = MountainAt(p, g)
  BY <1>1, <1>4 DEF MountainsFrom
<1>6. Mountains[k].first = FirstLeaf(2 * p, g)
  BY <1>5 DEF MountainAt
<1>7. /\ FirstLeaf(2 * p + 1, g) = FirstLeaf(2 * p, g) + Pow2[g] /\ FirstLeaf(2 * p, g) \in Nat
      /\ FirstLeaf(2 * r + 1, h) = FirstLeaf(2 * r, h) + Pow2[h] /\ FirstLeaf(2 * r, h) \in Nat
  BY ONLY 2 * p \in Nat, 2 * r \in Nat, g \in Nat, h \in Nat, FirstLeafFacts
<1>8. Pow2[g] \in Nat /\ Pow2[h] \in Nat /\ PopCount[p] \in Nat /\ PopCount[r] \in Nat
  BY SizeFacts, PopCountBound
<1>9. FirstLeaf(2 * r, h) <= i /\ i < FirstLeaf(2 * r + 1, h)
  BY ONLY <1>7, Shifted(2 * r, h, i) DEF Shifted
<1>10. PopCount[r] + 1 >= k <=> i >= FirstLeaf(2 * p, g)
  <2>1. CASE PopCount[p] <= PopCount[r]
    <3>1. (p = r /\ g = h) \/ (PopCount[p] < PopCount[r] /\ FirstLeaf(2 * p + 1, g) <= FirstLeaf(2 * r, h))
      BY ONLY nLeaves \in Nat, h \in Nat, r \in Nat, g \in Nat, p \in Nat, Shifted(2 * r + 1, h, nLeaves),
              <1>4, <2>1, MountainsOrdered
    <3>2. i >= FirstLeaf(2 * p, g)
      <4>1. CASE p = r /\ g = h
        BY ONLY <1>7, <1>9, <4>1, i \in Nat
      <4>2. CASE FirstLeaf(2 * p + 1, g) <= FirstLeaf(2 * r, h)
        BY ONLY <1>7, <1>8, <1>9, <4>2, i \in Nat
      <4> QED BY <3>1, <4>1, <4>2
    <3> QED BY ONLY <1>4, <1>8, <2>1, <3>2
  <2>2. CASE ~ (PopCount[p] <= PopCount[r])
    <3>1. PopCount[r] <= PopCount[p]
      BY ONLY <1>8, <2>2
    <3>2. (r = p /\ h = g) \/ (PopCount[r] < PopCount[p] /\ FirstLeaf(2 * r + 1, h) <= FirstLeaf(2 * p, g))
      BY ONLY nLeaves \in Nat, h \in Nat, r \in Nat, g \in Nat, p \in Nat, Shifted(2 * r + 1, h, nLeaves),
              <1>4, <3>1, MountainsOrdered
    <3>3. FirstLeaf(2 * r + 1, h) <= FirstLeaf(2 * p, g)
      BY ONLY <1>8, <2>2, <3>2
    <3> QED BY ONLY <1>4, <1>7, <1>8, <1>9, <2>2, <3>3, i \in Nat
  <2> QED BY <2>1, <2>2
<1>11. Len(GetPeaks) - 1 = k /\ Len(Mountains) - 1 = k
  BY <1>1 DEF k
<1> QED BY ONLY <1>6, <1>10, <1>11

\* In a well formed range the proofs decide.
LEMMA ProofsAreDecided ==
  ASSUME RangeInv
  PROVE  ProofsDecide
<1>1. nLeaves \in Nat
  BY DEF RangeInv
<1>2. ASSUME NEW i \in 0 .. nLeaves - 1
      PROVE  /\ \A x : VerifyProof(GetRoot, x, GetProof(i)) => x = Leaves[i + 1]
             /\ VerifyProof(GetRoot, Leaves[i + 1], GetProof(i))
                  <=> (Len(Mountains) > 2 => i >= Mountains[Len(Mountains) - 1].first)
  <2>1. i \in Nat /\ i < nLeaves
    BY <1>1
  <2>2. PICK h \in Nat : \E r \in Nat :
           /\ Shifted(2 * r, h, i) /\ Shifted(2 * r + 1, h, nLeaves)
           /\ ProofShape(GetProof(i), h, PopCount[r] + 1, i)
    BY ONLY RangeInv, <2>1, ProofFacts
  <2>3. PICK r \in Nat :
           /\ Shifted(2 * r, h, i) /\ Shifted(2 * r + 1, h, nLeaves)
           /\ ProofShape(GetProof(i), h, PopCount[r] + 1, i)
    BY <2>2
  <2>4. \A x : VerifyProof(GetRoot, x, GetProof(i)) <=>
                 PopCount[r] + 1 >= Len(GetPeaks) - 1 /\ x = Leaves[i + 1]
    BY ONLY RangeInv, <2>1, <2>3, h \in Nat, r \in Nat, VerifyDecides
  <2>5. /\ Len(Mountains) = Len(GetPeaks) /\ Len(GetPeaks) \in Nat
        /\ PopCount[r] + 1 \in 1 .. Len(GetPeaks)
    BY <1>1, <2>3, MountainFacts, PeakFacts
  <2>6. CASE Len(Mountains) > 2
    <3>1. PopCount[r] + 1 >= Len(GetPeaks) - 1 <=> i >= Mountains[Len(Mountains) - 1].first
      BY ONLY <1>1, <2>1, <2>3, <2>6, h \in Nat, r \in Nat, LastTwo
    <3> QED BY ONLY <2>4, <2>6, <3>1
  <2>7. CASE ~ (Len(Mountains) > 2)
    <3>1. PopCount[r] + 1 >= Len(GetPeaks) - 1
      BY ONLY <2>5, <2>7
    <3> QED BY ONLY <2>4, <2>7, <3>1
  <2> QED BY <2>6, <2>7
<1>3. ProofsSound
  BY ONLY <1>2 DEF ProofsSound
<1>4. ProofsVerifyAtEnd
  BY ONLY <1>2 DEF ProofsVerifyAtEnd
<1> QED BY <1>3, <1>4 DEF ProofsDecide

\* Whatever the number of leaves, a proof made by GetProof convinces VerifyProof
\* of its own leaf only, and does so exactly for the leaves of the last two
\* mountains.
THEOREM ProofsDecideHolds == RangeSpec => []ProofsDecide
<1>1. RangeInv => ProofsDecide
  BY ProofsAreDecided
<1> QED BY <1>1, RangeInvariant, PTL

=============================================================================
