---------------------------- MODULE AddrManProofs ----------------------------
(***************************************************************************)
(* Proofs about AddrMan, for any addresses and sources, every number and   *)
(* size of the buckets and whatever buckets the hashes choose.  The        *)
(* consistency of the book is inductive only if it is also said of the     *)
(* books within an operation, where a reference is counted before it is in *)
(* its bucket (Sound).                                                     *)
(***************************************************************************)
EXTENDS AddrMan, FiniteSetTheorems, WellFoundedInduction, TLAPS

\* The ids of a book, those of its tried entries, and the new buckets of an entry.
Dom(m) == DOMAIN m.mapInfo
TriedOf(m) == {i \in Dom(m) : m.mapInfo[i].fInTried}
Where(m, i) == {b \in NewBucket : i \in m.vvNew[b]}

\* CAddrInfo.
Entry == [addr : Addr, source : Source, nLastSuccess : BOOLEAN,
          nRefCount : Nat, fInTried : BOOLEAN, nRandomPos : Nat]

\* The books: ids are natural numbers.
Books ==
  [mapInfo : UNION {[D -> Entry] : D \in SUBSET Nat}, mapAddr : [Addr -> Nat \cup {NoId}],
   vRandom : Seq(Nat), vvNew : [NewBucket -> SUBSET Nat], vvTried : [TriedBucket -> SUBSET Nat],
   nNew : Int, nTried : Int, nIdCount : Nat]

\* Every id has been given out.
Fields(m) == m \in Books /\ \A i \in Dom(m) : i < m.nIdCount

\* vRandom lists every entry once, and each knows its place.
Ordered(m) ==
  /\ \A i \in Dom(m) : /\ m.mapInfo[i].nRandomPos < Len(m.vRandom)
                       /\ m.vRandom[m.mapInfo[i].nRandomPos + 1] = i
  /\ \A k \in 1 .. Len(m.vRandom) : /\ m.vRandom[k] \in Dom(m)
                                    /\ m.mapInfo[m.vRandom[k]].nRandomPos = k - 1

\* mapAddr leads from an address to its entry.
Known(m) ==
  /\ \A i \in Dom(m) : m.mapAddr[m.mapInfo[i].addr] = i
  /\ \A a \in Addr : m.mapAddr[a] # NoId => m.mapAddr[a] \in Dom(m) /\ m.mapInfo[m.mapAddr[a]].addr = a

\* nNew and nTried count the entries.
Counted(m) ==
  Cardinality(Dom(m) \ TriedOf(m)) = m.nNew /\ Cardinality(TriedOf(m)) = m.nTried

\* The references of an entry are its new buckets; x has one that it waits for.
Referred(m, x) ==
  /\ \A b \in NewBucket : m.vvNew[b] \subseteq Dom(m)
  /\ \A i \in Dom(m) : m.mapInfo[i].nRefCount = Cardinality(Where(m, i)) + (IF i = x THEN 1 ELSE 0)
  /\ \A i \in Dom(m) \ TriedOf(m) : m.mapInfo[i].nRefCount \in 1 .. PerAddress
  /\ \A i \in TriedOf(m) : m.mapInfo[i].nRefCount = 0 /\ m.mapInfo[i].nLastSuccess

\* A tried entry is in the tried bucket of its address and in no other.
Settled(m) ==
  \A k \in TriedBucket : m.vvTried[k] = {i \in TriedOf(m) : TriedBucketOf[m.mapInfo[i].addr] = k}

\* No bucket outgrows its size.
Bounded(m) ==
  /\ \A b \in NewBucket : Cardinality(m.vvNew[b]) <= NewSize
  /\ \A k \in TriedBucket : Cardinality(m.vvTried[k]) <= TriedSize

\* The book is sound, but for the entry x, whose last reference is counted and
\* not yet in its bucket.
Sound(m, x) ==
  Fields(m) /\ Ordered(m) /\ Known(m) /\ Counted(m) /\ Referred(m, x) /\ Settled(m) /\ Bounded(m)

\* Two entries that differ in their place only.
Alike(e, f) ==
  /\ e.addr = f.addr /\ e.source = f.source /\ e.nLastSuccess = f.nLastSuccess
  /\ e.nRefCount = f.nRefCount /\ e.fInTried = f.fInTried

\* The tried entries keep their addresses.
Kept(m, w) == \A i \in TriedOf(m) : w.mapInfo[i].addr = m.mapInfo[i].addr

\* What the types say of a book.
LEMMA BookFacts ==
  ASSUME NEW m, Fields(m)
  PROVE  /\ m.mapInfo \in [Dom(m) -> Entry] /\ Dom(m) \subseteq Nat
         /\ m.mapAddr \in [Addr -> Nat \cup {NoId}] /\ m.vRandom \in Seq(Nat)
         /\ m.vvNew \in [NewBucket -> SUBSET Nat] /\ m.vvTried \in [TriedBucket -> SUBSET Nat]
         /\ m.nNew \in Int /\ m.nTried \in Int /\ m.nIdCount \in Nat
         /\ Dom(m) \subseteq 0 .. m.nIdCount - 1 /\ IsFiniteSet(Dom(m))
<1>1. /\ m.mapAddr \in [Addr -> Nat \cup {NoId}] /\ m.vRandom \in Seq(Nat)
      /\ m.vvNew \in [NewBucket -> SUBSET Nat] /\ m.vvTried \in [TriedBucket -> SUBSET Nat]
      /\ m.nNew \in Int /\ m.nTried \in Int /\ m.nIdCount \in Nat
  BY DEF Fields, Books
<1>2. PICK D \in SUBSET Nat : m.mapInfo \in [D -> Entry]
  BY DEF Fields, Books
<1>3. m.mapInfo \in [Dom(m) -> Entry] /\ Dom(m) \subseteq Nat
  BY <1>2 DEF Dom
<1>4. Dom(m) \subseteq 0 .. m.nIdCount - 1
  BY <1>1, <1>3 DEF Fields
<1>5. IsFiniteSet(0 .. m.nIdCount - 1)
  BY <1>1, FS_Interval
<1>6. IsFiniteSet(Dom(m))
  BY <1>4, <1>5, FS_Subset
<1> QED BY <1>1, <1>3, <1>4, <1>6

\* An entry with another place.
LEMMA EntryPlaced ==
  ASSUME NEW D, NEW h \in [D -> Entry], NEW x \in D, NEW q \in Nat
  PROVE  LET f == [h EXCEPT ![x].nRandomPos = q]
         IN  /\ f \in [D -> Entry] /\ f[x].nRandomPos = q /\ Alike(f[x], h[x])
             /\ \A i \in D \ {x} : f[i] = h[i]
<1> DEFINE e == [h[x] EXCEPT !.nRandomPos = q]
           f == [h EXCEPT ![x].nRandomPos = q]
<1>1. e \in Entry /\ e.nRandomPos = q /\ Alike(e, h[x])
  BY DEF Entry, Alike
<1>2. f = [h EXCEPT ![x] = e]
  OBVIOUS
<1> HIDE DEF e
<1> QED BY <1>1, <1>2

\* SwapRandom keeps the order of the book and changes places only.
LEMMA SwapFields ==
  ASSUME NEW m, Fields(m), Ordered(m),
         NEW p \in 0 .. Len(m.vRandom) - 1, NEW q \in 0 .. Len(m.vRandom) - 1
  PROVE  LET w == SwapRandom(m, p, q)
         IN  /\ Fields(w) /\ Dom(w) = Dom(m) /\ Ordered(w)
             /\ Len(w.vRandom) = Len(m.vRandom)
             /\ w.vRandom[q + 1] = m.vRandom[p + 1]
             /\ w.mapAddr = m.mapAddr /\ w.vvNew = m.vvNew /\ w.vvTried = m.vvTried
             /\ w.nNew = m.nNew /\ w.nTried = m.nTried /\ w.nIdCount = m.nIdCount
             /\ \A i \in Dom(m) : Alike(w.mapInfo[i], m.mapInfo[i])
<1> DEFINE w == SwapRandom(m, p, q)
           x == m.vRandom[p + 1]
           y == m.vRandom[q + 1]
           f == [m.mapInfo EXCEPT ![x].nRandomPos = q]
           g == [f EXCEPT ![y].nRandomPos = p]
           v == [m.vRandom EXCEPT ![p + 1] = y]
           u == [v EXCEPT ![q + 1] = x]
<1>0. m.mapInfo \in [Dom(m) -> Entry] /\ Dom(m) \subseteq Nat /\ m.vRandom \in Seq(Nat)
  BY BookFacts
<1>1. /\ p + 1 \in 1 .. Len(m.vRandom) /\ q + 1 \in 1 .. Len(m.vRandom)
      /\ x \in Dom(m) /\ y \in Dom(m) /\ x \in Nat /\ y \in Nat /\ p \in Nat /\ q \in Nat
  BY <1>0, SMTT(30) DEF Ordered
<1>2. f \in [Dom(m) -> Entry] /\ f[x].nRandomPos = q /\ Alike(f[x], m.mapInfo[x])
      /\ \A i \in Dom(m) \ {x} : f[i] = m.mapInfo[i]
  <2> DEFINE h == m.mapInfo
  <2>1. h \in [Dom(m) -> Entry] /\ x \in Dom(m) /\ q \in Nat /\ f = [h EXCEPT ![x].nRandomPos = q]
    BY <1>0, <1>1
  <2> HIDE DEF x, h, f
  <2>2. /\ f \in [Dom(m) -> Entry] /\ f[x].nRandomPos = q /\ Alike(f[x], h[x])
        /\ \A i \in Dom(m) \ {x} : f[i] = h[i]
    BY <2>1, EntryPlaced
  <2> QED BY <2>2 DEF h
<1>3. g \in [Dom(m) -> Entry] /\ g[y].nRandomPos = p /\ Alike(g[y], f[y])
      /\ \A i \in Dom(m) \ {y} : g[i] = f[i]
  <2> HIDE DEF f, y
  <2> QED BY <1>0, <1>1, <1>2, EntryPlaced
<1>4. /\ u \in Seq(Nat) /\ Len(u) = Len(m.vRandom)
      /\ \A k \in 1 .. Len(m.vRandom) :
           u[k] = IF k = q + 1 THEN x ELSE IF k = p + 1 THEN y ELSE m.vRandom[k]
  BY <1>0, <1>1
<1>5. /\ w.mapInfo = g /\ w.vRandom = u
      /\ w.mapAddr = m.mapAddr /\ w.vvNew = m.vvNew /\ w.vvTried = m.vvTried
      /\ w.nNew = m.nNew /\ w.nTried = m.nTried /\ w.nIdCount = m.nIdCount
  BY DEF SwapRandom, Fields, Books
<1>6. w \in Books
  <2>1. g \in UNION {[D -> Entry] : D \in SUBSET Nat}
    BY <1>0, <1>3
  <2>2. w = [m EXCEPT !.mapInfo = g, !.vRandom = u]
    BY DEF SwapRandom
  <2> HIDE DEF g, u, w
  <2> QED BY <2>1, <2>2, <1>4 DEF Fields, Books
<1> HIDE DEF w, g, u, f, x, y
<1>7. Dom(w) = Dom(m)
  BY <1>5, <1>3 DEF Dom
<1>8. \A i \in Dom(m) :
        /\ Alike(g[i], m.mapInfo[i])
        /\ g[i].nRandomPos = IF i = y THEN p ELSE IF i = x THEN q ELSE m.mapInfo[i].nRandomPos
  BY <1>1, <1>2, <1>3 DEF Alike
<1>9. Ordered(w)
  <2>1. ASSUME NEW i \in Dom(m)
        PROVE  g[i].nRandomPos < Len(u) /\ u[g[i].nRandomPos + 1] = i
    <3>0. /\ m.mapInfo[i].nRandomPos + 1 \in 1 .. Len(m.vRandom)
          /\ m.mapInfo[i].nRandomPos < Len(m.vRandom)
          /\ m.vRandom[m.mapInfo[i].nRandomPos + 1] = i
      <4>1. m.mapInfo[i] \in Entry
        BY <1>0
      <4>2. m.mapInfo[i].nRandomPos \in Nat
        BY <4>1 DEF Entry
      <4>3. /\ m.mapInfo[i].nRandomPos < Len(m.vRandom)
            /\ m.vRandom[m.mapInfo[i].nRandomPos + 1] = i
        BY DEF Ordered
      <4> QED BY <4>2, <4>3, <1>0, SMTT(30)
    <3>1. CASE i = y
      BY <3>1, <1>1, <1>4, <1>8 DEF x, y
    <3>2. CASE i # y /\ i = x
      BY <3>2, <1>1, <1>4, <1>8
    <3>3. CASE i # y /\ i # x
      <4>1. m.mapInfo[i].nRandomPos + 1 # p + 1 /\ m.mapInfo[i].nRandomPos + 1 # q + 1
        BY <3>0, <3>3 DEF x, y
      <4>2. g[i].nRandomPos = m.mapInfo[i].nRandomPos
        BY <3>3, <1>8
      <4>3. u[m.mapInfo[i].nRandomPos + 1] = m.vRandom[m.mapInfo[i].nRandomPos + 1]
        BY <3>0, <4>1, <1>4
      <4> QED BY <3>0, <4>2, <4>3, <1>4
    <3> QED BY <3>1, <3>2, <3>3
  <2>2. ASSUME NEW k \in 1 .. Len(m.vRandom)
        PROVE  u[k] \in Dom(m) /\ g[u[k]].nRandomPos = k - 1
    <3>0. m.vRandom[k] \in Dom(m) /\ m.mapInfo[m.vRandom[k]].nRandomPos = k - 1
      BY DEF Ordered
    <3>1. CASE k = q + 1
      <4>1. m.mapInfo[x].nRandomPos = p /\ m.mapInfo[y].nRandomPos = q
        BY <1>1, SMTT(30) DEF Ordered, x, y
      <4> QED BY <3>1, <4>1, <1>1, <1>4, <1>8
    <3>2. CASE k # q + 1 /\ k = p + 1
      BY <3>2, <1>1, <1>4, <1>8
    <3>3. CASE k # q + 1 /\ k # p + 1
      <4>1. m.mapInfo[x].nRandomPos = p /\ m.mapInfo[y].nRandomPos = q
        BY <1>1 DEF Ordered, x, y
      <4>2. m.vRandom[k] # x /\ m.vRandom[k] # y
        BY <3>0, <3>3, <4>1
      <4>3. u[k] = m.vRandom[k] /\ g[m.vRandom[k]].nRandomPos = m.mapInfo[m.vRandom[k]].nRandomPos
        BY <3>0, <3>3, <4>2, <1>4, <1>8
      <4> QED BY <3>0, <4>3
    <3> QED BY <3>1, <3>2, <3>3
  <2> QED BY <2>1, <2>2, <1>4, <1>5, <1>7 DEF Ordered
<1> QED
  BY <1>1, <1>4, <1>5, <1>6, <1>7, <1>8, <1>9 DEF Fields, w, x

\* An entry is replaced by another one at the same place.
PutInfo(m, id, e) == [m EXCEPT !.mapInfo[id] = e]

\* Nothing else changes.
LEMMA EntryChanged ==
  ASSUME NEW m, Fields(m), NEW id \in Dom(m), NEW e \in Entry,
         e.nRandomPos = m.mapInfo[id].nRandomPos,
         NEW w, w = PutInfo(m, id, e)
  PROVE  /\ Fields(w) /\ Dom(w) = Dom(m) /\ (Ordered(m) => Ordered(w))
         /\ w.mapInfo[id] = e /\ \A i \in Dom(m) \ {id} : w.mapInfo[i] = m.mapInfo[i]
         /\ w.mapAddr = m.mapAddr /\ w.vvNew = m.vvNew /\ w.vvTried = m.vvTried
         /\ w.nNew = m.nNew /\ w.nTried = m.nTried /\ w.nIdCount = m.nIdCount
<1> DEFINE g == [m.mapInfo EXCEPT ![id] = e]
<1>0. m.mapInfo \in [Dom(m) -> Entry] /\ Dom(m) \subseteq Nat
  BY BookFacts
<1>1. g \in [Dom(m) -> Entry] /\ g[id] = e /\ \A i \in Dom(m) \ {id} : g[i] = m.mapInfo[i]
  BY <1>0
<1>2. /\ w.mapInfo = g /\ w.vRandom = m.vRandom
      /\ w.mapAddr = m.mapAddr /\ w.vvNew = m.vvNew /\ w.vvTried = m.vvTried
      /\ w.nNew = m.nNew /\ w.nTried = m.nTried /\ w.nIdCount = m.nIdCount
  BY DEF Fields, Books, PutInfo
<1>3. w = [m EXCEPT !.mapInfo = g]
  BY DEF PutInfo
<1> HIDE DEF g
<1>4. w \in Books
  <2>1. g \in UNION {[D -> Entry] : D \in SUBSET Nat}
    BY <1>0, <1>1
  <2> QED BY <2>1, <1>3 DEF Fields, Books
<1>5. Dom(w) = Dom(m)
  BY <1>1, <1>2 DEF Dom
<1>6. \A i \in Dom(m) : w.mapInfo[i].nRandomPos = m.mapInfo[i].nRandomPos
  BY <1>1, <1>2
<1>7. Ordered(m) => Ordered(w)
  BY <1>2, <1>5, <1>6, ZenonT(60) DEF Ordered
<1> QED BY <1>1, <1>2, <1>4, <1>5, <1>7 DEF Fields

\* Forget takes the entry out of vRandom, mapInfo and mapAddr.
LEMMA ForgetFacts ==
  ASSUME NEW d, Fields(d), Ordered(d), NEW id \in Dom(d)
  PROVE  LET f == Forget(d, id)
         IN  /\ Fields(f) /\ Dom(f) = Dom(d) \ {id} /\ Ordered(f)
             /\ f.mapAddr = [d.mapAddr EXCEPT ![d.mapInfo[id].addr] = NoId]
             /\ f.vvNew = d.vvNew /\ f.vvTried = d.vvTried
             /\ f.nNew = d.nNew - 1 /\ f.nTried = d.nTried /\ f.nIdCount = d.nIdCount
             /\ \A i \in Dom(f) : Alike(f.mapInfo[i], d.mapInfo[i])
<1> DEFINE n == Len(d.vRandom)
           p == d.mapInfo[id].nRandomPos
           w == SwapRandom(d, p, n - 1)
           f == Forget(d, id)
           v == SubSeq(w.vRandom, 1, Len(w.vRandom) - 1)
           g == [k \in Dom(w) \ {id} |-> w.mapInfo[k]]
           a == [w.mapAddr EXCEPT ![w.mapInfo[id].addr] = NoId]
<1>0. /\ d.mapInfo \in [Dom(d) -> Entry] /\ d.vRandom \in Seq(Nat) /\ d.mapAddr \in [Addr -> Nat \cup {NoId}]
      /\ d.nNew \in Int
  BY BookFacts
<1>1. /\ n \in Nat /\ p \in Nat /\ p < n /\ d.vRandom[p + 1] = id /\ d.mapInfo[id].addr \in Addr
  <2>1. d.mapInfo[id] \in Entry
    BY <1>0
  <2> QED BY <2>1, <1>0 DEF Ordered, Entry
<1>2. p \in 0 .. n - 1 /\ n - 1 \in 0 .. n - 1
  BY <1>1
<1>3. /\ Fields(w) /\ Dom(w) = Dom(d) /\ Ordered(w)
      /\ Len(w.vRandom) = n
      /\ w.vRandom[n - 1 + 1] = d.vRandom[p + 1]
      /\ w.mapAddr = d.mapAddr /\ w.vvNew = d.vvNew /\ w.vvTried = d.vvTried
      /\ w.nNew = d.nNew /\ w.nTried = d.nTried /\ w.nIdCount = d.nIdCount
      /\ \A i \in Dom(d) : Alike(w.mapInfo[i], d.mapInfo[i])
  <2> HIDE DEF p, w, n
  <2> QED BY <1>2, SwapFields DEF w, n
<1>4. /\ f.vRandom = v /\ f.mapAddr = a /\ f.mapInfo = g
      /\ f.nNew = w.nNew - 1 /\ f.vvNew = w.vvNew /\ f.vvTried = w.vvTried
      /\ f.nTried = w.nTried /\ f.nIdCount = w.nIdCount
  <2>1. f = [w EXCEPT !.vRandom = v, !.mapAddr = a, !.mapInfo = g, !.nNew = w.nNew - 1]
    BY DEF Forget, Dom
  <2> HIDE DEF f, w, v, a, g
  <2> QED BY <2>1, <1>3 DEF Fields, Books
<1>5. w.mapInfo \in [Dom(w) -> Entry] /\ w.vRandom \in Seq(Nat) /\ Dom(w) \subseteq Nat
  BY <1>3, BookFacts
<1>6. /\ v \in Seq(Nat) /\ Len(v) = n - 1 /\ \A k \in 1 .. n - 1 : v[k] = w.vRandom[k]
      /\ w.vRandom[n] = id
  <2> HIDE DEF w
  <2>1. n - 1 \in Nat
    BY <1>1
  <2>2. w.vRandom \in Seq(Nat) /\ Len(w.vRandom) = n /\ v = SubSeq(w.vRandom, 1, n - 1) /\ n \in Nat
    BY <1>1, <1>3, <1>5
  <2>3. w.vRandom[n] = id
    BY <1>1, <1>3
  <2> HIDE DEF n, v
  <2> QED BY <2>1, <2>2, <2>3
<1>7. a = [d.mapAddr EXCEPT ![d.mapInfo[id].addr] = NoId] /\ a \in [Addr -> Nat \cup {NoId}]
  BY <1>0, <1>1, <1>3 DEF Alike
<1>8. g \in [Dom(d) \ {id} -> Entry] /\ \A i \in Dom(d) \ {id} : g[i] = w.mapInfo[i]
  <2> HIDE DEF w
  <2> QED BY <1>3, <1>5
<1>9. f \in Books
  <2>1. f = [w EXCEPT !.vRandom = v, !.mapAddr = a, !.mapInfo = g, !.nNew = w.nNew - 1]
    BY DEF Forget, Dom
  <2>2. g \in UNION {[D -> Entry] : D \in SUBSET Nat}
    BY <1>3, <1>5, <1>8
  <2> HIDE DEF f, w, v, a, g
  <2>3. w \in Books /\ w.nNew - 1 \in Int
    BY <1>0, <1>3 DEF Fields
  <2>4. v \in Seq(Nat) /\ a \in [Addr -> Nat \cup {NoId}]
    BY <1>6, <1>7
  <2> QED BY <2>1, <2>2, <2>3, <2>4 DEF Books
<1> HIDE DEF f, w, v, a, g
<1>10. Dom(f) = Dom(d) \ {id}
  BY <1>4, <1>8 DEF Dom
<1>11. Ordered(f)
  <2>1. ASSUME NEW i \in Dom(f)
        PROVE  f.mapInfo[i].nRandomPos < Len(f.vRandom) /\ f.vRandom[f.mapInfo[i].nRandomPos + 1] = i
    <3> DEFINE k == w.mapInfo[i].nRandomPos
    <3>1. f.mapInfo[i] = w.mapInfo[i] /\ i # id /\ i \in Dom(w)
      BY <1>3, <1>4, <1>8, <1>10
    <3>2. k \in Nat
      BY <3>1, <1>5 DEF Entry
    <3>3. k < n /\ w.vRandom[k + 1] = i
      BY <3>1, <1>3 DEF Ordered
    <3>4. k + 1 # n
      BY <3>1, <3>3, <1>6
    <3> HIDE DEF k, n
    <3>5. k + 1 \in 1 .. n - 1 /\ k < n - 1
      BY <3>2, <3>3, <3>4, <1>1
    <3>6. v[k + 1] = i
      BY <3>5, <3>3, <1>6
    <3> QED BY <3>1, <3>5, <3>6, <1>4, <1>6 DEF k
  <2>2. ASSUME NEW k \in 1 .. Len(f.vRandom)
        PROVE  f.vRandom[k] \in Dom(f) /\ f.mapInfo[f.vRandom[k]].nRandomPos = k - 1
    <3>1. k \in 1 .. n - 1 /\ k \in 1 .. n /\ k # n
      BY <1>1, <1>4, <1>6
    <3>2. f.vRandom[k] = w.vRandom[k] /\ w.vRandom[k] \in Dom(w) /\ w.mapInfo[w.vRandom[k]].nRandomPos = k - 1
      BY <3>1, <1>3, <1>4, <1>6 DEF Ordered
    <3>3. w.mapInfo[id].nRandomPos = n - 1
      BY <1>1, <1>3, <1>6, SMTT(30) DEF Ordered
    <3>4. w.vRandom[k] # id
      BY <3>1, <3>2, <3>3, <1>1
    <3> QED BY <3>2, <3>4, <1>3, <1>4, <1>8, <1>10
  <2> QED BY <2>1, <2>2 DEF Ordered
<1>12. \A i \in Dom(f) : Alike(f.mapInfo[i], d.mapInfo[i])
  BY <1>3, <1>4, <1>8, <1>10
<1>13. \A i \in Dom(f) : i < f.nIdCount
  BY <1>3, <1>4, <1>10 DEF Fields
<1> QED
  BY <1>3, <1>4, <1>7, <1>9, <1>10, <1>11, <1>12, <1>13 DEF Fields, f

\* A new bucket is replaced.
PutNew(m, b, S) == [m EXCEPT !.vvNew[b] = S]

\* Nothing else changes.
LEMMA BucketChanged ==
  ASSUME NEW m, Fields(m), NEW b \in NewBucket, NEW S \in SUBSET Nat,
         NEW w, w = PutNew(m, b, S)
  PROVE  /\ Fields(w) /\ Dom(w) = Dom(m) /\ (Ordered(m) => Ordered(w))
         /\ w.vvNew = [m.vvNew EXCEPT ![b] = S]
         /\ w.vvNew[b] = S /\ \A c \in NewBucket \ {b} : w.vvNew[c] = m.vvNew[c]
         /\ w.mapInfo = m.mapInfo /\ w.mapAddr = m.mapAddr /\ w.vvTried = m.vvTried
         /\ w.nNew = m.nNew /\ w.nTried = m.nTried /\ w.nIdCount = m.nIdCount
<1> DEFINE g == [m.vvNew EXCEPT ![b] = S]
<1>1. m.vvNew \in [NewBucket -> SUBSET Nat]
  BY BookFacts
<1>2. g \in [NewBucket -> SUBSET Nat] /\ g[b] = S /\ \A c \in NewBucket \ {b} : g[c] = m.vvNew[c]
  BY <1>1
<1>3. w = [m EXCEPT !.vvNew = g]
  BY DEF PutNew
<1> HIDE DEF g
<1>4. /\ w.vvNew = g /\ w.vRandom = m.vRandom
      /\ w.mapInfo = m.mapInfo /\ w.mapAddr = m.mapAddr /\ w.vvTried = m.vvTried
      /\ w.nNew = m.nNew /\ w.nTried = m.nTried /\ w.nIdCount = m.nIdCount /\ w \in Books
  BY <1>2, <1>3 DEF Fields, Books
<1>5. Dom(w) = Dom(m) /\ (Ordered(m) => Ordered(w)) /\ Fields(w)
  BY <1>4 DEF Dom, Ordered, Fields
<1> QED BY <1>2, <1>4, <1>5 DEF g

\* Buckets are finite sets of entries, and an entry is in finitely many.
LEMMA BucketFacts ==
  ASSUME NEW m, NEW x, Sound(m, x)
  PROVE  /\ \A b \in NewBucket : /\ m.vvNew[b] \subseteq Dom(m) /\ IsFiniteSet(m.vvNew[b])
                                 /\ Cardinality(m.vvNew[b]) \in Nat
         /\ \A k \in TriedBucket : /\ m.vvTried[k] \subseteq TriedOf(m) /\ IsFiniteSet(m.vvTried[k])
                                   /\ Cardinality(m.vvTried[k]) \in Nat
         /\ \A i : IsFiniteSet(Where(m, i)) /\ Cardinality(Where(m, i)) \in Nat
         /\ IsFiniteSet(TriedOf(m)) /\ IsFiniteSet(Dom(m) \ TriedOf(m))
         /\ \A i \in Dom(m) : m.mapInfo[i] \in Entry
<1>1. IsFiniteSet(Dom(m)) /\ m.mapInfo \in [Dom(m) -> Entry]
  BY BookFacts DEF Sound
<1>2. TriedOf(m) \subseteq Dom(m) /\ IsFiniteSet(TriedOf(m)) /\ IsFiniteSet(Dom(m) \ TriedOf(m))
  <2>1. TriedOf(m) \in SUBSET Dom(m) /\ Dom(m) \ TriedOf(m) \in SUBSET Dom(m)
    BY DEF TriedOf
  <2> QED BY <1>1, <2>1, FS_Subset
<1>3. ASSUME NEW b \in NewBucket
      PROVE  /\ m.vvNew[b] \subseteq Dom(m) /\ IsFiniteSet(m.vvNew[b])
             /\ Cardinality(m.vvNew[b]) \in Nat
  <2>1. m.vvNew[b] \in SUBSET Dom(m)
    BY DEF Sound, Referred
  <2>2. IsFiniteSet(m.vvNew[b])
    BY <1>1, <2>1, FS_Subset
  <2> QED BY <2>1, <2>2, FS_CardinalityType
<1>4. ASSUME NEW k \in TriedBucket
      PROVE  /\ m.vvTried[k] \subseteq TriedOf(m) /\ IsFiniteSet(m.vvTried[k])
             /\ Cardinality(m.vvTried[k]) \in Nat
  <2>1. m.vvTried[k] \in SUBSET TriedOf(m)
    BY DEF Sound, Settled
  <2>2. IsFiniteSet(m.vvTried[k])
    BY <1>2, <2>1, FS_Subset
  <2> QED BY <2>1, <2>2, FS_CardinalityType
<1>5. ASSUME NEW i PROVE IsFiniteSet(Where(m, i)) /\ Cardinality(Where(m, i)) \in Nat
  <2>1. IsFiniteSet(NewBucket)
    BY AddrAssumption, FS_Interval DEF NewBucket
  <2>2. Where(m, i) \in SUBSET NewBucket
    BY DEF Where
  <2>3. IsFiniteSet(Where(m, i))
    BY <2>1, <2>2, FS_Subset
  <2> QED BY <2>3, FS_CardinalityType
<1> QED BY <1>1, <1>2, <1>3, <1>4, <1>5

\* An entry in a new bucket is not a tried one.
LEMMA InNewBucket ==
  ASSUME NEW m, NEW x, Sound(m, x), NEW b \in NewBucket, NEW i \in m.vvNew[b]
  PROVE  /\ i \in Dom(m) /\ i \notin TriedOf(m) /\ b \in Where(m, i)
         /\ Cardinality(Where(m, i)) >= 1
<1>1. i \in Dom(m) /\ b \in Where(m, i)
  BY DEF Sound, Referred, Where
<1>2. Cardinality(Where(m, i)) \in Nat /\ Cardinality(Where(m, i)) # 0
  BY <1>1, BucketFacts, FS_EmptySet
<1>3. m.mapInfo[i].nRefCount = Cardinality(Where(m, i)) + (IF i = x THEN 1 ELSE 0)
  BY <1>1 DEF Sound, Referred
<1>4. m.mapInfo[i].nRefCount # 0
  BY <1>2, <1>3
<1>5. i \notin TriedOf(m)
  BY <1>4 DEF Sound, Referred
<1> QED BY <1>1, <1>2, <1>5

\* ShrinkNew takes a reference away from an entry other than x.
LEMMA ShrinkFacts ==
  ASSUME NEW m, NEW x, Sound(m, x), NEW b \in NewBucket, NEW id \in m.vvNew[b], id # x
  PROVE  LET w == ShrinkNew(m, b, id)
         IN  /\ Sound(w, x) /\ w.vvNew = [m.vvNew EXCEPT ![b] = @ \ {id}]
             /\ Dom(m) \ {id} \subseteq Dom(w) /\ Dom(w) \subseteq Dom(m) /\ TriedOf(w) = TriedOf(m)
             /\ Kept(m, w)
<1> DEFINE e == [m.mapInfo[id] EXCEPT !.nRefCount = @ - 1]
           d == [m EXCEPT !.mapInfo[id].nRefCount = @ - 1]
           f == IF d.mapInfo[id].nRefCount = 0 THEN Forget(d, id) ELSE d
           w == ShrinkNew(m, b, id)
           S == m.vvNew[b] \ {id}
<1>1. /\ Fields(m) /\ Ordered(m) /\ Known(m) /\ Counted(m) /\ Referred(m, x) /\ Settled(m) /\ Bounded(m)
  BY DEF Sound
<1>2. /\ id \in Dom(m) /\ id \notin TriedOf(m) /\ b \in Where(m, id)
      /\ Cardinality(Where(m, id)) >= 1 /\ Cardinality(Where(m, id)) \in Nat
      /\ IsFiniteSet(Where(m, id)) /\ m.mapInfo[id] \in Entry
      /\ m.mapInfo[id].nRefCount = Cardinality(Where(m, id))
  <2>1. id \in Dom(m) /\ id \notin TriedOf(m) /\ b \in Where(m, id) /\ Cardinality(Where(m, id)) >= 1
    BY InNewBucket
  <2>2. /\ Cardinality(Where(m, id)) \in Nat /\ IsFiniteSet(Where(m, id)) /\ m.mapInfo[id] \in Entry
    BY <2>1, BucketFacts
  <2>3. m.mapInfo[id].nRefCount = Cardinality(Where(m, id))
    BY <2>1, <2>2, <1>1 DEF Referred
  <2> QED BY <2>1, <2>2, <2>3
<1>3. /\ e \in Entry /\ e.nRandomPos = m.mapInfo[id].nRandomPos
      /\ e.nRefCount = Cardinality(Where(m, id)) - 1 /\ e.addr = m.mapInfo[id].addr
      /\ e.fInTried = m.mapInfo[id].fInTried /\ e.nLastSuccess = m.mapInfo[id].nLastSuccess
  BY <1>2 DEF Entry
<1>4. d = PutInfo(m, id, e)
  BY DEF PutInfo
<1> HIDE DEF e, d
<1>5. /\ Fields(d) /\ Dom(d) = Dom(m) /\ Ordered(d)
      /\ d.mapInfo[id] = e /\ \A i \in Dom(m) \ {id} : d.mapInfo[i] = m.mapInfo[i]
      /\ d.mapAddr = m.mapAddr /\ d.vvNew = m.vvNew /\ d.vvTried = m.vvTried
      /\ d.nNew = m.nNew /\ d.nTried = m.nTried /\ d.nIdCount = m.nIdCount
  BY <1>1, <1>2, <1>3, <1>4, EntryChanged
<1>6. S \in SUBSET Nat /\ w = [f EXCEPT !.vvNew[b] = @ \ {id}]
  BY <1>1, BookFacts DEF ShrinkNew, d
<1> SUFFICES /\ Sound(w, x) /\ w.vvNew = [m.vvNew EXCEPT ![b] = S]
             /\ Dom(m) \ {id} \subseteq Dom(w) /\ Dom(w) \subseteq Dom(m) /\ TriedOf(w) = TriedOf(m)
             /\ Kept(m, w)
  OBVIOUS
<1> HIDE DEF w, S
<1>7. \A c \in NewBucket : /\ [m.vvNew EXCEPT ![b] = S][c] \subseteq m.vvNew[c]
                           /\ id \notin [m.vvNew EXCEPT ![b] = S][b]
                           /\ \A i : i # id => (i \in [m.vvNew EXCEPT ![b] = S][c] <=> i \in m.vvNew[c])
  BY <1>1, BookFacts DEF S
\* What both cases have in common.
<1>8. ASSUME Fields(w), Ordered(w), w.vvNew = [m.vvNew EXCEPT ![b] = S], w.vvTried = m.vvTried,
             Dom(m) \ {id} \subseteq Dom(w), Dom(w) \subseteq Dom(m),
             \A i \in Dom(w) : /\ w.mapInfo[i].addr = m.mapInfo[i].addr
                               /\ w.mapInfo[i].fInTried = m.mapInfo[i].fInTried
                               /\ w.mapInfo[i].nLastSuccess = m.mapInfo[i].nLastSuccess,
             \A i \in Dom(m) \ {id} : w.mapInfo[i].nRefCount = m.mapInfo[i].nRefCount
      PROVE  /\ TriedOf(w) = TriedOf(m) /\ Settled(w) /\ Bounded(w)
             /\ \A i \in Dom(m) \ {id} : Where(w, i) = Where(m, i)
             /\ \A i \in Dom(m) \ {id} :
                  w.mapInfo[i].nRefCount = Cardinality(Where(w, i)) + (IF i = x THEN 1 ELSE 0)
             /\ \A i \in Dom(m) \ ({id} \cup TriedOf(m)) : w.mapInfo[i].nRefCount \in 1 .. PerAddress
             /\ \A i \in TriedOf(w) : w.mapInfo[i].nRefCount = 0 /\ w.mapInfo[i].nLastSuccess
  <2>1. TriedOf(w) = TriedOf(m)
    BY <1>8, <1>2 DEF TriedOf
  <2>2. Settled(w)
    BY <1>8, <1>1, <2>1 DEF Settled, TriedOf
  <2>3. Bounded(w)
    <3>1. ASSUME NEW c \in NewBucket PROVE Cardinality(w.vvNew[c]) <= NewSize
      <4>1. IsFiniteSet(m.vvNew[c]) /\ Cardinality(m.vvNew[c]) \in Nat /\ Cardinality(m.vvNew[c]) <= NewSize
        BY <1>1, BucketFacts DEF Bounded
      <4>2. w.vvNew[c] \in SUBSET m.vvNew[c]
        BY <1>7, <1>8
      <4>3. Cardinality(w.vvNew[c]) <= Cardinality(m.vvNew[c]) /\ IsFiniteSet(w.vvNew[c])
        BY <4>1, <4>2, FS_Subset
      <4>4. Cardinality(w.vvNew[c]) \in Nat
        BY <4>3, FS_CardinalityType
      <4> QED BY <4>1, <4>3, <4>4, AddrAssumption
    <3> QED BY <3>1, <1>1, <1>8 DEF Bounded
  <2>4. \A i \in Dom(m) \ {id} : Where(w, i) = Where(m, i)
    BY <1>7, <1>8 DEF Where
  <2>5. \A i \in Dom(m) \ {id} :
          w.mapInfo[i].nRefCount = Cardinality(Where(w, i)) + (IF i = x THEN 1 ELSE 0)
    BY <2>4, <1>1, <1>8 DEF Referred
  <2>6. \A i \in Dom(m) \ ({id} \cup TriedOf(m)) : w.mapInfo[i].nRefCount \in 1 .. PerAddress
    BY <1>1, <1>8 DEF Referred
  <2>7. \A i \in TriedOf(w) : w.mapInfo[i].nRefCount = 0 /\ w.mapInfo[i].nLastSuccess
    <3>1. \A i \in TriedOf(m) : i \in Dom(m) \ {id} /\ i \in Dom(w)
      BY <1>2, <1>8 DEF TriedOf
    <3> QED BY <3>1, <2>1, <1>1, <1>8 DEF Referred
  <2> QED BY <2>1, <2>2, <2>3, <2>4, <2>5, <2>6, <2>7
<1>9. CASE e.nRefCount = 0
  <2>1. f = Forget(d, id)
    BY <1>9, <1>5
  <2>2. /\ Fields(f) /\ Dom(f) = Dom(d) \ {id} /\ Ordered(f)
        /\ f.mapAddr = [d.mapAddr EXCEPT ![d.mapInfo[id].addr] = NoId]
        /\ f.vvNew = d.vvNew /\ f.vvTried = d.vvTried
        /\ f.nNew = d.nNew - 1 /\ f.nTried = d.nTried /\ f.nIdCount = d.nIdCount
        /\ \A i \in Dom(f) : Alike(f.mapInfo[i], d.mapInfo[i])
    <3>1. id \in Dom(d)
      BY <1>2, <1>5
    <3> QED BY <2>1, <3>1, <1>5, ForgetFacts
  <2> HIDE DEF f
  <2>3. w = PutNew(f, b, S)
    BY <1>6, <2>2, <1>5 DEF S, PutNew
  <2>4. /\ Fields(w) /\ Dom(w) = Dom(f) /\ Ordered(w) /\ w.vvNew = [f.vvNew EXCEPT ![b] = S]
        /\ w.mapInfo = f.mapInfo /\ w.mapAddr = f.mapAddr /\ w.vvTried = f.vvTried
        /\ w.nNew = f.nNew /\ w.nTried = f.nTried
    <3>1. S \in SUBSET Nat /\ Fields(f) /\ Ordered(f)
      BY <1>6, <2>2
    <3> QED BY <3>1, <2>3, BucketChanged
  <2>5. /\ Dom(w) = Dom(m) \ {id}
        /\ \A i \in Dom(w) : /\ w.mapInfo[i].addr = m.mapInfo[i].addr
                             /\ w.mapInfo[i].fInTried = m.mapInfo[i].fInTried
                             /\ w.mapInfo[i].nLastSuccess = m.mapInfo[i].nLastSuccess
                             /\ w.mapInfo[i].nRefCount = m.mapInfo[i].nRefCount
    BY <2>2, <2>4, <1>5 DEF Alike
  <2>6. /\ TriedOf(w) = TriedOf(m) /\ Settled(w) /\ Bounded(w)
        /\ \A i \in Dom(m) \ {id} :
             w.mapInfo[i].nRefCount = Cardinality(Where(w, i)) + (IF i = x THEN 1 ELSE 0)
        /\ \A i \in Dom(m) \ ({id} \cup TriedOf(m)) : w.mapInfo[i].nRefCount \in 1 .. PerAddress
        /\ \A i \in TriedOf(w) : w.mapInfo[i].nRefCount = 0 /\ w.mapInfo[i].nLastSuccess
    BY <2>2, <2>4, <2>5, <1>5, <1>8
  <2>7. Where(m, id) = {b}
    <3>1. Cardinality(Where(m, id)) = 1
      BY <1>9, <1>2, <1>3
    <3>2. \E y : Where(m, id) = {y}
      BY <3>1, <1>2, FS_Singleton
    <3> QED BY <3>2, <1>2
  <2>8. \A c \in NewBucket : w.vvNew[c] \subseteq Dom(w)
    <3>1. \A c \in NewBucket : m.vvNew[c] \subseteq Dom(m) /\ (id \in m.vvNew[c] => c = b)
      BY <2>7, <1>1 DEF Referred, Where
    <3>2. w.vvNew = [m.vvNew EXCEPT ![b] = S]
      BY <2>2, <2>4, <1>5
    <3> QED BY <3>1, <3>2, <2>5, <1>7
  <2>9. Referred(w, x)
    BY <2>5, <2>6, <2>8 DEF Referred
  <2>10. Known(w)
    <3> DEFINE a == m.mapInfo[id].addr
    <3>1. a \in Addr /\ m.mapAddr \in [Addr -> Nat \cup {NoId}] /\ \A i \in Dom(m) : m.mapInfo[i].addr \in Addr
      BY <1>1, <1>2, BookFacts DEF Entry
    <3>2. \A i \in Dom(w) : m.mapInfo[i].addr # a
      BY <1>1, <1>2, <2>5 DEF Known
    <3>3. w.mapAddr = [m.mapAddr EXCEPT ![a] = NoId]
      BY <2>2, <2>4, <1>5, <1>3
    <3>4. m.mapAddr[a] = id
      BY <1>1, <1>2 DEF Known
    <3> HIDE DEF a
    <3>5. \A i \in Dom(w) : w.mapAddr[w.mapInfo[i].addr] = i
      BY <3>1, <3>2, <3>3, <2>5, <1>1 DEF Known
    <3>6. ASSUME NEW c \in Addr, w.mapAddr[c] # NoId
          PROVE  w.mapAddr[c] \in Dom(w) /\ w.mapInfo[w.mapAddr[c]].addr = c
      <4>1. c # a /\ w.mapAddr[c] = m.mapAddr[c]
        BY <3>6, <3>1, <3>3
      <4>2. m.mapAddr[c] \in Dom(m) /\ m.mapInfo[m.mapAddr[c]].addr = c
        BY <4>1, <3>6, <1>1 DEF Known
      <4>3. m.mapAddr[c] # id
        BY <4>1, <4>2 DEF a
      <4> QED BY <4>1, <4>2, <4>3, <2>5
    <3> QED BY <3>5, <3>6 DEF Known
  <2>11. Counted(w)
    <3>1. Dom(w) \ TriedOf(w) = (Dom(m) \ TriedOf(m)) \ {id} /\ id \in Dom(m) \ TriedOf(m)
      BY <2>5, <2>6, <1>2
    <3>2. Cardinality((Dom(m) \ TriedOf(m)) \ {id}) = Cardinality(Dom(m) \ TriedOf(m)) - 1
      BY <3>1, BucketFacts, FS_RemoveElement
    <3> QED BY <3>1, <3>2, <2>2, <2>4, <2>6, <1>1, <1>5 DEF Counted
  <2>12. Kept(m, w)
    BY <2>5, <2>6 DEF Kept, TriedOf
  <2> QED BY <2>2, <2>4, <2>5, <2>6, <2>9, <2>10, <2>11, <2>12, <1>5 DEF Sound
<1>10. CASE e.nRefCount # 0
  <2>1. f = d
    BY <1>10, <1>5
  <2> HIDE DEF f
  <2>3. w = PutNew(d, b, S)
    BY <1>6, <2>1, <1>5 DEF S, PutNew
  <2>4. /\ Fields(w) /\ Dom(w) = Dom(d) /\ Ordered(w) /\ w.vvNew = [d.vvNew EXCEPT ![b] = S]
        /\ w.mapInfo = d.mapInfo /\ w.mapAddr = d.mapAddr /\ w.vvTried = d.vvTried
        /\ w.nNew = d.nNew /\ w.nTried = d.nTried
    <3>1. S \in SUBSET Nat /\ Fields(d) /\ Ordered(d)
      BY <1>6, <1>5
    <3> QED BY <3>1, <2>3, BucketChanged
  <2>5. /\ Dom(w) = Dom(m) /\ w.vvNew = [m.vvNew EXCEPT ![b] = S]
        /\ \A i \in Dom(w) : /\ w.mapInfo[i].addr = m.mapInfo[i].addr
                             /\ w.mapInfo[i].fInTried = m.mapInfo[i].fInTried
                             /\ w.mapInfo[i].nLastSuccess = m.mapInfo[i].nLastSuccess
        /\ \A i \in Dom(m) \ {id} : w.mapInfo[i].nRefCount = m.mapInfo[i].nRefCount
    <3>1. \A i \in Dom(m) \ {id} : w.mapInfo[i] = m.mapInfo[i]
      BY <2>4, <1>5
    <3>2. w.mapInfo[id] = e
      BY <2>4, <1>5
    <3> QED BY <3>1, <3>2, <2>4, <1>3, <1>5
  <2>6. /\ TriedOf(w) = TriedOf(m) /\ Settled(w) /\ Bounded(w)
        /\ \A i \in Dom(m) \ {id} :
             w.mapInfo[i].nRefCount = Cardinality(Where(w, i)) + (IF i = x THEN 1 ELSE 0)
        /\ \A i \in Dom(m) \ ({id} \cup TriedOf(m)) : w.mapInfo[i].nRefCount \in 1 .. PerAddress
        /\ \A i \in TriedOf(w) : w.mapInfo[i].nRefCount = 0 /\ w.mapInfo[i].nLastSuccess
    BY <2>4, <2>5, <1>5, <1>8
  <2>7. /\ w.mapInfo[id].nRefCount = Cardinality(Where(w, id))
        /\ w.mapInfo[id].nRefCount \in 1 .. PerAddress
    <3>1. Where(w, id) = Where(m, id) \ {b}
      BY <2>5, <1>1, BookFacts DEF Where, S
    <3>2. Cardinality(Where(w, id)) = Cardinality(Where(m, id)) - 1
      BY <3>1, <1>2, FS_RemoveElement
    <3>3. w.mapInfo[id].nRefCount = Cardinality(Where(m, id)) - 1
      BY <2>4, <1>5, <1>3
    <3>4. Cardinality(Where(m, id)) \in 1 .. PerAddress
      BY <1>1, <1>2 DEF Referred
    <3> QED BY <3>2, <3>3, <3>4, <1>2, <1>3, <1>10, AddrAssumption
  <2>8. Referred(w, x)
    <3>1. \A c \in NewBucket : w.vvNew[c] \subseteq Dom(w)
      BY <2>5, <1>1, <1>7 DEF Referred
    <3>2. \A i \in Dom(w) : w.mapInfo[i].nRefCount = Cardinality(Where(w, i)) + (IF i = x THEN 1 ELSE 0)
      <4>1. Cardinality(Where(m, id)) - 1 \in Int
        BY <1>2
      <4> QED BY <2>5, <2>6, <2>7, <1>2
    <3>3. \A i \in Dom(w) \ TriedOf(w) : w.mapInfo[i].nRefCount \in 1 .. PerAddress
      BY <2>5, <2>6, <2>7
    <3> QED BY <3>1, <3>2, <3>3, <2>6 DEF Referred
  <2>9. Known(w)
    BY <2>4, <2>5, <1>1, <1>5 DEF Known
  <2>10. Counted(w)
    BY <2>4, <2>5, <2>6, <1>1, <1>5 DEF Counted
  <2>11. Kept(m, w)
    BY <2>5, <2>6 DEF Kept, TriedOf
  <2> QED BY <2>4, <2>5, <2>6, <2>8, <2>9, <2>10, <2>11 DEF Sound
<1> QED BY <1>9, <1>10

\* The entry x gets into the bucket it is counted for.
LEMMA BucketFilled ==
  ASSUME NEW m, NEW x \in Dom(m) \ TriedOf(m), Sound(m, x), NEW b \in NewBucket,
         x \notin m.vvNew[b], Cardinality(m.vvNew[b]) < NewSize
  PROVE  LET w == PutNew(m, b, m.vvNew[b] \cup {x})
         IN  Sound(w, NoId) /\ Dom(w) = Dom(m) /\ TriedOf(w) = TriedOf(m) /\ Kept(m, w)
<1> DEFINE S == m.vvNew[b] \cup {x}
           w == PutNew(m, b, m.vvNew[b] \cup {x})
<1>1. /\ Fields(m) /\ Ordered(m) /\ Known(m) /\ Counted(m) /\ Referred(m, x) /\ Settled(m) /\ Bounded(m)
  BY DEF Sound
<1>2. Dom(m) \subseteq Nat /\ m.vvNew \in [NewBucket -> SUBSET Nat]
  BY <1>1, BookFacts
<1>3. S \in SUBSET Nat
  BY <1>2
<1> HIDE DEF S
<1>4. /\ Fields(w) /\ Dom(w) = Dom(m) /\ Ordered(w)
      /\ w.vvNew[b] = S /\ \A c \in NewBucket \ {b} : w.vvNew[c] = m.vvNew[c]
      /\ w.mapInfo = m.mapInfo /\ w.mapAddr = m.mapAddr /\ w.vvTried = m.vvTried
      /\ w.nNew = m.nNew /\ w.nTried = m.nTried
  <2>1. w = PutNew(m, b, S)
    BY DEF S
  <2>2. Fields(m) /\ Ordered(m)
    BY <1>1
  <2> HIDE DEF w
  <2>3. /\ Fields(w) /\ Dom(w) = Dom(m) /\ (Ordered(m) => Ordered(w))
        /\ w.vvNew = [m.vvNew EXCEPT ![b] = S]
        /\ w.vvNew[b] = S /\ \A c \in NewBucket \ {b} : w.vvNew[c] = m.vvNew[c]
        /\ w.mapInfo = m.mapInfo /\ w.mapAddr = m.mapAddr /\ w.vvTried = m.vvTried
        /\ w.nNew = m.nNew /\ w.nTried = m.nTried /\ w.nIdCount = m.nIdCount
    BY <2>1, <2>2, <1>3, BucketChanged
  <2> QED BY <2>2, <2>3
<1> SUFFICES Sound(w, NoId) /\ Dom(w) = Dom(m) /\ TriedOf(w) = TriedOf(m) /\ Kept(m, w)
  OBVIOUS
<1> HIDE DEF w
<1>5. TriedOf(w) = TriedOf(m)
  BY <1>4 DEF TriedOf
<1>6. Known(w) /\ Counted(w) /\ Settled(w)
  <2>1. Known(w)
    BY <1>1, <1>4 DEF Known
  <2>2. Counted(w)
    BY <1>1, <1>4, <1>5 DEF Counted
  <2>3. Settled(w)
    BY <1>1, <1>4, <1>5 DEF Settled
  <2> QED BY <2>1, <2>2, <2>3
<1>7. Bounded(w)
  <2>1. IsFiniteSet(m.vvNew[b]) /\ Cardinality(m.vvNew[b]) \in Nat
    BY BucketFacts
  <2>2. Cardinality(S) = Cardinality(m.vvNew[b]) + 1
    BY <2>1, FS_AddElement DEF S
  <2>3. Cardinality(S) <= NewSize
    BY <2>1, <2>2, AddrAssumption
  <2> QED BY <2>3, <1>1, <1>4 DEF Bounded
<1>8. Where(w, x) = Where(m, x) \cup {b} /\ b \notin Where(m, x) /\ \A i : i # x => Where(w, i) = Where(m, i)
  BY <1>4 DEF Where, S
<1>9. Cardinality(Where(w, x)) = Cardinality(Where(m, x)) + 1
  BY <1>8, BucketFacts, FS_AddElement
<1>10. NoId \notin Dom(m)
  BY <1>2 DEF NoId
<1>11. \A i \in Dom(w) : w.mapInfo[i].nRefCount = Cardinality(Where(w, i)) + (IF i = NoId THEN 1 ELSE 0)
  <2> SUFFICES ASSUME NEW i \in Dom(w)
               PROVE  w.mapInfo[i].nRefCount = Cardinality(Where(w, i)) + (IF i = NoId THEN 1 ELSE 0)
    OBVIOUS
  <2>1. w.mapInfo[i].nRefCount = Cardinality(Where(m, i)) + (IF i = x THEN 1 ELSE 0)
    BY <1>1, <1>4 DEF Referred
  <2>2. i # NoId
    BY <1>4, <1>10
  <2>3. Cardinality(Where(m, i)) \in Nat
    BY BucketFacts
  <2>4. CASE i = x
    BY <2>4, <2>1, <2>2, <2>3, <1>8, <1>9
  <2>5. CASE i # x
    <3>1. Where(w, i) = Where(m, i)
      BY <2>5, <1>8
    <3> QED BY <2>5, <2>1, <2>2, <2>3, <3>1
  <2> QED BY <2>4, <2>5
<1>12. Referred(w, NoId)
  BY <1>1, <1>4, <1>5, <1>11 DEF Referred, S
<1>13. Kept(m, w)
  BY <1>4 DEF Kept
<1> QED BY <1>4, <1>5, <1>6, <1>7, <1>12, <1>13 DEF Sound

\* Another reference is counted.
LEMMA CountedUp ==
  ASSUME NEW m, Sound(m, NoId), NEW id \in Dom(m) \ TriedOf(m),
         m.mapInfo[id].nRefCount # PerAddress
  PROVE  LET w == [m EXCEPT !.mapInfo[id].nRefCount = @ + 1]
         IN  Sound(w, id) /\ Dom(w) = Dom(m) /\ TriedOf(w) = TriedOf(m) /\ w.vvNew = m.vvNew /\ Kept(m, w)
<1> DEFINE e == [m.mapInfo[id] EXCEPT !.nRefCount = @ + 1]
           w == [m EXCEPT !.mapInfo[id].nRefCount = @ + 1]
<1>1. /\ Fields(m) /\ Ordered(m) /\ Known(m) /\ Counted(m) /\ Referred(m, NoId) /\ Settled(m) /\ Bounded(m)
  BY DEF Sound
<1>2. m.mapInfo[id] \in Entry /\ m.mapInfo[id].nRefCount \in 1 .. PerAddress /\ Dom(m) \subseteq Nat
      /\ m.mapInfo[id].nRefCount + 1 \in 1 .. PerAddress
  <2>1. m.mapInfo[id] \in Entry /\ m.mapInfo[id].nRefCount \in 1 .. PerAddress /\ Dom(m) \subseteq Nat
    BY <1>1, BucketFacts, BookFacts DEF Referred
  <2> QED BY <2>1, AddrAssumption
<1>3. /\ e \in Entry /\ e.nRandomPos = m.mapInfo[id].nRandomPos
      /\ e.nRefCount = m.mapInfo[id].nRefCount + 1 /\ e.addr = m.mapInfo[id].addr
      /\ e.fInTried = m.mapInfo[id].fInTried /\ e.nLastSuccess = m.mapInfo[id].nLastSuccess
  BY <1>2 DEF Entry
<1>4. w = PutInfo(m, id, e)
  BY DEF PutInfo
<1> SUFFICES Sound(w, id) /\ Dom(w) = Dom(m) /\ TriedOf(w) = TriedOf(m) /\ w.vvNew = m.vvNew /\ Kept(m, w)
  OBVIOUS
<1> HIDE DEF e, w
<1>5. /\ Fields(w) /\ Dom(w) = Dom(m) /\ Ordered(w)
      /\ w.mapInfo[id] = e /\ \A i \in Dom(m) \ {id} : w.mapInfo[i] = m.mapInfo[i]
      /\ w.mapAddr = m.mapAddr /\ w.vvNew = m.vvNew /\ w.vvTried = m.vvTried
      /\ w.nNew = m.nNew /\ w.nTried = m.nTried
  <2>1. Fields(m) /\ Ordered(m) /\ id \in Dom(m)
    BY <1>1
  <2>2. e \in Entry /\ e.nRandomPos = m.mapInfo[id].nRandomPos
    BY <1>3
  <2> QED BY <2>1, <2>2, <1>4, EntryChanged
<1>6. \A i \in Dom(m) : /\ w.mapInfo[i].addr = m.mapInfo[i].addr
                        /\ w.mapInfo[i].fInTried = m.mapInfo[i].fInTried
                        /\ w.mapInfo[i].nLastSuccess = m.mapInfo[i].nLastSuccess
  BY <1>3, <1>5
<1>7. TriedOf(w) = TriedOf(m)
  BY <1>5, <1>6 DEF TriedOf
<1>8. Known(w) /\ Counted(w) /\ Bounded(w)
  <2>1. Known(w)
    BY <1>1, <1>5, <1>6 DEF Known
  <2>2. Counted(w)
    BY <1>1, <1>5, <1>7 DEF Counted
  <2>3. Bounded(w)
    BY <1>1, <1>5 DEF Bounded
  <2> QED BY <2>1, <2>2, <2>3
<1>9. Settled(w)
  BY <1>1, <1>5, <1>6, <1>7 DEF Settled, TriedOf
<1>10. \A i : Where(w, i) = Where(m, i)
  BY <1>5 DEF Where
<1>11. NoId \notin Dom(m)
  BY <1>2 DEF NoId
<1>12. \A i \in Dom(w) : w.mapInfo[i].nRefCount = Cardinality(Where(w, i)) + (IF i = id THEN 1 ELSE 0)
  <2> SUFFICES ASSUME NEW i \in Dom(w)
               PROVE  w.mapInfo[i].nRefCount = Cardinality(Where(w, i)) + (IF i = id THEN 1 ELSE 0)
    OBVIOUS
  <2>1. m.mapInfo[i].nRefCount = Cardinality(Where(m, i)) /\ Cardinality(Where(m, i)) \in Nat
    <3>1. m.mapInfo[i].nRefCount = Cardinality(Where(m, i)) + (IF i = NoId THEN 1 ELSE 0) /\ i # NoId
      BY <1>1, <1>5, <1>11 DEF Referred
    <3>2. Cardinality(Where(m, i)) \in Nat
      BY BucketFacts
    <3> QED BY <3>1, <3>2
  <2> QED BY <2>1, <1>3, <1>5, <1>10
<1>13. Referred(w, id)
  BY <1>1, <1>2, <1>3, <1>5, <1>6, <1>7, <1>12 DEF Referred, TriedOf
<1>14. Kept(m, w)
  BY <1>6 DEF Kept, TriedOf
<1> QED BY <1>5, <1>7, <1>8, <1>9, <1>13, <1>14 DEF Sound

\* A new entry is created and its first reference counted.
LEMMA CreatedUp ==
  ASSUME NEW m, Sound(m, NoId), NEW a \in Addr, NEW s \in Source, m.mapAddr[a] = NoId
  PROVE  LET w == [Create(m, a, s) EXCEPT !.mapInfo[m.nIdCount].nRefCount = @ + 1]
         IN  /\ Sound(w, m.nIdCount) /\ Dom(w) = Dom(m) \cup {m.nIdCount} /\ TriedOf(w) = TriedOf(m)
             /\ m.nIdCount \notin Dom(m) /\ w.vvNew = m.vvNew /\ Kept(m, w)
<1> DEFINE w == [Create(m, a, s) EXCEPT !.mapInfo[m.nIdCount].nRefCount = @ + 1]
           id == m.nIdCount
           n == Len(m.vRandom)
           e == [Info(a, s, n) EXCEPT !.nRefCount = @ + 1]
           g == [i \in Dom(m) \cup {id} |-> IF i = id THEN e ELSE m.mapInfo[i]]
           c == [m.mapAddr EXCEPT ![a] = id]
           v == Append(m.vRandom, id)
<1>1. /\ Fields(m) /\ Ordered(m) /\ Known(m) /\ Counted(m) /\ Referred(m, NoId) /\ Settled(m) /\ Bounded(m)
  BY DEF Sound
<1>2. /\ m.mapInfo \in [Dom(m) -> Entry] /\ Dom(m) \subseteq Nat /\ Dom(m) \subseteq 0 .. id - 1
      /\ m.mapAddr \in [Addr -> Nat \cup {NoId}] /\ m.vRandom \in Seq(Nat) /\ m.nNew \in Int
      /\ id \in Nat /\ n \in Nat
  BY <1>1, BookFacts
<1>3. id \notin Dom(m) /\ NoId \notin Dom(m) /\ id # NoId
  BY <1>2 DEF NoId
<1>4. e \in Entry /\ e.addr = a /\ e.nRefCount = 1 /\ ~e.fInTried /\ e.nRandomPos = n
  <2>1. n \in Nat
    BY <1>2
  <2> DEFINE o == Info(a, s, n)
  <2> HIDE DEF n
  <2>2. o \in Entry /\ o.addr = a /\ o.nRefCount = 0 /\ o.nRandomPos = n
    BY <2>1 DEF Entry, Info
  <2>3. ~o.fInTried
    BY DEF Info
  <2>4. e = [o EXCEPT !.nRefCount = @ + 1]
    OBVIOUS
  <2> HIDE DEF o, e
  <2>5. e.addr = a /\ e.nRefCount = 1 /\ e.nRandomPos = n /\ e \in Entry /\ e.fInTried = o.fInTried
    BY <2>2, <2>4 DEF Entry
  <2> QED BY <2>3, <2>5
<1>5. /\ w.mapInfo = g /\ w.mapAddr = c /\ w.vRandom = v /\ w.nNew = m.nNew + 1
      /\ w.nIdCount = id + 1 /\ w.vvNew = m.vvNew /\ w.vvTried = m.vvTried /\ w.nTried = m.nTried
      /\ w \in Books
  <2> DEFINE h == [i \in Dom(m) \cup {id} |-> IF i = id THEN Info(a, s, n) ELSE m.mapInfo[i]]
             k == [m EXCEPT !.nIdCount = id + 1, !.mapInfo = h, !.mapAddr = c, !.vRandom = v, !.nNew = m.nNew + 1]
  <2>1. w = [k EXCEPT !.mapInfo[id].nRefCount = @ + 1]
    BY DEF Create, Dom
  <2>3. [h EXCEPT ![id].nRefCount = @ + 1] = g
    <3>1. h[id] = Info(a, s, n) /\ DOMAIN h = Dom(m) \cup {id} /\ \A i \in Dom(m) : i # id => h[i] = m.mapInfo[i]
      OBVIOUS
    <3> HIDE DEF h
    <3>2. [h EXCEPT ![id].nRefCount = @ + 1] = [h EXCEPT ![id] = e]
      BY <3>1
    <3> HIDE DEF e
    <3> QED BY <3>1, <3>2 DEF h
  <2> HIDE DEF h
  <2>4. w = [m EXCEPT !.nIdCount = id + 1, !.mapInfo = g, !.mapAddr = c, !.vRandom = v, !.nNew = m.nNew + 1]
    BY <2>1, <2>3, <1>1 DEF Fields, Books
  <2>5. g \in UNION {[D -> Entry] : D \in SUBSET Nat}
    <3>1. g \in [Dom(m) \cup {id} -> Entry] /\ Dom(m) \cup {id} \in SUBSET Nat
      <4> HIDE DEF e
      <4> QED BY <1>2, <1>4
    <3> HIDE DEF g
    <3> QED BY <3>1
  <2>6. c \in [Addr -> Nat \cup {NoId}] /\ v \in Seq(Nat) /\ m.nNew + 1 \in Int /\ id + 1 \in Nat
    BY <1>2
  <2> HIDE DEF g, c, v
  <2> QED BY <2>4, <2>5, <2>6, <1>1 DEF Fields, Books
<1> SUFFICES /\ Sound(w, id) /\ Dom(w) = Dom(m) \cup {id} /\ TriedOf(w) = TriedOf(m)
             /\ id \notin Dom(m) /\ w.vvNew = m.vvNew /\ Kept(m, w)
  OBVIOUS
<1> HIDE DEF w
<1>6. Dom(w) = Dom(m) \cup {id} /\ w.mapInfo[id] = e /\ \A i \in Dom(m) : w.mapInfo[i] = m.mapInfo[i]
  <2> HIDE DEF e
  <2> QED BY <1>3, <1>5 DEF Dom
<1>7. Fields(w)
  BY <1>1, <1>2, <1>5, <1>6 DEF Fields
<1>8. /\ w.vRandom \in Seq(Nat) /\ Len(w.vRandom) = n + 1 /\ w.vRandom[n + 1] = id
      /\ \A k \in 1 .. n : w.vRandom[k] = m.vRandom[k]
  BY <1>2, <1>5
<1>9. c[a] = id /\ \A d \in Addr \ {a} : c[d] = m.mapAddr[d]
  BY <1>2
<1> HIDE DEF e, g, c, v, n
<1>10. Ordered(w)
  <2>1. ASSUME NEW i \in Dom(m)
        PROVE  w.mapInfo[i].nRandomPos < Len(w.vRandom) /\ w.vRandom[w.mapInfo[i].nRandomPos + 1] = i
    <3> DEFINE k == m.mapInfo[i].nRandomPos
    <3>1. k \in Nat
      BY <1>2 DEF Entry
    <3>2. k < n /\ m.vRandom[k + 1] = i
      BY <1>1 DEF Ordered, n
    <3>3. w.mapInfo[i].nRandomPos = k
      BY <1>6
    <3> HIDE DEF k
    <3>4. k + 1 \in 1 .. n /\ k < n + 1
      BY <3>1, <3>2, <1>2
    <3> QED BY <3>2, <3>3, <3>4, <1>8
  <2>2. w.mapInfo[id].nRandomPos < Len(w.vRandom) /\ w.vRandom[w.mapInfo[id].nRandomPos + 1] = id
    BY <1>2, <1>4, <1>6, <1>8
  <2>3. ASSUME NEW k \in 1 .. Len(w.vRandom)
        PROVE  w.vRandom[k] \in Dom(w) /\ w.mapInfo[w.vRandom[k]].nRandomPos = k - 1
    <3>1. CASE k \in 1 .. n
      <4>1. m.vRandom[k] \in Dom(m) /\ m.mapInfo[m.vRandom[k]].nRandomPos = k - 1
        BY <3>1, <1>1 DEF Ordered, n
      <4> QED BY <3>1, <4>1, <1>6, <1>8
    <3>2. CASE k = n + 1
      BY <3>2, <1>2, <1>4, <1>6, <1>8
    <3> QED BY <3>1, <3>2, <1>2, <1>8
  <2> QED BY <2>1, <2>2, <2>3, <1>6 DEF Ordered
<1>11. Known(w)
  <2>1. ASSUME NEW i \in Dom(w) PROVE w.mapAddr[w.mapInfo[i].addr] = i
    <3>1. CASE i = id
      BY <3>1, <1>4, <1>5, <1>6, <1>9
    <3>2. CASE i \in Dom(m)
      <4>1. m.mapInfo[i].addr \in Addr /\ m.mapAddr[m.mapInfo[i].addr] = i
        BY <3>2, <1>1, <1>2 DEF Known, Entry
      <4>2. m.mapInfo[i].addr # a
        BY <4>1, <3>2, <1>3
      <4> QED BY <3>2, <4>1, <4>2, <1>5, <1>6, <1>9
    <3> QED BY <3>1, <3>2, <1>6
  <2>2. ASSUME NEW d \in Addr, w.mapAddr[d] # NoId
        PROVE  w.mapAddr[d] \in Dom(w) /\ w.mapInfo[w.mapAddr[d]].addr = d
    <3>1. CASE d = a
      BY <3>1, <1>4, <1>5, <1>6, <1>9
    <3>2. CASE d # a
      BY <2>2, <3>2, <1>1, <1>5, <1>6, <1>9 DEF Known
    <3> QED BY <3>1, <3>2
  <2> QED BY <2>1, <2>2 DEF Known
<1>12. TriedOf(w) = TriedOf(m)
  BY <1>4, <1>6 DEF TriedOf
<1>13. Counted(w)
  <2>1. Dom(w) \ TriedOf(w) = (Dom(m) \ TriedOf(m)) \cup {id} /\ id \notin Dom(m) \ TriedOf(m)
    BY <1>3, <1>6, <1>12 DEF TriedOf
  <2>2. Cardinality((Dom(m) \ TriedOf(m)) \cup {id}) = Cardinality(Dom(m) \ TriedOf(m)) + 1
    BY <2>1, BucketFacts, FS_AddElement
  <2> QED BY <2>1, <2>2, <1>1, <1>5, <1>12 DEF Counted
<1>14. Settled(w)
  BY <1>1, <1>5, <1>6, <1>12 DEF Settled, TriedOf
<1>15. Bounded(w)
  BY <1>1, <1>5 DEF Bounded
<1>16. \A i : Where(w, i) = Where(m, i)
  BY <1>5 DEF Where
<1>17. Where(m, id) = {}
  BY <1>1, <1>3 DEF Where, Referred
<1>18. \A i \in Dom(w) : w.mapInfo[i].nRefCount = Cardinality(Where(w, i)) + (IF i = id THEN 1 ELSE 0)
  <2>1. w.mapInfo[id].nRefCount = Cardinality(Where(w, id)) + 1
    BY <1>4, <1>6, <1>16, <1>17, FS_EmptySet
  <2>2. ASSUME NEW i \in Dom(m)
        PROVE  w.mapInfo[i].nRefCount = Cardinality(Where(w, i)) + (IF i = id THEN 1 ELSE 0)
    <3>1. m.mapInfo[i].nRefCount = Cardinality(Where(m, i)) + (IF i = NoId THEN 1 ELSE 0) /\ i # NoId /\ i # id
      BY <1>1, <1>3 DEF Referred
    <3> QED BY <3>1, <1>6, <1>16
  <2> QED BY <2>1, <2>2, <1>6
<1>19. Referred(w, id)
  <2>1. \A i \in Dom(w) \ TriedOf(w) : w.mapInfo[i].nRefCount \in 1 .. PerAddress
    BY <1>1, <1>4, <1>6, <1>12, AddrAssumption DEF Referred
  <2>2. \A i \in TriedOf(w) : w.mapInfo[i].nRefCount = 0 /\ w.mapInfo[i].nLastSuccess
    BY <1>1, <1>6, <1>12 DEF Referred, TriedOf
  <2>3. \A b \in NewBucket : w.vvNew[b] \subseteq Dom(w)
    BY <1>1, <1>5, <1>6 DEF Referred
  <2> QED BY <2>1, <2>2, <2>3, <1>18 DEF Referred
<1>20. Kept(m, w)
  BY <1>6 DEF Kept, TriedOf
<1> QED BY <1>3, <1>5, <1>6, <1>7, <1>10, <1>11, <1>12, <1>13, <1>14, <1>15, <1>19, <1>20 DEF Sound

\* The end of Add_: a bucket with room, or one that ShrinkNew makes room in.
LEMMA RoomMade ==
  ASSUME NEW r, NEW id \in Dom(r) \ TriedOf(r), Sound(r, id), NEW b \in NewBucket, id \notin r.vvNew[b],
         NEW w, w \in (IF Cardinality(r.vvNew[b]) = NewSize
                       THEN {[ShrinkNew(r, b, k) EXCEPT !.vvNew[b] = @ \cup {id}] : k \in r.vvNew[b]}
                       ELSE {[r EXCEPT !.vvNew[b] = @ \cup {id}]})
  PROVE  Sound(w, NoId) /\ TriedOf(w) = TriedOf(r) /\ Kept(r, w)
<1>1. IsFiniteSet(r.vvNew[b]) /\ Cardinality(r.vvNew[b]) \in Nat /\ Cardinality(r.vvNew[b]) <= NewSize
  BY BucketFacts DEF Sound, Bounded
<1>2. CASE Cardinality(r.vvNew[b]) = NewSize
  <2>1. PICK k \in r.vvNew[b] : w = [ShrinkNew(r, b, k) EXCEPT !.vvNew[b] = @ \cup {id}]
    BY <1>2
  <2> DEFINE u == ShrinkNew(r, b, k)
  <2>2. k # id
    OBVIOUS
  <2>3. /\ Sound(u, id) /\ u.vvNew = [r.vvNew EXCEPT ![b] = @ \ {k}]
        /\ Dom(r) \ {k} \subseteq Dom(u) /\ Dom(u) \subseteq Dom(r) /\ TriedOf(u) = TriedOf(r)
        /\ Kept(r, u)
    BY <2>2, ShrinkFacts
  <2>4. w = PutNew(u, b, u.vvNew[b] \cup {id})
    BY <2>1 DEF PutNew
  <2> HIDE DEF u
  <2>5. r.vvNew \in [NewBucket -> SUBSET Nat]
    BY BookFacts DEF Sound
  <2>6. u.vvNew[b] = r.vvNew[b] \ {k}
    BY <2>3, <2>5
  <2>7. Cardinality(u.vvNew[b]) < NewSize
    <3>1. Cardinality(r.vvNew[b] \ {k}) = Cardinality(r.vvNew[b]) - 1
      BY <1>1, FS_RemoveElement
    <3> QED BY <3>1, <2>6, <1>1, AddrAssumption
  <2>8. id \in Dom(u) \ TriedOf(u) /\ id \notin u.vvNew[b]
    BY <2>2, <2>3, <2>6
  <2>9. Sound(w, NoId) /\ TriedOf(w) = TriedOf(u) /\ Kept(u, w)
    BY <2>3, <2>4, <2>7, <2>8, BucketFilled
  <2> QED BY <2>3, <2>9 DEF Kept
<1>3. CASE Cardinality(r.vvNew[b]) # NewSize
  <2>1. w = PutNew(r, b, r.vvNew[b] \cup {id})
    BY <1>3 DEF PutNew
  <2>2. Cardinality(r.vvNew[b]) < NewSize
    BY <1>1, <1>3, AddrAssumption
  <2> QED BY <2>1, <2>2, BucketFilled
<1> QED BY <1>2, <1>3

\* Add_ keeps the book sound and forgets no tried entry.
LEMMA AddSound ==
  ASSUME Sound(book, NoId), NEW a \in Addr, NEW s \in Source, Add(a, s)
  PROVE  Sound(book', NoId) /\ TriedOf(book') = TriedOf(book) /\ Kept(book, book')
<1> DEFINE m == book
           id == book.mapAddr[a]
           b == NewBucketOf[a, s]
<1>1. b \in NewBucket
  BY AddrAssumption
<1>2. CASE /\ id # NoId /\ ~book.mapInfo[id].fInTried /\ book.mapInfo[id].nRefCount # PerAddress
           /\ book' \in Inserted(book, id, b)
  <2>1. id \in Dom(book) \ TriedOf(book)
    BY <1>2 DEF Sound, Known, TriedOf
  <2> DEFINE r == [book EXCEPT !.mapInfo[id].nRefCount = @ + 1]
  <2>2. Sound(r, id) /\ Dom(r) = Dom(book) /\ TriedOf(r) = TriedOf(book) /\ r.vvNew = book.vvNew
        /\ Kept(book, r)
    BY <1>2, <2>1, CountedUp
  <2>3. CASE id \in book.vvNew[b]
    <3>1. book' = book
      BY <1>2, <2>3 DEF Inserted
    <3> QED BY <3>1 DEF Kept
  <2>4. CASE id \notin book.vvNew[b]
    <3>1. book' \in (IF Cardinality(book.vvNew[b]) = NewSize
                     THEN {[ShrinkNew(r, b, k) EXCEPT !.vvNew[b] = @ \cup {id}] : k \in book.vvNew[b]}
                     ELSE {[r EXCEPT !.vvNew[b] = @ \cup {id}]})
      BY <1>2, <2>4 DEF Inserted
    <3> HIDE DEF r, id, b
    <3>2. id \in Dom(r) \ TriedOf(r) /\ id \notin r.vvNew[b]
      BY <2>1, <2>2, <2>4
    <3>3. book' \in (IF Cardinality(r.vvNew[b]) = NewSize
                     THEN {[ShrinkNew(r, b, k) EXCEPT !.vvNew[b] = @ \cup {id}] : k \in r.vvNew[b]}
                     ELSE {[r EXCEPT !.vvNew[b] = @ \cup {id}]})
      BY <3>1, <2>2
    <3>4. Sound(book', NoId) /\ TriedOf(book') = TriedOf(r) /\ Kept(r, book')
      BY <3>2, <3>3, <2>2, <1>1, RoomMade
    <3> QED BY <3>4, <2>2 DEF Kept
  <2> QED BY <2>3, <2>4
<1>3. CASE id = NoId /\ book' \in Inserted(Create(book, a, s), book.nIdCount, b)
  <2> DEFINE n == book.nIdCount
             c == Create(book, a, s)
             r == [c EXCEPT !.mapInfo[n].nRefCount = @ + 1]
  <2>1. /\ Sound(r, n) /\ Dom(r) = Dom(book) \cup {n} /\ TriedOf(r) = TriedOf(book)
        /\ n \notin Dom(book) /\ r.vvNew = book.vvNew /\ Kept(book, r)
    BY <1>3, CreatedUp
  <2>2. c.vvNew = book.vvNew
    BY DEF Create, Sound, Fields, Books
  <2>3. n \notin book.vvNew[b]
    BY <2>1, <1>1 DEF Sound, Referred
  <2>4. book' \in (IF Cardinality(r.vvNew[b]) = NewSize
                   THEN {[ShrinkNew(r, b, k) EXCEPT !.vvNew[b] = @ \cup {n}] : k \in r.vvNew[b]}
                   ELSE {[r EXCEPT !.vvNew[b] = @ \cup {n}]})
    <3>1. book' \in (IF Cardinality(c.vvNew[b]) = NewSize
                     THEN {[ShrinkNew(r, b, k) EXCEPT !.vvNew[b] = @ \cup {n}] : k \in c.vvNew[b]}
                     ELSE {[r EXCEPT !.vvNew[b] = @ \cup {n}]})
      <4> HIDE DEF c, b
      <4> QED BY <1>3, <2>2, <2>3 DEF Inserted, c, b
    <3> HIDE DEF r, c, n, b
    <3> QED BY <3>1, <2>1, <2>2
  <2> HIDE DEF r, c, n, b
  <2>5. n \in Dom(r) \ TriedOf(r) /\ n \notin r.vvNew[b]
    BY <2>1, <2>3 DEF TriedOf
  <2>6. Sound(book', NoId) /\ TriedOf(book') = TriedOf(r) /\ Kept(r, book')
    BY <2>4, <2>5, <2>1, <1>1, RoomMade
  <2> QED BY <2>6, <2>1 DEF Kept
<1> QED BY <1>2, <1>3 DEF Add

\* A successful connection is noted.
LEMMA SuccessNoted ==
  ASSUME NEW m, Sound(m, NoId), NEW id \in Dom(m)
  PROVE  LET w == [m EXCEPT !.mapInfo[id].nLastSuccess = TRUE]
         IN  /\ Sound(w, NoId) /\ Dom(w) = Dom(m) /\ TriedOf(w) = TriedOf(m) /\ w.vvNew = m.vvNew
             /\ w.mapInfo[id].nLastSuccess
<1> DEFINE e == [m.mapInfo[id] EXCEPT !.nLastSuccess = TRUE]
           w == [m EXCEPT !.mapInfo[id].nLastSuccess = TRUE]
<1>1. /\ Fields(m) /\ Ordered(m) /\ Known(m) /\ Counted(m) /\ Referred(m, NoId) /\ Settled(m) /\ Bounded(m)
  BY DEF Sound
<1>2. m.mapInfo[id] \in Entry
  BY BucketFacts
<1>3. /\ e \in Entry /\ e.nRandomPos = m.mapInfo[id].nRandomPos
      /\ e.nRefCount = m.mapInfo[id].nRefCount /\ e.addr = m.mapInfo[id].addr
      /\ e.fInTried = m.mapInfo[id].fInTried /\ e.nLastSuccess = TRUE
  BY <1>2 DEF Entry
<1>4. w = PutInfo(m, id, e)
  BY DEF PutInfo
<1> SUFFICES /\ Sound(w, NoId) /\ Dom(w) = Dom(m) /\ TriedOf(w) = TriedOf(m) /\ w.vvNew = m.vvNew
             /\ w.mapInfo[id].nLastSuccess
  OBVIOUS
<1> HIDE DEF e, w
<1>5. /\ Fields(w) /\ Dom(w) = Dom(m) /\ Ordered(w)
      /\ w.mapInfo[id] = e /\ \A i \in Dom(m) \ {id} : w.mapInfo[i] = m.mapInfo[i]
      /\ w.mapAddr = m.mapAddr /\ w.vvNew = m.vvNew /\ w.vvTried = m.vvTried
      /\ w.nNew = m.nNew /\ w.nTried = m.nTried
  <2>1. Fields(m) /\ Ordered(m) /\ id \in Dom(m)
    BY <1>1
  <2>2. e \in Entry /\ e.nRandomPos = m.mapInfo[id].nRandomPos
    BY <1>3
  <2> QED BY <2>1, <2>2, <1>4, EntryChanged
<1>6. \A i \in Dom(m) : /\ w.mapInfo[i].addr = m.mapInfo[i].addr
                        /\ w.mapInfo[i].fInTried = m.mapInfo[i].fInTried
                        /\ w.mapInfo[i].nRefCount = m.mapInfo[i].nRefCount
  BY <1>3, <1>5
<1>7. \A i \in Dom(m) : m.mapInfo[i].nLastSuccess => w.mapInfo[i].nLastSuccess
  BY <1>3, <1>5
<1>8. TriedOf(w) = TriedOf(m)
  BY <1>5, <1>6 DEF TriedOf
<1>9. Known(w)
  BY <1>1, <1>5, <1>6 DEF Known
<1>10. Counted(w)
  BY <1>1, <1>5, <1>8 DEF Counted
<1>11. Bounded(w)
  BY <1>1, <1>5 DEF Bounded
<1>12. Settled(w)
  BY <1>1, <1>5, <1>6, <1>8 DEF Settled, TriedOf
<1>13. Referred(w, NoId)
  <2>1. \A i : Where(w, i) = Where(m, i)
    BY <1>5 DEF Where
  <2>2. \A i \in Dom(w) : w.mapInfo[i].nRefCount = Cardinality(Where(w, i)) + (IF i = NoId THEN 1 ELSE 0)
    BY <2>1, <1>1, <1>5, <1>6 DEF Referred
  <2>3. \A i \in TriedOf(w) : w.mapInfo[i].nRefCount = 0 /\ w.mapInfo[i].nLastSuccess
    BY <1>1, <1>6, <1>7, <1>8 DEF Referred, TriedOf
  <2>4. \A i \in Dom(w) \ TriedOf(w) : w.mapInfo[i].nRefCount \in 1 .. PerAddress
    BY <1>1, <1>5, <1>6, <1>8 DEF Referred
  <2> QED BY <2>2, <2>3, <2>4, <1>1, <1>5 DEF Referred
<1> QED BY <1>3, <1>5, <1>8, <1>9, <1>10, <1>11, <1>12, <1>13 DEF Sound

\* MakeTried takes the entry out of its new buckets; until it is in a tried one
\* the book is this.
Moving(m, id) ==
  [m EXCEPT !.vvNew = [b \in NewBucket |-> m.vvNew[b] \ {id}],
            !.mapInfo[id].nRefCount = @ - Cardinality(Where(m, id)),
            !.mapInfo[id].fInTried  = TRUE,
            !.nNew = @ - 1]

\* r is m with the entry id on its way.
Moved(m, id, r) ==
  /\ Fields(r) /\ Ordered(r) /\ Dom(r) = Dom(m) /\ TriedOf(r) = TriedOf(m) \cup {id}
  /\ \A i \in Dom(m) : /\ r.mapInfo[i].addr = m.mapInfo[i].addr
                       /\ r.mapInfo[i].source = m.mapInfo[i].source
                       /\ r.mapInfo[i].nLastSuccess = m.mapInfo[i].nLastSuccess
  /\ \A i \in Dom(m) \ {id} : r.mapInfo[i] = m.mapInfo[i]
  /\ r.mapInfo[id].nRefCount = 0
  /\ \A b \in NewBucket : r.vvNew[b] = m.vvNew[b] \ {id}
  /\ r.mapAddr = m.mapAddr /\ r.vvTried = m.vvTried
  /\ r.nNew = m.nNew - 1 /\ r.nTried = m.nTried /\ r.nIdCount = m.nIdCount

\* The entry is in no bucket and everything else is as it was.
LEMMA MovingFacts ==
  ASSUME NEW m, Sound(m, NoId), NEW id \in Dom(m) \ TriedOf(m), m.mapInfo[id].nLastSuccess
  PROVE  Moved(m, id, Moving(m, id))
<1> DEFINE e == [m.mapInfo[id] EXCEPT !.nRefCount = @ - Cardinality(Where(m, id)), !.fInTried = TRUE]
           r == Moving(m, id)
           N == [b \in NewBucket |-> m.vvNew[b] \ {id}]
           u == PutInfo(m, id, e)
<1>1. /\ Fields(m) /\ Ordered(m) /\ Referred(m, NoId)
  BY DEF Sound
<1>2. /\ m.mapInfo[id] \in Entry /\ Cardinality(Where(m, id)) \in Nat
      /\ m.mapInfo[id].nRefCount = Cardinality(Where(m, id))
  <2>1. m.mapInfo[id] \in Entry /\ Cardinality(Where(m, id)) \in Nat
    BY BucketFacts
  <2>2. id # NoId
    BY <1>1, BookFacts DEF NoId
  <2> QED BY <1>1, <2>1, <2>2 DEF Referred
<1>3. /\ e \in Entry /\ e.nRandomPos = m.mapInfo[id].nRandomPos
      /\ e.nRefCount = 0 /\ e.addr = m.mapInfo[id].addr /\ e.source = m.mapInfo[id].source
      /\ e.fInTried = TRUE /\ e.nLastSuccess = m.mapInfo[id].nLastSuccess
  <2> DEFINE o == m.mapInfo[id]
             c == Cardinality(Where(m, id))
             e1 == [o EXCEPT !.nRefCount = o.nRefCount - c]
  <2>1. o \in Entry /\ o.nRefCount - c = 0
    BY <1>2
  <2>2. e = [e1 EXCEPT !.fInTried = TRUE]
    OBVIOUS
  <2> HIDE DEF o, c, e
  <2>3. /\ e1 \in Entry /\ e1.nRandomPos = o.nRandomPos /\ e1.nRefCount = 0 /\ e1.addr = o.addr
        /\ e1.source = o.source /\ e1.nLastSuccess = o.nLastSuccess
    BY <2>1 DEF Entry
  <2> HIDE DEF e1
  <2>4. /\ e \in Entry /\ e.nRandomPos = e1.nRandomPos /\ e.nRefCount = e1.nRefCount /\ e.addr = e1.addr
        /\ e.source = e1.source /\ e.nLastSuccess = e1.nLastSuccess /\ e.fInTried = TRUE
    BY <2>2, <2>3 DEF Entry
  <2> QED BY <2>3, <2>4 DEF o
<1>4. r = [u EXCEPT !.vvNew = N, !.nNew = m.nNew - 1]
  <2> DEFINE g == [m.mapInfo EXCEPT ![id] = e]
  <2>1. [[m.mapInfo EXCEPT ![id].nRefCount = @ - Cardinality(Where(m, id))] EXCEPT ![id].fInTried = TRUE] = g
    OBVIOUS
  <2>2. r = [m EXCEPT !.vvNew = N, !.mapInfo = g, !.nNew = m.nNew - 1]
    BY <2>1, <1>1 DEF Moving, Fields, Books
  <2>3. u = [m EXCEPT !.mapInfo = g]
    BY DEF PutInfo
  <2> HIDE DEF g, N, u, r, e
  <2> QED BY <2>2, <2>3, <1>1 DEF Fields, Books
<1> HIDE DEF e, u, N
<1>5. /\ Fields(u) /\ Dom(u) = Dom(m) /\ Ordered(u)
      /\ u.mapInfo[id] = e /\ \A i \in Dom(m) \ {id} : u.mapInfo[i] = m.mapInfo[i]
      /\ u.mapAddr = m.mapAddr /\ u.vvNew = m.vvNew /\ u.vvTried = m.vvTried
      /\ u.nNew = m.nNew /\ u.nTried = m.nTried /\ u.nIdCount = m.nIdCount
  <2>1. id \in Dom(m) /\ e \in Entry /\ e.nRandomPos = m.mapInfo[id].nRandomPos
    BY <1>3
  <2>2. u = PutInfo(m, id, e)
    BY DEF u
  <2> QED BY <2>1, <2>2, <1>1, EntryChanged
<1>6. N \in [NewBucket -> SUBSET Nat] /\ \A b \in NewBucket : N[b] = m.vvNew[b] \ {id}
  BY <1>1, BookFacts DEF N
<1>7. m.nNew - 1 \in Int
  BY <1>1, BookFacts
<1>8. /\ r.mapInfo = u.mapInfo /\ r.vRandom = u.vRandom /\ r.vvNew = N /\ r.nNew = m.nNew - 1
      /\ r.mapAddr = u.mapAddr /\ r.vvTried = u.vvTried /\ r.nTried = u.nTried /\ r.nIdCount = u.nIdCount
      /\ r \in Books
  <2>1. u \in Books
    BY <1>5 DEF Fields
  <2> HIDE DEF r
  <2> QED BY <2>1, <1>4, <1>6, <1>7 DEF Books
<1> SUFFICES Moved(m, id, r)
  OBVIOUS
<1> HIDE DEF r
<1>9. Dom(r) = Dom(m) /\ Ordered(r)
  BY <1>5, <1>8 DEF Dom, Ordered
<1>10. Fields(r)
  BY <1>5, <1>8, <1>9 DEF Fields
<1>11. TriedOf(r) = TriedOf(m) \cup {id}
  <2>1. \A i \in Dom(m) \ {id} : r.mapInfo[i] = m.mapInfo[i]
    BY <1>5, <1>8
  <2>2. r.mapInfo[id].fInTried
    BY <1>3, <1>5, <1>8
  <2> QED BY <2>1, <2>2, <1>9 DEF TriedOf
<1>12. \A i \in Dom(m) : /\ r.mapInfo[i].addr = m.mapInfo[i].addr
                         /\ r.mapInfo[i].source = m.mapInfo[i].source
                         /\ r.mapInfo[i].nLastSuccess = m.mapInfo[i].nLastSuccess
  BY <1>3, <1>5, <1>8
<1>13. r.mapInfo[id].nRefCount = 0
  BY <1>3, <1>5, <1>8
<1> QED BY <1>5, <1>6, <1>8, <1>9, <1>10, <1>11, <1>12, <1>13 DEF Moved

\* A tried bucket is replaced.
PutTried(m, k, S, n) == [m EXCEPT !.vvTried[k] = S, !.nTried = n]

\* w is m with another tried bucket.
HasTried(m, k, S, n, w) ==
  /\ Fields(w) /\ Dom(w) = Dom(m) /\ Ordered(w)
  /\ w.vvTried[k] = S /\ \A c \in TriedBucket \ {k} : w.vvTried[c] = m.vvTried[c]
  /\ w.mapInfo = m.mapInfo /\ w.mapAddr = m.mapAddr /\ w.vvNew = m.vvNew
  /\ w.nNew = m.nNew /\ w.nTried = n /\ w.nIdCount = m.nIdCount

\* Nothing else changes.
LEMMA TriedChanged ==
  ASSUME NEW m, Fields(m), Ordered(m), NEW k \in TriedBucket, NEW S \in SUBSET Nat, NEW n \in Int,
         NEW w, w = PutTried(m, k, S, n)
  PROVE  HasTried(m, k, S, n, w)
<1> DEFINE g == [m.vvTried EXCEPT ![k] = S]
<1>1. m.vvTried \in [TriedBucket -> SUBSET Nat]
  BY BookFacts
<1>2. g \in [TriedBucket -> SUBSET Nat] /\ g[k] = S /\ \A c \in TriedBucket \ {k} : g[c] = m.vvTried[c]
  BY <1>1
<1>3. w = [m EXCEPT !.vvTried = g, !.nTried = n]
  BY DEF PutTried
<1> HIDE DEF g
<1>4. /\ w.vvTried = g /\ w.vRandom = m.vRandom
      /\ w.mapInfo = m.mapInfo /\ w.mapAddr = m.mapAddr /\ w.vvNew = m.vvNew
      /\ w.nNew = m.nNew /\ w.nTried = n /\ w.nIdCount = m.nIdCount /\ w \in Books
  BY <1>2, <1>3 DEF Fields, Books
<1>5. Dom(w) = Dom(m) /\ Ordered(w) /\ Fields(w)
  BY <1>4 DEF Dom, Ordered, Fields
<1> QED BY <1>2, <1>4, <1>5 DEF HasTried

\* The tried bucket of the entry has room.
LEMMA TriedWithRoom ==
  ASSUME NEW m, Sound(m, NoId), NEW id \in Dom(m) \ TriedOf(m), m.mapInfo[id].nLastSuccess,
         NEW r, Moved(m, id, r), NEW k \in TriedBucket, TriedBucketOf[m.mapInfo[id].addr] = k,
         Cardinality(m.vvTried[k]) < TriedSize,
         NEW w, HasTried(r, k, m.vvTried[k] \cup {id}, m.nTried + 1, w)
  PROVE  Sound(w, NoId) /\ w.mapAddr = m.mapAddr
<1>1. /\ Fields(m) /\ Ordered(m) /\ Known(m) /\ Counted(m) /\ Referred(m, NoId) /\ Settled(m) /\ Bounded(m)
  BY DEF Sound
<1>2. /\ Fields(r) /\ Ordered(r) /\ Dom(r) = Dom(m) /\ TriedOf(r) = TriedOf(m) \cup {id}
      /\ \A i \in Dom(m) : /\ r.mapInfo[i].addr = m.mapInfo[i].addr
                           /\ r.mapInfo[i].source = m.mapInfo[i].source
                           /\ r.mapInfo[i].nLastSuccess = m.mapInfo[i].nLastSuccess
      /\ \A i \in Dom(m) \ {id} : r.mapInfo[i] = m.mapInfo[i]
      /\ r.mapInfo[id].nRefCount = 0
      /\ \A b \in NewBucket : r.vvNew[b] = m.vvNew[b] \ {id}
      /\ r.mapAddr = m.mapAddr /\ r.vvTried = m.vvTried
      /\ r.nNew = m.nNew - 1 /\ r.nTried = m.nTried /\ r.nIdCount = m.nIdCount
  BY DEF Moved
<1>3. /\ m.mapInfo[id] \in Entry /\ Dom(m) \subseteq Nat /\ m.nTried \in Int /\ m.nNew \in Int
      /\ m.vvTried \in [TriedBucket -> SUBSET Nat] /\ m.vvNew \in [NewBucket -> SUBSET Nat]
  BY <1>1, BookFacts
<1>7. /\ Fields(w) /\ Dom(w) = Dom(m) /\ Ordered(w)
      /\ w.vvTried[k] = m.vvTried[k] \cup {id} /\ \A c \in TriedBucket \ {k} : w.vvTried[c] = m.vvTried[c]
      /\ w.mapInfo = r.mapInfo /\ w.mapAddr = m.mapAddr /\ w.vvNew = r.vvNew
      /\ w.nNew = m.nNew - 1 /\ w.nTried = m.nTried + 1
  BY <1>2 DEF HasTried
<1>8. TriedOf(w) = TriedOf(m) \cup {id}
  BY <1>2, <1>7 DEF TriedOf
<1>9. \A i \in Dom(m) : w.mapInfo[i].addr = m.mapInfo[i].addr
  BY <1>2, <1>7
<1>10. Known(w)
  BY <1>1, <1>7, <1>9 DEF Known
<1>11. IsFiniteSet(TriedOf(m)) /\ IsFiniteSet(Dom(m) \ TriedOf(m))
  BY BucketFacts
<1>12. Counted(w)
  <2>1. Dom(w) \ TriedOf(w) = (Dom(m) \ TriedOf(m)) \ {id}
    BY <1>7, <1>8
  <2>2. Cardinality((Dom(m) \ TriedOf(m)) \ {id}) = Cardinality(Dom(m) \ TriedOf(m)) - 1
    BY <1>11, FS_RemoveElement
  <2>3. Cardinality(TriedOf(m) \cup {id}) = Cardinality(TriedOf(m)) + 1
    BY <1>11, FS_AddElement
  <2> QED BY <2>1, <2>2, <2>3, <1>1, <1>7, <1>8 DEF Counted
<1>13. Where(w, id) = {} /\ \A i : i # id => Where(w, i) = Where(m, i)
  BY <1>2, <1>7 DEF Where
<1>14. Referred(w, NoId)
  <2>1. \A b \in NewBucket : w.vvNew[b] \subseteq Dom(w)
    BY <1>1, <1>2, <1>7 DEF Referred
  <2>2. NoId \notin Dom(m)
    BY <1>3 DEF NoId
  <2>3. Cardinality(Where(w, id)) = 0
    BY <1>13, FS_EmptySet
  <2>4. \A i \in Dom(w) : w.mapInfo[i].nRefCount = Cardinality(Where(w, i)) + (IF i = NoId THEN 1 ELSE 0)
    <3>1. \A i \in Dom(m) \ {id} : w.mapInfo[i].nRefCount = Cardinality(Where(w, i)) + (IF i = NoId THEN 1 ELSE 0)
      BY <1>1, <1>2, <1>7, <1>13 DEF Referred
    <3> QED BY <3>1, <2>2, <2>3, <1>2, <1>7
  <2>5. \A i \in Dom(w) \ TriedOf(w) : w.mapInfo[i].nRefCount \in 1 .. PerAddress
    BY <1>1, <1>2, <1>7, <1>8 DEF Referred
  <2>6. \A i \in TriedOf(w) : w.mapInfo[i].nRefCount = 0 /\ w.mapInfo[i].nLastSuccess
    BY <1>1, <1>2, <1>7, <1>8 DEF Referred, TriedOf
  <2> QED BY <2>1, <2>4, <2>5, <2>6 DEF Referred
<1>15. Settled(w)
  <2> SUFFICES ASSUME NEW c \in TriedBucket
               PROVE  w.vvTried[c] = {i \in TriedOf(w) : TriedBucketOf[w.mapInfo[i].addr] = c}
    BY DEF Settled
  <2>1. m.vvTried[c] = {i \in TriedOf(m) : TriedBucketOf[m.mapInfo[i].addr] = c}
    BY <1>1 DEF Settled
  <2>2. \A i \in TriedOf(w) : w.mapInfo[i].addr = m.mapInfo[i].addr
    BY <1>9, <1>7 DEF TriedOf
  <2>3. w.vvTried[c] = IF c = k THEN m.vvTried[c] \cup {id} ELSE m.vvTried[c]
    BY <1>7
  <2> QED BY <2>1, <2>2, <2>3, <1>8
<1>16. Bounded(w)
  <2>1. ASSUME NEW b \in NewBucket PROVE Cardinality(w.vvNew[b]) <= NewSize
    <3>1. IsFiniteSet(m.vvNew[b]) /\ Cardinality(m.vvNew[b]) \in Nat /\ Cardinality(m.vvNew[b]) <= NewSize
      BY <1>1, BucketFacts DEF Bounded
    <3>2. w.vvNew[b] \in SUBSET m.vvNew[b]
      BY <1>2, <1>7
    <3>3. IsFiniteSet(w.vvNew[b]) /\ Cardinality(w.vvNew[b]) <= Cardinality(m.vvNew[b])
      BY <3>1, <3>2, FS_Subset
    <3>4. Cardinality(w.vvNew[b]) \in Nat
      BY <3>3, FS_CardinalityType
    <3> QED BY <3>1, <3>3, <3>4, AddrAssumption
  <2>2. Cardinality(w.vvTried[k]) <= TriedSize
    <3>1. IsFiniteSet(m.vvTried[k]) /\ Cardinality(m.vvTried[k]) \in Nat /\ id \notin m.vvTried[k]
      BY BucketFacts
    <3>2. Cardinality(m.vvTried[k] \cup {id}) = Cardinality(m.vvTried[k]) + 1
      BY <3>1, FS_AddElement
    <3> QED BY <3>1, <3>2, <1>7, AddrAssumption
  <2> QED BY <2>1, <2>2, <1>1, <1>7 DEF Bounded
<1> QED BY <1>7, <1>10, <1>12, <1>14, <1>15, <1>16 DEF Sound

\* An entry goes back from its tried bucket to the new bucket c.
Returned(r, old, c, d) ==
  /\ Fields(d) /\ Ordered(d) /\ Dom(d) = Dom(r) /\ TriedOf(d) = TriedOf(r) \ {old}
  /\ \A i \in Dom(r) : /\ d.mapInfo[i].addr = r.mapInfo[i].addr
                       /\ d.mapInfo[i].nLastSuccess = r.mapInfo[i].nLastSuccess
  /\ \A i \in Dom(r) \ {old} : d.mapInfo[i].nRefCount = r.mapInfo[i].nRefCount
  /\ d.mapInfo[old].nRefCount = 1
  /\ d.vvNew[c] = r.vvNew[c] \cup {old} /\ \A b \in NewBucket \ {c} : d.vvNew[b] = r.vvNew[b]
  /\ d.mapAddr = r.mapAddr /\ d.vvTried = r.vvTried
  /\ d.nNew = r.nNew + 1 /\ d.nTried = r.nTried /\ d.nIdCount = r.nIdCount

\* The entry that leaves goes to a bucket and everything else is as it was.
LEMMA DemotedFacts ==
  ASSUME NEW r, Fields(r), Ordered(r), NEW old \in Dom(r), NEW origin, Refuge(r, old, origin) \in NewBucket
  PROVE  Returned(r, old, Refuge(r, old, origin), Demoted(r, old, origin))
<1> DEFINE c == Refuge(r, old, origin)
           d == Demoted(r, old, origin)
           e == [r.mapInfo[old] EXCEPT !.fInTried = FALSE, !.nRefCount = 1]
           u == PutInfo(r, old, e)
           N == [r.vvNew EXCEPT ![c] = @ \cup {old}]
<1>1. /\ r.mapInfo \in [Dom(r) -> Entry] /\ r.mapInfo[old] \in Entry /\ Dom(r) \subseteq Nat
      /\ r.vvNew \in [NewBucket -> SUBSET Nat] /\ r.nNew \in Int
  BY BookFacts
<1>2. /\ e \in Entry /\ e.nRandomPos = r.mapInfo[old].nRandomPos
      /\ e.nRefCount = 1 /\ e.addr = r.mapInfo[old].addr
      /\ e.fInTried = FALSE /\ e.nLastSuccess = r.mapInfo[old].nLastSuccess
  <2> DEFINE o == r.mapInfo[old]
             e1 == [o EXCEPT !.fInTried = FALSE]
  <2>1. o \in Entry
    BY <1>1
  <2>2. e = [e1 EXCEPT !.nRefCount = 1]
    OBVIOUS
  <2> HIDE DEF o, e
  <2>3. /\ e1 \in Entry /\ e1.nRandomPos = o.nRandomPos /\ e1.addr = o.addr
        /\ e1.fInTried = FALSE /\ e1.nLastSuccess = o.nLastSuccess
    BY <2>1 DEF Entry
  <2> HIDE DEF e1
  <2>4. /\ e \in Entry /\ e.nRandomPos = e1.nRandomPos /\ e.nRefCount = 1 /\ e.addr = e1.addr
        /\ e.nLastSuccess = e1.nLastSuccess /\ e.fInTried = e1.fInTried
    BY <2>2, <2>3 DEF Entry
  <2> QED BY <2>3, <2>4 DEF o
<1>3. d = [u EXCEPT !.vvNew = N, !.nNew = r.nNew + 1]
  <2> DEFINE g == [r.mapInfo EXCEPT ![old] = e]
  <2>1. [[r.mapInfo EXCEPT ![old].fInTried = FALSE] EXCEPT ![old].nRefCount = 1] = g
    OBVIOUS
  <2> HIDE DEF c
  <2>2. d = [r EXCEPT !.vvNew = N, !.mapInfo = g, !.nNew = r.nNew + 1]
    BY <2>1 DEF Demoted, Fields, Books, c
  <2>3. u = [r EXCEPT !.mapInfo = g]
    BY DEF PutInfo
  <2> HIDE DEF g, N, u, d, e
  <2> QED BY <2>2, <2>3 DEF Fields, Books
<1> SUFFICES Returned(r, old, c, d)
  OBVIOUS
<1>4. c \in NewBucket
  OBVIOUS
<1> HIDE DEF e, u, N, d, c
<1>5. /\ Fields(u) /\ Dom(u) = Dom(r) /\ Ordered(u)
      /\ u.mapInfo[old] = e /\ \A i \in Dom(r) \ {old} : u.mapInfo[i] = r.mapInfo[i]
      /\ u.mapAddr = r.mapAddr /\ u.vvNew = r.vvNew /\ u.vvTried = r.vvTried
      /\ u.nNew = r.nNew /\ u.nTried = r.nTried /\ u.nIdCount = r.nIdCount
  <2>1. e \in Entry /\ e.nRandomPos = r.mapInfo[old].nRandomPos
    BY <1>2
  <2>2. u = PutInfo(r, old, e)
    BY DEF u
  <2> QED BY <2>1, <2>2, EntryChanged
<1>6. /\ N \in [NewBucket -> SUBSET Nat] /\ N[c] = r.vvNew[c] \cup {old}
      /\ \A b \in NewBucket \ {c} : N[b] = r.vvNew[b]
  BY <1>1, <1>4 DEF N
<1>7. r.nNew + 1 \in Int
  BY <1>1
<1>8. /\ d.mapInfo = u.mapInfo /\ d.vRandom = u.vRandom /\ d.vvNew = N /\ d.nNew = r.nNew + 1
      /\ d.mapAddr = u.mapAddr /\ d.vvTried = u.vvTried /\ d.nTried = u.nTried /\ d.nIdCount = u.nIdCount
      /\ d \in Books
  <2>1. u \in Books
    BY <1>5 DEF Fields
  <2> QED BY <2>1, <1>3, <1>6, <1>7 DEF Books
<1>9. Dom(d) = Dom(r) /\ Ordered(d)
  BY <1>5, <1>8 DEF Dom, Ordered
<1>10. Fields(d)
  BY <1>5, <1>8, <1>9 DEF Fields
<1>11. \A i \in Dom(r) \ {old} : d.mapInfo[i] = r.mapInfo[i]
  BY <1>5, <1>8
<1>12. TriedOf(d) = TriedOf(r) \ {old}
  <2>1. d.mapInfo[old].fInTried = FALSE
    BY <1>2, <1>5, <1>8
  <2> QED BY <2>1, <1>9, <1>11 DEF TriedOf
<1>13. \A i \in Dom(r) : /\ d.mapInfo[i].addr = r.mapInfo[i].addr
                         /\ d.mapInfo[i].nLastSuccess = r.mapInfo[i].nLastSuccess
  BY <1>2, <1>5, <1>8
<1>14. d.mapInfo[old].nRefCount = 1
  BY <1>2, <1>5, <1>8
<1> QED BY <1>5, <1>6, <1>8, <1>9, <1>10, <1>11, <1>12, <1>13, <1>14 DEF Returned

\* The tried bucket of the entry is full: another entry goes back to a new
\* bucket with room.
Exchange(m, id, k, old, c, r, d, w) ==
  /\ Moved(m, id, r) /\ TriedBucketOf[m.mapInfo[id].addr] = k
  /\ Returned(r, old, c, d) /\ Cardinality(r.vvNew[c]) < NewSize
  /\ HasTried(d, k, (m.vvTried[k] \ {old}) \cup {id}, m.nTried, w)

\* The exchange keeps the book sound and forgets no address.
LEMMA TriedWithout ==
  ASSUME NEW m, Sound(m, NoId), NEW id \in Dom(m) \ TriedOf(m), m.mapInfo[id].nLastSuccess,
         NEW k \in TriedBucket, NEW old \in m.vvTried[k], NEW c \in NewBucket,
         NEW r, NEW d, NEW w, Exchange(m, id, k, old, c, r, d, w)
  PROVE  Sound(w, NoId) /\ w.mapAddr = m.mapAddr
<1>0. /\ Moved(m, id, r) /\ TriedBucketOf[m.mapInfo[id].addr] = k
      /\ Returned(r, old, c, d) /\ Cardinality(r.vvNew[c]) < NewSize
      /\ HasTried(d, k, (m.vvTried[k] \ {old}) \cup {id}, m.nTried, w)
  BY DEF Exchange
<1> USE <1>0
<1>1. /\ Fields(m) /\ Ordered(m) /\ Known(m) /\ Counted(m) /\ Referred(m, NoId) /\ Settled(m) /\ Bounded(m)
  BY DEF Sound
<1>2. /\ Dom(m) \subseteq Nat /\ m.nTried \in Int /\ m.nNew \in Int
  BY <1>1, BookFacts
<1>3. /\ old \in TriedOf(m) /\ old \in Dom(m) /\ old # id /\ TriedBucketOf[m.mapInfo[old].addr] = k
      /\ IsFiniteSet(m.vvTried[k]) /\ Cardinality(m.vvTried[k]) \in Nat /\ id \notin m.vvTried[k]
  <2>1. /\ old \in TriedOf(m) /\ IsFiniteSet(m.vvTried[k]) /\ Cardinality(m.vvTried[k]) \in Nat
        /\ id \notin m.vvTried[k]
    BY BucketFacts
  <2>2. TriedBucketOf[m.mapInfo[old].addr] = k
    BY <1>1 DEF Settled
  <2>3. old \in Dom(m)
    BY <2>1 DEF TriedOf
  <2> QED BY <2>1, <2>2, <2>3
<1>4. Where(m, old) = {}
  <2>1. IsFiniteSet(Where(m, old)) /\ Cardinality(Where(m, old)) \in Nat
    BY BucketFacts
  <2>2. m.mapInfo[old].nRefCount = 0 /\ old # NoId
    BY <1>1, <1>2, <1>3 DEF Referred, NoId
  <2>3. Cardinality(Where(m, old)) = 0
    BY <2>1, <2>2, <1>1, <1>3 DEF Referred
  <2> QED BY <2>1, <2>3, FS_EmptySet
<1>5. /\ Dom(w) = Dom(m) /\ TriedOf(w) = (TriedOf(m) \cup {id}) \ {old}
      /\ Fields(w) /\ Ordered(w) /\ w.mapAddr = m.mapAddr /\ w.nNew = m.nNew /\ w.nTried = m.nTried
  <2>1. TriedOf(w) = TriedOf(d)
    BY DEF HasTried, TriedOf
  <2> QED BY <2>1, <1>2 DEF HasTried, Returned, Moved
<1>6. \A i \in Dom(m) : /\ w.mapInfo[i].addr = m.mapInfo[i].addr
                        /\ w.mapInfo[i].nLastSuccess = m.mapInfo[i].nLastSuccess
  BY DEF HasTried, Returned, Moved
<1>7. /\ w.mapInfo[old].nRefCount = 1 /\ w.mapInfo[id].nRefCount = 0
      /\ \A i \in Dom(m) \ {id, old} : w.mapInfo[i].nRefCount = m.mapInfo[i].nRefCount
  <2>1. w.mapInfo = d.mapInfo /\ Dom(r) = Dom(m)
    BY DEF HasTried, Moved
  <2>2. d.mapInfo[old].nRefCount = 1 /\ \A i \in Dom(r) \ {old} : d.mapInfo[i].nRefCount = r.mapInfo[i].nRefCount
    BY DEF Returned
  <2>3. r.mapInfo[id].nRefCount = 0 /\ \A i \in Dom(m) \ {id} : r.mapInfo[i] = m.mapInfo[i]
    BY DEF Moved
  <2> QED BY <2>1, <2>2, <2>3, <1>3
<1>8. /\ \A b \in NewBucket : r.vvNew[b] = m.vvNew[b] \ {id}
      /\ w.vvNew[c] = r.vvNew[c] \cup {old} /\ \A b \in NewBucket \ {c} : w.vvNew[b] = r.vvNew[b]
  BY DEF HasTried, Returned, Moved
<1>9. /\ w.vvTried[k] = (m.vvTried[k] \ {old}) \cup {id}
      /\ \A b \in TriedBucket \ {k} : w.vvTried[b] = m.vvTried[b]
  BY DEF HasTried, Returned, Moved
<1>10. Known(w)
  BY <1>1, <1>5, <1>6 DEF Known
<1>11. Counted(w)
  <2> DEFINE A == Dom(m) \ TriedOf(m)
             B == A \ {id}
             C == TriedOf(m) \cup {id}
  <2>1. /\ IsFiniteSet(TriedOf(m)) /\ IsFiniteSet(A) /\ id \in A /\ old \notin A /\ old \in C
        /\ id \notin TriedOf(m)
    BY <1>3, BucketFacts
  <2>2. Dom(w) \ TriedOf(w) = B \cup {old} /\ TriedOf(w) = C \ {old}
    BY <1>3, <1>5
  <2>3. Cardinality(A) = m.nNew /\ Cardinality(TriedOf(m)) = m.nTried
    BY <1>1 DEF Counted
  <2>4. w.nNew = m.nNew /\ w.nTried = m.nTried
    BY <1>5
  <2>5. IsFiniteSet(B) /\ Cardinality(B) = Cardinality(A) - 1 /\ old \notin B
    BY <2>1, FS_RemoveElement
  <2>6. IsFiniteSet(C) /\ Cardinality(C) = Cardinality(TriedOf(m)) + 1
    BY <2>1, FS_AddElement
  <2> HIDE DEF A, B, C
  <2>7. Cardinality(B \cup {old}) = Cardinality(B) + 1 /\ Cardinality(C \ {old}) = Cardinality(C) - 1
    BY <2>1, <2>5, <2>6, FS_AddElement, FS_RemoveElement
  <2>8. Cardinality(B \cup {old}) = m.nNew
    BY <2>3, <2>5, <2>7, <1>2
  <2>9. Cardinality(C \ {old}) = m.nTried
    BY <2>3, <2>6, <2>7, <1>2
  <2> QED BY <2>2, <2>4, <2>8, <2>9 DEF Counted
<1>12. Where(w, id) = {} /\ Where(w, old) = {c} /\ \A i : i # id /\ i # old => Where(w, i) = Where(m, i)
  BY <1>3, <1>4, <1>8 DEF Where
<1>13. Referred(w, NoId)
  <2>1. \A b \in NewBucket : w.vvNew[b] \subseteq Dom(w)
    BY <1>1, <1>3, <1>5, <1>8 DEF Referred
  <2>2. NoId \notin Dom(m)
    BY <1>2 DEF NoId
  <2>3. Cardinality(Where(w, id)) = 0 /\ Cardinality(Where(w, old)) = 1
    BY <1>12, FS_EmptySet, FS_Singleton
  <2>4. \A i \in Dom(w) : w.mapInfo[i].nRefCount = Cardinality(Where(w, i)) + (IF i = NoId THEN 1 ELSE 0)
    <3>1. \A i \in Dom(m) \ {id, old} :
            w.mapInfo[i].nRefCount = Cardinality(Where(w, i)) + (IF i = NoId THEN 1 ELSE 0)
      BY <1>1, <1>7, <1>12 DEF Referred
    <3> QED BY <3>1, <2>2, <2>3, <1>3, <1>5, <1>7
  <2>5. \A i \in Dom(w) \ TriedOf(w) : w.mapInfo[i].nRefCount \in 1 .. PerAddress
    BY <1>1, <1>3, <1>5, <1>7, AddrAssumption DEF Referred
  <2>6. \A i \in TriedOf(w) : w.mapInfo[i].nRefCount = 0 /\ w.mapInfo[i].nLastSuccess
    BY <1>1, <1>5, <1>6, <1>7 DEF Referred, TriedOf
  <2> QED BY <2>1, <2>4, <2>5, <2>6 DEF Referred
<1>14. Settled(w)
  <2> SUFFICES ASSUME NEW b \in TriedBucket
               PROVE  w.vvTried[b] = {i \in TriedOf(w) : TriedBucketOf[w.mapInfo[i].addr] = b}
    BY DEF Settled
  <2>1. m.vvTried[b] = {i \in TriedOf(m) : TriedBucketOf[m.mapInfo[i].addr] = b}
    BY <1>1 DEF Settled
  <2>2. \A i \in TriedOf(w) : w.mapInfo[i].addr = m.mapInfo[i].addr
    BY <1>5, <1>6 DEF TriedOf
  <2>3. w.vvTried[b] = IF b = k THEN (m.vvTried[b] \ {old}) \cup {id} ELSE m.vvTried[b]
    BY <1>9
  <2> QED BY <2>1, <2>2, <2>3, <1>3, <1>5
<1>15. Bounded(w)
  <2>1. ASSUME NEW b \in NewBucket PROVE Cardinality(w.vvNew[b]) <= NewSize
    <3>1. IsFiniteSet(m.vvNew[b]) /\ Cardinality(m.vvNew[b]) \in Nat /\ Cardinality(m.vvNew[b]) <= NewSize
      BY <1>1, BucketFacts DEF Bounded
    <3>2. r.vvNew[b] \in SUBSET m.vvNew[b]
      BY <1>8
    <3>3. IsFiniteSet(r.vvNew[b]) /\ Cardinality(r.vvNew[b]) <= Cardinality(m.vvNew[b])
      BY <3>1, <3>2, FS_Subset
    <3>4. Cardinality(r.vvNew[b]) \in Nat
      BY <3>3, FS_CardinalityType
    <3>5. CASE b # c
      <4>1. w.vvNew[b] = r.vvNew[b]
        BY <3>5, <1>8
      <4> QED BY <4>1, <3>1, <3>3, <3>4, AddrAssumption
    <3>6. CASE b = c
      <4>1. w.vvNew[b] = r.vvNew[b] \cup {old} /\ old \notin r.vvNew[b]
        BY <3>6, <1>4, <1>8 DEF Where
      <4>2. Cardinality(r.vvNew[b] \cup {old}) = Cardinality(r.vvNew[b]) + 1
        BY <4>1, <3>3, FS_AddElement
      <4> QED BY <4>1, <4>2, <3>4, <3>6, AddrAssumption
    <3> QED BY <3>5, <3>6
  <2>2. Cardinality(w.vvTried[k]) <= TriedSize
    <3>1. IsFiniteSet(m.vvTried[k] \ {old}) /\ Cardinality(m.vvTried[k] \ {old}) = Cardinality(m.vvTried[k]) - 1
      BY <1>3, FS_RemoveElement
    <3>2. Cardinality((m.vvTried[k] \ {old}) \cup {id}) = Cardinality(m.vvTried[k] \ {old}) + 1
      BY <3>1, <1>3, FS_AddElement
    <3>3. Cardinality(m.vvTried[k]) <= TriedSize
      BY <1>1 DEF Bounded
    <3> QED BY <3>1, <3>2, <3>3, <1>3, <1>9
  <2> QED BY <2>1, <2>2, <1>1, <1>9 DEF Bounded
<1> QED BY <1>5, <1>10, <1>11, <1>13, <1>14, <1>15 DEF Sound

\* MakeTried keeps the book sound and forgets no address.
LEMMA MakeTriedSound ==
  ASSUME NEW m, Sound(m, NoId), NEW id \in Dom(m), m.mapInfo[id].nLastSuccess,
         NEW origin \in NewBucket, id \in m.vvNew[origin], NEW w \in MakeTried(m, id, origin)
  PROVE  Sound(w, NoId) /\ w.mapAddr = m.mapAddr
<1> DEFINE r == Moving(m, id)
           k == TriedBucketOf[m.mapInfo[id].addr]
<1>1. id \in Dom(m) \ TriedOf(m)
  BY InNewBucket
<1>2. Moved(m, id, r)
  BY <1>1, MovingFacts
<1>3. /\ k \in TriedBucket /\ Dom(m) \subseteq Nat /\ m.nTried \in Int
      /\ m.vvTried \in [TriedBucket -> SUBSET Nat]
  <2>1. m.mapInfo[id] \in Entry /\ Dom(m) \subseteq Nat /\ m.nTried \in Int
        /\ m.vvTried \in [TriedBucket -> SUBSET Nat]
    BY BucketFacts, BookFacts DEF Sound
  <2> QED BY <2>1, AddrAssumption DEF Entry
<1>4. w \in IF Cardinality(r.vvTried[k]) < TriedSize
            THEN {[r EXCEPT !.vvTried[k] = @ \cup {id}, !.nTried = @ + 1]}
            ELSE {[Demoted(r, old, origin) EXCEPT !.vvTried[k] = (@ \ {old}) \cup {id}] : old \in r.vvTried[k]}
  BY DEF MakeTried, Moving, Where
<1>5. TriedBucketOf[m.mapInfo[id].addr] = k
  OBVIOUS
<1> HIDE DEF r, k
<1>6. r.vvTried = m.vvTried /\ r.nTried = m.nTried /\ Fields(r) /\ Ordered(r) /\ Dom(r) = Dom(m)
      /\ \A b \in NewBucket : r.vvNew[b] = m.vvNew[b] \ {id}
  BY <1>2 DEF Moved
<1>7. CASE Cardinality(m.vvTried[k]) < TriedSize
  <2>1. w = [r EXCEPT !.vvTried[k] = @ \cup {id}, !.nTried = @ + 1]
    BY <1>4, <1>6, <1>7
  <2>2. w = PutTried(r, k, m.vvTried[k] \cup {id}, m.nTried + 1)
    BY <2>1, <1>6 DEF PutTried
  <2>3. m.vvTried[k] \cup {id} \in SUBSET Nat /\ m.nTried + 1 \in Int
    BY <1>3
  <2>4. HasTried(r, k, m.vvTried[k] \cup {id}, m.nTried + 1, w)
    BY <2>2, <2>3, <1>3, <1>6, TriedChanged
  <2> QED BY <2>4, <1>1, <1>2, <1>3, <1>5, <1>7, TriedWithRoom, ZenonT(60)
<1>8. CASE ~(Cardinality(m.vvTried[k]) < TriedSize)
  <2>1. PICK old \in m.vvTried[k] : w = [Demoted(r, old, origin) EXCEPT !.vvTried[k] = (@ \ {old}) \cup {id}]
    BY <1>4, <1>6, <1>8
  <2> DEFINE c == Refuge(r, old, origin)
             d == Demoted(r, old, origin)
  <2>2. old \in Dom(m) /\ r.mapInfo[old] \in Entry
    <3>1. old \in TriedOf(m)
      BY <1>3, BucketFacts
    <3>2. old \in Dom(r)
      BY <3>1, <1>6 DEF TriedOf
    <3> QED BY <3>2, <1>6, BookFacts
  <2>3. c \in NewBucket /\ Cardinality(r.vvNew[c]) < NewSize
    <3> DEFINE own == NewBucketOf[r.mapInfo[old].addr, r.mapInfo[old].source]
    <3>1. own \in NewBucket
      BY <2>2, AddrAssumption DEF Entry
    <3>2. c = IF Cardinality(r.vvNew[own]) < NewSize THEN own ELSE origin
      BY DEF Refuge
    <3>3. Cardinality(r.vvNew[origin]) < NewSize
      <4>1. IsFiniteSet(m.vvNew[origin]) /\ Cardinality(m.vvNew[origin]) \in Nat
            /\ Cardinality(m.vvNew[origin]) <= NewSize
        BY BucketFacts DEF Sound, Bounded
      <4>2. Cardinality(m.vvNew[origin] \ {id}) = Cardinality(m.vvNew[origin]) - 1
        BY <4>1, FS_RemoveElement
      <4>3. r.vvNew[origin] = m.vvNew[origin] \ {id}
        BY <1>6
      <4>4. NewSize \in Nat
        BY AddrAssumption
      <4> QED BY <4>1, <4>2, <4>3, <4>4
    <3> HIDE DEF own, c
    <3> QED BY <3>1, <3>2, <3>3
  <2>4. Returned(r, old, c, d)
    BY <2>2, <2>3, <1>6, DemotedFacts
  <2> HIDE DEF c, d
  <2>5. d.vvTried = m.vvTried /\ d.nTried = m.nTried /\ Fields(d) /\ Ordered(d) /\ d \in Books
    BY <2>4, <1>6 DEF Returned, Fields
  <2>6. w = PutTried(d, k, (m.vvTried[k] \ {old}) \cup {id}, m.nTried)
    <3>1. w = [d EXCEPT !.vvTried[k] = (m.vvTried[k] \ {old}) \cup {id}]
      BY <2>1, <2>5 DEF d
    <3> QED BY <3>1, <2>5 DEF PutTried, Books
  <2>7. (m.vvTried[k] \ {old}) \cup {id} \in SUBSET Nat
    BY <1>3
  <2>8. HasTried(d, k, (m.vvTried[k] \ {old}) \cup {id}, m.nTried, w)
    BY <2>5, <2>6, <2>7, <1>3, TriedChanged
  <2>9. c \in NewBucket /\ k \in TriedBucket
    BY <2>3, <1>3
  <2>10. Cardinality(r.vvNew[c]) < NewSize
    BY <2>3
  <2>11. Exchange(m, id, k, old, c, r, d, w)
    BY <2>4, <2>8, <2>10, <1>2, <1>5 DEF Exchange
  <2> QED BY <2>9, <2>11, <1>1, TriedWithout
<1> QED BY <1>7, <1>8

\* Good_ keeps the book sound and forgets no address.
LEMMA GoodSound ==
  ASSUME Sound(book, NoId), NEW a \in Addr, Good(a)
  PROVE  Sound(book', NoId) /\ book'.mapAddr = book.mapAddr
<1> DEFINE id == book.mapAddr[a]
           m == [book EXCEPT !.mapInfo[id].nLastSuccess = TRUE]
           in == {b \in NewBucket : id \in book.vvNew[b]}
<1>1. id # NoId /\ id \in Dom(book)
  BY DEF Good, Sound, Known
<1>2. /\ Sound(m, NoId) /\ Dom(m) = Dom(book) /\ m.vvNew = book.vvNew /\ m.mapInfo[id].nLastSuccess
      /\ m.mapAddr = book.mapAddr
  <2>1. /\ Sound(m, NoId) /\ Dom(m) = Dom(book) /\ m.vvNew = book.vvNew /\ m.mapInfo[id].nLastSuccess
    <3> HIDE DEF id
    <3> QED BY <1>1, SuccessNoted
  <2>2. m.mapAddr = book.mapAddr
    BY DEF Sound, Fields, Books
  <2> QED BY <2>1, <2>2
<1>3. \/ book' = m
      \/ \E origin \in in : book' \in MakeTried(m, id, origin)
  BY DEF Good
<1>4. CASE book' = m
  BY <1>2, <1>4
<1>5. ASSUME NEW origin \in in, book' \in MakeTried(m, id, origin)
      PROVE  Sound(book', NoId) /\ book'.mapAddr = book.mapAddr
  <2>1. origin \in NewBucket /\ id \in m.vvNew[origin] /\ id \in Dom(m)
    BY <1>1, <1>2, <1>5
  <2> HIDE DEF m, id, in
  <2>2. Sound(book', NoId) /\ book'.mapAddr = m.mapAddr
    BY <2>1, <1>2, <1>5, MakeTriedSound
  <2> QED BY <2>2, <1>2
<1> QED BY <1>3, <1>4, <1>5

\* A swap in vRandom changes nothing else.
LEMMA SwapSound ==
  ASSUME NEW m, Sound(m, NoId),
         NEW p \in 0 .. Len(m.vRandom) - 1, NEW q \in 0 .. Len(m.vRandom) - 1
  PROVE  LET w == SwapRandom(m, p, q)
         IN  Sound(w, NoId) /\ w.mapAddr = m.mapAddr /\ Len(w.vRandom) = Len(m.vRandom)
<1> DEFINE w == SwapRandom(m, p, q)
<1>1. /\ Fields(m) /\ Ordered(m) /\ Known(m) /\ Counted(m) /\ Referred(m, NoId) /\ Settled(m) /\ Bounded(m)
  BY DEF Sound
<1>2. /\ Fields(w) /\ Dom(w) = Dom(m) /\ Ordered(w)
      /\ Len(w.vRandom) = Len(m.vRandom)
      /\ w.mapAddr = m.mapAddr /\ w.vvNew = m.vvNew /\ w.vvTried = m.vvTried
      /\ w.nNew = m.nNew /\ w.nTried = m.nTried
      /\ \A i \in Dom(m) : Alike(w.mapInfo[i], m.mapInfo[i])
  BY <1>1, SwapFields
<1> SUFFICES Sound(w, NoId) /\ w.mapAddr = m.mapAddr /\ Len(w.vRandom) = Len(m.vRandom)
  OBVIOUS
<1> HIDE DEF w
<1>3. \A i \in Dom(m) : /\ w.mapInfo[i].addr = m.mapInfo[i].addr
                        /\ w.mapInfo[i].fInTried = m.mapInfo[i].fInTried
                        /\ w.mapInfo[i].nLastSuccess = m.mapInfo[i].nLastSuccess
                        /\ w.mapInfo[i].nRefCount = m.mapInfo[i].nRefCount
  BY <1>2 DEF Alike
<1>4. TriedOf(w) = TriedOf(m)
  BY <1>2, <1>3 DEF TriedOf
<1>5. Known(w)
  BY <1>1, <1>2, <1>3 DEF Known
<1>6. Counted(w)
  BY <1>1, <1>2, <1>4 DEF Counted
<1>7. Bounded(w)
  BY <1>1, <1>2 DEF Bounded
<1>8. Settled(w)
  BY <1>1, <1>2, <1>3, <1>4 DEF Settled, TriedOf
<1>9. Referred(w, NoId)
  <2>1. \A i : Where(w, i) = Where(m, i)
    BY <1>2 DEF Where
  <2>2. \A i \in Dom(w) : w.mapInfo[i].nRefCount = Cardinality(Where(w, i)) + (IF i = NoId THEN 1 ELSE 0)
    BY <2>1, <1>1, <1>2, <1>3 DEF Referred
  <2>3. \A i \in TriedOf(w) : w.mapInfo[i].nRefCount = 0 /\ w.mapInfo[i].nLastSuccess
    BY <1>1, <1>3, <1>4 DEF Referred, TriedOf
  <2>4. \A i \in Dom(w) \ TriedOf(w) : w.mapInfo[i].nRefCount \in 1 .. PerAddress
    BY <1>1, <1>2, <1>3, <1>4 DEF Referred
  <2> QED BY <2>2, <2>3, <2>4, <1>1, <1>2 DEF Referred
<1> QED BY <1>2, <1>5, <1>6, <1>7, <1>8, <1>9 DEF Sound

\* A set of natural numbers has a least one.
LEMMA LeastNat ==
  ASSUME NEW T \in SUBSET Nat, T # {}
  PROVE  \E x \in T : \A y \in T : ~ (y < x)
<1> DEFINE R == OpToRel(<, Nat)
<1>1. \E x \in T : \A y \in T : ~ (<<y, x>> \in R)
  <2>1. IsWellFoundedOn(R, Nat)
    BY NatLessThanWellFounded
  <2> HIDE DEF R
  <2> QED BY <2>1, WFMin
<1>2. \A x, y \in Nat : y < x => <<y, x>> \in R
  BY DEF OpToRel
<1> HIDE DEF R
<1> QED BY <1>1, <1>2, Zenon

\* What each swap keeps, all of them keep: there would be a first one that
\* does not.
LEMMA SwapInduction ==
  ASSUME NEW m, NEW n \in Nat, NEW pos, NEW Z,
         m \in Z, \A k \in 1 .. n : \A v \in Z : SwapRandom(v, k - 1, pos[k]) \in Z
  PROVE  Swapped(m, pos, n) \in Z
<1> DEFINE Fits(v, t) == v = [k \in 0 .. t |-> IF k = 0 THEN m ELSE SwapRandom(v[k - 1], k - 1, pos[k])]
<1>1. ASSUME NEW t \in Nat PROVE \E v : Fits(v, t)
  <2> DEFINE Bad == {x \in Nat : ~ \E v : Fits(v, x)}
  <2> SUFFICES ASSUME Bad # {} PROVE FALSE
    BY <1>1
  <2>1. PICK x \in Bad : \A y \in Bad : ~ (y < x)
    BY LeastNat
  <2>2. x # 0
    <3>1. Fits([k \in 0 .. 0 |-> m], 0)
      OBVIOUS
    <3> QED BY <2>1, <3>1
  <2>3. PICK v : Fits(v, x - 1)
    <3>1. x \in Nat /\ x - 1 \in Nat /\ x - 1 < x
      BY <2>1, <2>2
    <3> HIDE DEF Fits
    <3> QED BY <3>1, <2>1
  <2> DEFINE u == [k \in 0 .. x |-> IF k = x THEN SwapRandom(v[x - 1], x - 1, pos[x]) ELSE v[k]]
  <2>4. ASSUME NEW k \in 0 .. x
        PROVE  u[k] = IF k = 0 THEN m ELSE SwapRandom(u[k - 1], k - 1, pos[k])
    <3>1. CASE k = x
      <4>1. u[x - 1] = v[x - 1] /\ u[k] = SwapRandom(v[x - 1], x - 1, pos[x])
        BY <2>1, <2>2, <3>1
      <4> QED BY <2>1, <2>2, <3>1, <4>1
    <3>2. CASE k # x
      <4>1. k \in 0 .. x - 1 /\ u[k] = v[k]
        BY <2>1, <2>2, <3>2
      <4>2. v[k] = IF k = 0 THEN m ELSE SwapRandom(v[k - 1], k - 1, pos[k])
        BY <2>3, <4>1
      <4>3. k # 0 => u[k - 1] = v[k - 1]
        BY <2>1, <4>1
      <4> QED BY <4>1, <4>2, <4>3
    <3> QED BY <3>1, <3>2
  <2>5. Fits(u, x)
    BY <2>4
  <2> QED BY <2>1, <2>5
<1> DEFINE s == CHOOSE v : Fits(v, n)
<1>2. Fits(s, n)
  BY <1>1
<1>3. Swapped(m, pos, n) = s[n]
  BY DEF Swapped
<1> HIDE DEF s
<1>4. ASSUME NEW t \in 0 .. n PROVE s[t] \in Z
  <2> DEFINE Bad == {x \in 0 .. n : s[x] \notin Z}
  <2> SUFFICES ASSUME Bad # {} PROVE FALSE
    BY <1>4
  <2>1. Bad \in SUBSET Nat
    OBVIOUS
  <2>2. PICK x \in Bad : \A y \in Bad : ~ (y < x)
    BY <2>1, LeastNat
  <2>3. x # 0
    BY <1>2, <2>2
  <2>4. x - 1 \in 0 .. n /\ x - 1 < x /\ x \in 1 .. n
    BY <2>2, <2>3
  <2>5. s[x - 1] \in Z
    BY <2>2, <2>4
  <2>6. s[x] = SwapRandom(s[x - 1], x - 1, pos[x])
    BY <1>2, <2>3, <2>4
  <2> QED BY <2>2, <2>4, <2>5, <2>6
<1> QED BY <1>3, <1>4

\* GetAddr_ keeps the book sound and forgets no address.
LEMMA GetAddrSound ==
  ASSUME Sound(book, NoId), GetAddr
  PROVE  Sound(book', NoId) /\ book'.mapAddr = book.mapAddr
<1> DEFINE size == Len(book.vRandom)
           share == (MaxPct * size) \div 100
           nNodes == IF share > GetAddrMax THEN GetAddrMax ELSE share
           Z == {v \in Books : Sound(v, NoId) /\ v.mapAddr = book.mapAddr /\ Len(v.vRandom) = size}
<1>1. size \in Nat
  BY BookFacts DEF Sound
<1>2. nNodes \in Nat
  <2> HIDE DEF size
  <2>1. MaxPct \in Nat /\ GetAddrMax \in Nat
    BY AddrAssumption
  <2>2. MaxPct * size \in Nat
    BY <1>1, <2>1
  <2> DEFINE t == MaxPct * size
  <2>3. t \in Nat
    BY <2>2
  <2> HIDE DEF t
  <2>4. t \div 100 \in Nat
    BY <2>3
  <2> QED BY <2>1, <2>4 DEF t
<1>3. PICK pos \in [1 .. nNodes -> 0 .. size - 1] :
        (\A n \in 1 .. nNodes : pos[n] >= n - 1) /\ book' = Swapped(book, pos, nNodes)
  BY DEF GetAddr
<1> HIDE DEF nNodes, size
<1>4. book \in Z
  BY DEF Sound, Fields, size
<1>5. ASSUME NEW k \in 1 .. nNodes, NEW v \in Z PROVE SwapRandom(v, k - 1, pos[k]) \in Z
  <2> DEFINE w == SwapRandom(v, k - 1, pos[k])
  <2>1. Sound(v, NoId) /\ v.mapAddr = book.mapAddr /\ Len(v.vRandom) = size
    OBVIOUS
  <2>2. k - 1 \in 0 .. Len(v.vRandom) - 1 /\ pos[k] \in 0 .. Len(v.vRandom) - 1
    <3>1. pos[k] \in 0 .. size - 1 /\ pos[k] >= k - 1 /\ k \in 1 .. nNodes
      BY <1>3
    <3> HIDE DEF Z
    <3> QED BY <3>1, <2>1, <1>1, <1>2
  <2>3. Sound(w, NoId) /\ w.mapAddr = v.mapAddr /\ Len(w.vRandom) = Len(v.vRandom)
    BY <2>1, <2>2, SwapSound
  <2> HIDE DEF w
  <2>4. w \in Books
    BY <2>3 DEF Sound, Fields
  <2> QED BY <2>1, <2>3, <2>4 DEF w
<1> HIDE DEF Z
<1>6. Swapped(book, pos, nNodes) \in Z
  BY <1>2, <1>4, <1>5, SwapInduction
<1> QED BY <1>3, <1>6 DEF Z

\* A proper part of a finite set is smaller.
LEMMA ProperPart ==
  ASSUME NEW S, IsFiniteSet(S), NEW T \in SUBSET S, NEW x \in S, x \notin T
  PROVE  /\ Cardinality(T) \in Nat /\ Cardinality(S) \in Nat /\ IsFiniteSet(T)
         /\ Cardinality(T) < Cardinality(S)
<1>1. IsFiniteSet(T) /\ Cardinality(T) <= Cardinality(S) /\ (Cardinality(S) = Cardinality(T) => S = T)
  BY FS_Subset
<1>2. Cardinality(T) \in Nat /\ Cardinality(S) \in Nat
  BY <1>1, FS_CardinalityType
<1>3. Cardinality(S) # Cardinality(T)
  BY <1>1
<1> QED BY <1>1, <1>2, <1>3

\* The rank of an element grows with it and stays below the size of the set.
LEMMA RankFacts ==
  ASSUME NEW S \in SUBSET Nat, IsFiniteSet(S), NEW i \in S
  PROVE  /\ Rank(S, i) \in Nat /\ Rank(S, i) < Cardinality(S) /\ Cardinality(S) \in Nat
         /\ \A j \in S : i < j => Rank(S, i) < Rank(S, j)
<1> DEFINE B(k) == {j \in S : j < k}
<1>1. B(i) \in SUBSET S /\ i \notin B(i)
  OBVIOUS
<1>2. Cardinality(B(i)) \in Nat /\ Cardinality(B(i)) < Cardinality(S) /\ Cardinality(S) \in Nat
  BY <1>1, ProperPart
<1>3. ASSUME NEW j \in S, i < j PROVE Cardinality(B(i)) < Cardinality(B(j))
  <2>1. B(j) \in SUBSET S
    OBVIOUS
  <2>2. IsFiniteSet(B(j))
    BY <2>1, FS_Subset
  <2>3. B(i) \in SUBSET B(j) /\ i \in B(j) /\ i \notin B(i)
    <3>1. \A x \in B(i) : x \in B(j)
      <4>1. i \in Nat /\ j \in Nat /\ \A x \in S : x \in Nat
        OBVIOUS
      <4> QED BY <4>1, <1>3
    <3>2. i \in B(j) /\ i \notin B(i)
      BY <1>1, <1>3
    <3> HIDE DEF B
    <3> QED BY <3>1, <3>2
  <2> HIDE DEF B
  <2> QED BY <2>2, <2>3, ProperPart
<1> QED BY <1>2, <1>3 DEF Rank

\* A set and its image under an injection are of the same size.
LEMMA ImageSize ==
  ASSUME NEW S, IsFiniteSet(S), NEW F, \A i, j \in S : F[i] = F[j] => i = j
  PROVE  /\ IsFiniteSet({F[i] : i \in S}) /\ Cardinality({F[i] : i \in S}) = Cardinality(S)
<1> DEFINE T == {F[i] : i \in S}
           f == [i \in S |-> F[i]]
<1>1. f \in [S -> T] /\ \A i \in S : f[i] = F[i]
  OBVIOUS
<1>2. \A t \in T : \E i \in S : f[i] = t
  OBVIOUS
<1> HIDE DEF f
<1>3. f \in Surjection(S, T) /\ f \in Injection(S, T)
  BY <1>1, <1>2 DEF Surjection, Injection, IsInjective
<1> HIDE DEF T
<1>4. IsFiniteSet(T) /\ Cardinality(T) = Cardinality(S)
  BY <1>3, FS_Surjection
<1> QED BY <1>4 DEF T

\* peers.dat has every entry: the new ones are those with references, the tried
\* ones have room in their buckets.
LEMMA WrittenFacts ==
  ASSUME NEW m, Sound(m, NoId)
  PROVE  /\ WrittenNew(m) = Dom(m) \ TriedOf(m)
         /\ WrittenTried(m) = TriedOf(m) /\ ReadTried(m) = TriedOf(m)
<1> DEFINE N == Dom(m) \ TriedOf(m)
           T == TriedOf(m)
<1>1. /\ Fields(m) /\ Counted(m) /\ Referred(m, NoId) /\ Settled(m) /\ Bounded(m)
  BY DEF Sound
<1>2. Dom(m) \subseteq Nat /\ \A i \in Dom(m) : m.mapInfo[i] \in Entry
  BY <1>1, BookFacts
<1>3. N \in SUBSET Nat /\ T \in SUBSET Nat /\ IsFiniteSet(N) /\ IsFiniteSet(T)
  BY <1>2, BucketFacts DEF TriedOf
<1>4. N = {i \in DOMAIN m.mapInfo : m.mapInfo[i].nRefCount # 0}
  <2>1. \A i \in N : m.mapInfo[i].nRefCount # 0
    <3>1. \A i \in N : m.mapInfo[i].nRefCount \in 1 .. PerAddress
      BY <1>1 DEF Referred
    <3>2. 0 \notin 1 .. PerAddress
      BY AddrAssumption
    <3> QED BY <3>1, <3>2
  <2>2. \A i \in T : m.mapInfo[i].nRefCount = 0
    BY <1>1 DEF Referred
  <2> QED BY <2>1, <2>2 DEF Dom, TriedOf
<1>5. T = {i \in DOMAIN m.mapInfo : m.mapInfo[i].fInTried}
  BY DEF TriedOf, Dom
<1>6. Cardinality(N) = m.nNew /\ Cardinality(T) = m.nTried
  BY <1>1 DEF Counted
<1>7. WrittenNew(m) = {i \in N : Rank(N, i) < m.nNew}
  BY <1>4 DEF WrittenNew
<1>8. WrittenTried(m) = {i \in T : Rank(T, i) < m.nTried}
  BY <1>5 DEF WrittenTried
<1>9. \A k \in TriedBucket : /\ m.vvTried[k] = {i \in T : TriedBucketOf[m.mapInfo[i].addr] = k}
                             /\ IsFiniteSet(m.vvTried[k]) /\ Cardinality(m.vvTried[k]) <= TriedSize
  BY <1>1, BucketFacts DEF Settled, Bounded
<1>10. \A i \in T : TriedBucketOf[m.mapInfo[i].addr] \in TriedBucket
  <2> SUFFICES ASSUME NEW i \in T PROVE TriedBucketOf[m.mapInfo[i].addr] \in TriedBucket
    OBVIOUS
  <2>1. m.mapInfo[i] \in Entry
    BY <1>2 DEF TriedOf
  <2>2. m.mapInfo[i].addr \in Addr
    BY <2>1 DEF Entry
  <2> QED BY <2>2, AddrAssumption
<1> HIDE DEF N, T
<1>11. \A i \in N : Rank(N, i) < m.nNew
  BY <1>3, <1>6, RankFacts
<1>12. \A i \in T : Rank(T, i) < m.nTried
  BY <1>3, <1>6, RankFacts
<1>13. WrittenNew(m) = N /\ WrittenTried(m) = T
  BY <1>7, <1>8, <1>11, <1>12
<1>14. ASSUME NEW i \in T
       PROVE  Cardinality({j \in T : j < i /\ TriedBucketOf[m.mapInfo[j].addr] = TriedBucketOf[m.mapInfo[i].addr]})
                < TriedSize
  <2> DEFINE k == TriedBucketOf[m.mapInfo[i].addr]
             B == {j \in T : j < i /\ TriedBucketOf[m.mapInfo[j].addr] = k}
  <2>1. k \in TriedBucket
    BY <1>10
  <2>2. i \in Nat /\ ~(i < i)
    BY <1>3
  <2>3. B \in SUBSET m.vvTried[k] /\ i \in m.vvTried[k] /\ i \notin B
    BY <2>1, <2>2, <1>9
  <2>4. IsFiniteSet(m.vvTried[k]) /\ Cardinality(m.vvTried[k]) <= TriedSize
    BY <2>1, <1>9
  <2> HIDE DEF B, k
  <2>5. Cardinality(B) < Cardinality(m.vvTried[k]) /\ Cardinality(B) \in Nat /\ Cardinality(m.vvTried[k]) \in Nat
    BY <2>3, <2>4, ProperPart
  <2>6. Cardinality(B) < TriedSize
    BY <2>4, <2>5, AddrAssumption
  <2> QED BY <2>6 DEF B, k
<1>15. ReadTried(m) = T
  BY <1>13, <1>14 DEF ReadTried
<1> QED BY <1>13, <1>15 DEF N, T

\* The number of an entry in peers.dat.
FileId(m) ==
  [i \in Dom(m) |-> IF i \in Dom(m) \ TriedOf(m) THEN Rank(Dom(m) \ TriedOf(m), i)
                                                 ELSE m.nNew + Rank(TriedOf(m), i)]

\* The numbers are those from 0 to the number of entries, each once.
LEMMA FileIdFacts ==
  ASSUME NEW m, Sound(m, NoId)
  PROVE  LET F == FileId(m)
             n == Cardinality(Dom(m))
         IN  /\ n \in Nat /\ n = m.nNew + m.nTried
             /\ F \in [Dom(m) -> 0 .. n - 1]
             /\ \A i, j \in Dom(m) : F[i] = F[j] => i = j
             /\ \A t \in 0 .. n - 1 : \E i \in Dom(m) : F[i] = t
<1> DEFINE N == Dom(m) \ TriedOf(m)
           T == TriedOf(m)
           F == FileId(m)
           n == Cardinality(Dom(m))
<1>1. /\ Dom(m) \subseteq Nat /\ IsFiniteSet(Dom(m)) /\ IsFiniteSet(N) /\ IsFiniteSet(T)
      /\ N \in SUBSET Nat /\ T \in SUBSET Nat /\ Dom(m) = N \cup T /\ N \cap T = {}
  <2>1. Dom(m) \subseteq Nat /\ IsFiniteSet(Dom(m))
    BY BookFacts DEF Sound
  <2> QED BY <2>1, BucketFacts DEF TriedOf
<1>2. Cardinality(N) = m.nNew /\ Cardinality(T) = m.nTried
  BY DEF Sound, Counted
<1>3. F = [i \in Dom(m) |-> IF i \in N THEN Rank(N, i) ELSE m.nNew + Rank(T, i)]
  BY DEF FileId
<1> HIDE DEF N, T, F
<1>4. Cardinality(N) \in Nat /\ Cardinality(T) \in Nat /\ n \in Nat
  BY <1>1, FS_CardinalityType
<1>5. n = m.nNew + m.nTried
  <2>1. Cardinality(N \cup T) = Cardinality(N) + Cardinality(T) - Cardinality(N \cap T)
    BY <1>1, FS_Union
  <2>2. Cardinality(N \cap T) = 0
    BY <1>1, FS_EmptySet
  <2> QED BY <2>1, <2>2, <1>1, <1>2, <1>4
<1> HIDE DEF n
<1>6. ASSUME NEW i \in Dom(m)
      PROVE  \/ i \in N /\ F[i] = Rank(N, i) /\ F[i] \in 0 .. n - 1 /\ F[i] < m.nNew
             \/ i \in T /\ F[i] = m.nNew + Rank(T, i) /\ F[i] \in 0 .. n - 1 /\ ~(F[i] < m.nNew)
  <2>1. CASE i \in N
    <3>1. F[i] = Rank(N, i)
      BY <2>1, <1>3
    <3>2. Rank(N, i) \in Nat /\ Rank(N, i) < Cardinality(N)
      BY <2>1, <1>1, RankFacts
    <3> QED BY <2>1, <3>1, <3>2, <1>2, <1>4, <1>5
  <2>2. CASE i \in T
    <3>1. F[i] = m.nNew + Rank(T, i)
      BY <2>2, <1>1, <1>3
    <3>2. Rank(T, i) \in Nat /\ Rank(T, i) < Cardinality(T)
      BY <2>2, <1>1, RankFacts
    <3> QED BY <2>2, <3>1, <3>2, <1>2, <1>4, <1>5
  <2> QED BY <2>1, <2>2, <1>1
<1>7. ASSUME NEW S \in SUBSET Nat, IsFiniteSet(S), NEW i \in S, NEW j \in S, Rank(S, i) = Rank(S, j)
      PROVE  i = j
  <2>1. i \in Nat /\ j \in Nat
    OBVIOUS
  <2>2. /\ Rank(S, i) \in Nat /\ (i < j => Rank(S, i) < Rank(S, j))
        /\ (j < i => Rank(S, j) < Rank(S, i))
    BY <1>7, RankFacts
  <2> QED BY <2>1, <2>2, <1>7
<1>8. ASSUME NEW i \in Dom(m), NEW j \in Dom(m), F[i] = F[j] PROVE i = j
  <2>1. CASE F[i] < m.nNew
    <3>1. i \in N /\ j \in N /\ Rank(N, i) = Rank(N, j)
      BY <2>1, <1>6, <1>8
    <3> QED BY <3>1, <1>1, <1>7
  <2>2. CASE ~(F[i] < m.nNew)
    <3>1. i \in T /\ j \in T /\ m.nNew + Rank(T, i) = m.nNew + Rank(T, j)
      BY <2>2, <1>6, <1>8
    <3>2. Rank(T, i) \in Nat /\ Rank(T, j) \in Nat /\ m.nNew \in Nat
      BY <3>1, <1>1, <1>2, <1>4, RankFacts
    <3>3. Rank(T, i) = Rank(T, j)
      BY <3>1, <3>2
    <3> QED BY <3>1, <3>3, <1>1, <1>7
  <2> QED BY <2>1, <2>2
<1>9. F \in [Dom(m) -> 0 .. n - 1]
  <2>1. \A i \in Dom(m) : F[i] \in 0 .. n - 1
    BY <1>6
  <2> QED BY <2>1, <1>3
<1>10. \A t \in 0 .. n - 1 : \E i \in Dom(m) : F[i] = t
  <2>1. F \in Injection(Dom(m), 0 .. n - 1)
    BY <1>8, <1>9 DEF Injection, IsInjective
  <2>2. IsFiniteSet(0 .. n - 1) /\ Cardinality(0 .. n - 1) = n
    <3> DEFINE h == n - 1
    <3>1. h \in Int /\ n = h + 1 /\ ~(h < -1)
      BY <1>4
    <3> HIDE DEF h
    <3>2. IsFiniteSet(0 .. h) /\ Cardinality(0 .. h) = IF 0 > h THEN 0 ELSE h - 0 + 1
      BY <3>1, FS_Interval
    <3>3. Cardinality(0 .. h) = n
      BY <3>1, <3>2
    <3> QED BY <3>2, <3>3 DEF h
  <2>3. F \in Surjection(Dom(m), 0 .. n - 1)
    BY <2>1, <2>2, FS_Injection DEF n
  <2> QED BY <2>3 DEF Surjection
<1> QED BY <1>4, <1>5, <1>8, <1>9, <1>10 DEF F, n

\* The book w is the book m with the numbers F for its ids, in their order.
Renamed(m, F, w) ==
  /\ Dom(w) = 0 .. Cardinality(Dom(m)) - 1 /\ w.nIdCount = Cardinality(Dom(m))
  /\ w.vRandom = [k \in 1 .. Cardinality(Dom(m)) |-> k - 1]
  /\ \A i \in Dom(m) : /\ w.mapInfo[F[i]] \in Entry /\ w.mapInfo[F[i]].nRandomPos = F[i]
                       /\ Alike(w.mapInfo[F[i]], m.mapInfo[i])
  /\ \A a \in Addr : w.mapAddr[a] = IF m.mapAddr[a] = NoId THEN NoId ELSE F[m.mapAddr[a]]
  /\ \A b \in NewBucket : w.vvNew[b] = {F[i] : i \in m.vvNew[b]}
  /\ \A k \in TriedBucket : w.vvTried[k] = {F[i] : i \in m.vvTried[k]}
  /\ w.nNew = m.nNew /\ w.nTried = m.nTried

\* The references of an entry are few enough to be read again.
LEMMA FewReferences ==
  ASSUME NEW m, Sound(m, NoId), NEW b \in NewBucket, NEW j \in m.vvNew[b]
  PROVE  Cardinality({c \in NewBucket : c < b /\ j \in m.vvNew[c]}) < PerAddress
<1> DEFINE B == {c \in NewBucket : c < b /\ j \in m.vvNew[c]}
<1>1. j \in Dom(m) /\ j \notin TriedOf(m) /\ b \in Where(m, j)
  BY InNewBucket
<1>2. IsFiniteSet(Where(m, j)) /\ Cardinality(Where(m, j)) \in Nat
  BY BucketFacts
<1>3. Cardinality(Where(m, j)) <= PerAddress
  <2>1. j # NoId
    BY <1>1, BookFacts DEF Sound, NoId
  <2>2. /\ m.mapInfo[j].nRefCount = Cardinality(Where(m, j)) + (IF j = NoId THEN 1 ELSE 0)
        /\ m.mapInfo[j].nRefCount \in 1 .. PerAddress
    BY <1>1 DEF Sound, Referred
  <2> QED BY <2>1, <2>2, <1>2
<1>4. b \in Int
  BY AddrAssumption DEF NewBucket
<1>5. B \in SUBSET Where(m, j) /\ b \notin B
  BY <1>4 DEF Where
<1> HIDE DEF B
<1>6. Cardinality(B) < Cardinality(Where(m, j)) /\ Cardinality(B) \in Nat
  BY <1>1, <1>2, <1>5, ProperPart
<1>7. Cardinality(B) < PerAddress
  BY <1>2, <1>3, <1>6, AddrAssumption
<1> QED BY <1>7 DEF B

\* What is read from peers.dat is the book with new ids.
LEMMA RereadShape ==
  ASSUME NEW m, Sound(m, NoId)
  PROVE  Renamed(m, FileId(m), Reread(m)) /\ Reread(m) \in Books
<1> DEFINE N == Dom(m) \ TriedOf(m)
           T == TriedOf(m)
           D == Dom(m)
           F == FileId(m)
           n == Cardinality(D)
           id(i) == IF i \in N THEN Rank(N, i) ELSE m.nNew + Rank(T, i)
           ids == {id(i) : i \in N \cup T}
           was(t) == CHOOSE i \in N \cup T : id(i) = t
           vv == [b \in NewBucket |->
                    {Rank(N, i) : i \in {j \in m.vvNew[b] :
                       Cardinality({c \in NewBucket : c < b /\ j \in m.vvNew[c]}) < PerAddress}}]
           info == [t \in ids |-> [m.mapInfo[was(t)] EXCEPT
                                     !.nRefCount  = Cardinality({b \in NewBucket : t \in vv[b]}),
                                     !.fInTried   = was(t) \in T,
                                     !.nRandomPos = t]]
           addr == [a \in Addr |-> IF \E t \in ids : m.mapInfo[was(t)].addr = a
                                   THEN CHOOSE t \in ids : m.mapInfo[was(t)].addr = a
                                   ELSE NoId]
           tr == [k \in TriedBucket |-> {id(i) : i \in {j \in T : TriedBucketOf[m.mapInfo[j].addr] = k}}]
           w == Reread(m)
<1>1. WrittenNew(m) = N /\ WrittenTried(m) = T /\ ReadTried(m) = T
  BY WrittenFacts
<1>2. w = [mapInfo |-> info, mapAddr |-> addr, vRandom |-> [k \in 1 .. Cardinality(ids) |-> k - 1],
           vvNew |-> vv, vvTried |-> tr, nNew |-> m.nNew, nTried |-> m.nTried - Cardinality(T \ T),
           nIdCount |-> Cardinality(ids)]
  <2> HIDE DEF N, T
  <2> QED BY <1>1 DEF Reread, MapUnkIds
<1>3. /\ n \in Nat /\ n = m.nNew + m.nTried
      /\ F \in [D -> 0 .. n - 1]
      /\ \A i, j \in D : F[i] = F[j] => i = j
      /\ \A t \in 0 .. n - 1 : \E i \in D : F[i] = t
  BY FileIdFacts
<1>4. /\ m.mapInfo \in [D -> Entry] /\ D \subseteq Nat /\ m.mapAddr \in [Addr -> Nat \cup {NoId}]
      /\ m.nNew \in Int /\ m.nTried \in Int
  BY BookFacts DEF Sound
<1>5. D = N \cup T /\ T \subseteq D
  BY DEF TriedOf
<1>6. \A i \in D : id(i) = F[i]
  BY DEF FileId
<1>7. \A b \in NewBucket : m.vvNew[b] \subseteq N
  BY InNewBucket
<1>8. \A b \in NewBucket : \A j \in m.vvNew[b] :
        Cardinality({c \in NewBucket : c < b /\ j \in m.vvNew[c]}) < PerAddress
  BY FewReferences
<1>9. \A k \in TriedBucket : m.vvTried[k] = {j \in T : TriedBucketOf[m.mapInfo[j].addr] = k}
  BY DEF Sound, Settled
<1>10. \A i \in N : Rank(N, i) = F[i]
  BY <1>5, <1>6
<1> HIDE DEF F, N, T, D
<1>11. ids = 0 .. n - 1
  <2>1. ids = {F[i] : i \in D}
    BY <1>5, <1>6
  <2> HIDE DEF ids
  <2> QED BY <2>1, <1>3
<1>12. \A i \in D : was(F[i]) = i
  BY <1>3, <1>5, <1>6
<1>13. \A b \in NewBucket : vv[b] = {F[i] : i \in m.vvNew[b]}
  <2> SUFFICES ASSUME NEW b \in NewBucket PROVE vv[b] = {F[i] : i \in m.vvNew[b]}
    OBVIOUS
  <2>1. {j \in m.vvNew[b] : Cardinality({c \in NewBucket : c < b /\ j \in m.vvNew[c]}) < PerAddress}
          = m.vvNew[b]
    BY <1>8
  <2>2. vv[b] = {Rank(N, i) : i \in m.vvNew[b]}
    BY <2>1
  <2> HIDE DEF vv
  <2> QED BY <2>2, <1>7, <1>10
<1> HIDE DEF id, was
<1>14. \A i \in D : {b \in NewBucket : F[i] \in vv[b]} = Where(m, i)
  <2> HIDE DEF vv
  <2> QED BY <1>3, <1>5, <1>7, <1>13 DEF Where
<1>15. \A k \in TriedBucket : tr[k] = {F[i] : i \in m.vvTried[k]}
  BY <1>5, <1>6, <1>9
<1>16. \A i \in D : /\ info[F[i]] \in Entry /\ info[F[i]].nRandomPos = F[i]
                    /\ Alike(info[F[i]], m.mapInfo[i])
  <2> SUFFICES ASSUME NEW i \in D
               PROVE  /\ info[F[i]] \in Entry /\ info[F[i]].nRandomPos = F[i]
                      /\ Alike(info[F[i]], m.mapInfo[i])
    OBVIOUS
  <2> DEFINE o == m.mapInfo[i]
             c == Cardinality(Where(m, i))
             g == i \in T
             e1 == [o EXCEPT !.nRefCount = c]
             e2 == [e1 EXCEPT !.fInTried = g]
             e3 == [e2 EXCEPT !.nRandomPos = F[i]]
  <2>1. F[i] \in ids /\ F[i] \in Nat
    BY <1>3, <1>11
  <2>2. info[F[i]] = [m.mapInfo[was(F[i])] EXCEPT
                        !.nRefCount  = Cardinality({b \in NewBucket : F[i] \in vv[b]}),
                        !.fInTried   = was(F[i]) \in T,
                        !.nRandomPos = F[i]]
    <3> HIDE DEF vv, ids
    <3> QED BY <2>1
  <2>3. info[F[i]] = e3
    <3> HIDE DEF info, vv
    <3> QED BY <2>2, <1>12, <1>14
  <2>4. o \in Entry /\ c \in Nat /\ o.nRefCount = c /\ o.fInTried = g /\ g \in BOOLEAN
    <3>1. o \in Entry
      BY <1>4
    <3>2. c \in Nat
      BY BucketFacts
    <3>3. i # NoId
      BY <1>4 DEF NoId
    <3>4. o.nRefCount = c + (IF i = NoId THEN 1 ELSE 0)
      BY DEF Sound, Referred, D
    <3>5. o.fInTried \in BOOLEAN
      BY <3>1 DEF Entry
    <3>6. o.fInTried <=> i \in T
      BY DEF T, TriedOf, D
    <3> QED BY <3>1, <3>2, <3>3, <3>4, <3>5, <3>6
  <2> HIDE DEF o, c, g, info, vv, ids
  <2>5. /\ e1 \in Entry /\ e1.addr = o.addr /\ e1.source = o.source /\ e1.nLastSuccess = o.nLastSuccess
        /\ e1.nRefCount = c /\ e1.fInTried = o.fInTried /\ e1.nRandomPos = o.nRandomPos
    BY <2>4 DEF Entry
  <2> HIDE DEF e1
  <2>6. /\ e2 \in Entry /\ e2.addr = e1.addr /\ e2.source = e1.source /\ e2.nLastSuccess = e1.nLastSuccess
        /\ e2.nRefCount = e1.nRefCount /\ e2.fInTried = g /\ e2.nRandomPos = e1.nRandomPos
    BY <2>4, <2>5 DEF Entry
  <2> HIDE DEF e2
  <2>7. /\ e3 \in Entry /\ e3.addr = e2.addr /\ e3.source = e2.source /\ e3.nLastSuccess = e2.nLastSuccess
        /\ e3.nRefCount = e2.nRefCount /\ e3.fInTried = e2.fInTried /\ e3.nRandomPos = F[i]
    BY <2>1, <2>6 DEF Entry
  <2> HIDE DEF e3
  <2>8. Alike(e3, o)
    BY <2>4, <2>5, <2>6, <2>7 DEF Alike
  <2> QED BY <2>3, <2>7, <2>8 DEF o
<1>17. ASSUME NEW a \in Addr
       PROVE  addr[a] = IF m.mapAddr[a] = NoId THEN NoId ELSE F[m.mapAddr[a]]
  <2>1. \A t \in ids : \E i \in D : t = F[i] /\ was(t) = i
    BY <1>3, <1>11, <1>12
  <2>2. \A i \in D : m.mapAddr[m.mapInfo[i].addr] = i /\ i # NoId
    <3>1. \A i \in D : i # NoId
      BY <1>4 DEF NoId
    <3> QED BY <3>1 DEF Sound, Known, D
  <2>3. m.mapAddr[a] # NoId => m.mapAddr[a] \in D /\ m.mapInfo[m.mapAddr[a]].addr = a
    BY DEF Sound, Known, D
  <2>4. \A i \in D : F[i] \in ids
    BY <1>3, <1>11
  <2> HIDE DEF ids
  <2>5. CASE m.mapAddr[a] = NoId
    <3>1. ~ \E t \in ids : m.mapInfo[was(t)].addr = a
      BY <2>1, <2>2, <2>5
    <3> QED BY <3>1, <2>5
  <2>6. CASE m.mapAddr[a] # NoId
    <3> DEFINE i == m.mapAddr[a]
    <3>1. i \in D /\ F[i] \in ids /\ was(F[i]) = i /\ m.mapInfo[was(F[i])].addr = a
      BY <2>3, <2>4, <2>6, <1>12
    <3>2. \A t \in ids : m.mapInfo[was(t)].addr = a => t = F[i]
      BY <2>1, <2>2
    <3> HIDE DEF i
    <3>3. addr[a] = F[i]
      BY <3>1, <3>2
    <3> QED BY <3>3, <2>6 DEF i
  <2> QED BY <2>5, <2>6
<1> HIDE DEF ids, info, addr, vv, tr, w
<1>18. IsFiniteSet(0 .. n - 1) /\ Cardinality(ids) = n
  <2> DEFINE h == n - 1
  <2>1. h \in Int /\ n = h + 1 /\ ~(h < -1)
    BY <1>3
  <2> HIDE DEF h
  <2>2. IsFiniteSet(0 .. h) /\ Cardinality(0 .. h) = IF 0 > h THEN 0 ELSE h - 0 + 1
    BY <2>1, FS_Interval
  <2>3. Cardinality(0 .. h) = n
    BY <2>1, <2>2
  <2> QED BY <2>2, <2>3, <1>11 DEF h
<1>19. Cardinality(T \ T) = 0
  <2>1. T \ T = {}
    OBVIOUS
  <2> QED BY <2>1, FS_EmptySet
<1>20. /\ w.mapInfo = info /\ w.mapAddr = addr /\ w.vRandom = [k \in 1 .. n |-> k - 1]
       /\ w.vvNew = vv /\ w.vvTried = tr /\ w.nNew = m.nNew /\ w.nTried = m.nTried /\ w.nIdCount = n
  BY <1>2, <1>4, <1>18, <1>19
<1>21. Dom(w) = 0 .. n - 1
  <2>1. DOMAIN info = ids
    BY DEF info
  <2> QED BY <2>1, <1>11, <1>20 DEF Dom
<1>22. w \in Books
  <2>1. info \in [0 .. n - 1 -> Entry] /\ 0 .. n - 1 \in SUBSET Nat
    <3>1. \A t \in 0 .. n - 1 : info[t] \in Entry
      BY <1>3, <1>16
    <3>2. info = [t \in 0 .. n - 1 |-> info[t]]
      BY <1>11 DEF info
    <3> QED BY <3>1, <3>2, <1>3
  <2>2. info \in UNION {[E -> Entry] : E \in SUBSET Nat}
    BY <2>1
  <2>3. addr \in [Addr -> Nat \cup {NoId}]
    <3>1. \A a \in Addr : addr[a] \in Nat \cup {NoId}
      <4> SUFFICES ASSUME NEW a \in Addr, m.mapAddr[a] # NoId PROVE F[m.mapAddr[a]] \in Nat
        BY <1>17
      <4>1. m.mapAddr[a] \in D
        BY DEF Sound, Known, D
      <4> QED BY <4>1, <1>3
    <3>2. addr = [a \in Addr |-> addr[a]]
      BY DEF addr
    <3> QED BY <3>1, <3>2
  <2>4. [k \in 1 .. n |-> k - 1] \in Seq(Nat)
    BY <1>3
  <2>5. vv \in [NewBucket -> SUBSET Nat]
    <3>1. \A b \in NewBucket : vv[b] \in SUBSET Nat
      BY <1>3, <1>5, <1>7, <1>13
    <3>2. vv = [b \in NewBucket |-> vv[b]]
      BY DEF vv
    <3> QED BY <3>1, <3>2
  <2>6. tr \in [TriedBucket -> SUBSET Nat]
    <3>1. \A k \in TriedBucket : m.vvTried[k] \subseteq D
      BY <1>5, <1>9
    <3>2. \A k \in TriedBucket : tr[k] \in SUBSET Nat
      BY <3>1, <1>3, <1>15
    <3>3. tr = [k \in TriedBucket |-> tr[k]]
      BY DEF tr
    <3> QED BY <3>2, <3>3
  <2>7. m.nTried - Cardinality(T \ T) = m.nTried
    BY <1>4, <1>19
  <2>8. w = [mapInfo |-> info, mapAddr |-> addr, vRandom |-> [k \in 1 .. n |-> k - 1],
             vvNew |-> vv, vvTried |-> tr, nNew |-> m.nNew, nTried |-> m.nTried, nIdCount |-> n]
    BY <2>7, <1>2, <1>18
  <2> QED BY <2>2, <2>3, <2>4, <2>5, <2>6, <2>8, <1>3, <1>4 DEF Books
<1>23. Renamed(m, F, w)
  <2>1. /\ Dom(w) = 0 .. n - 1 /\ w.nIdCount = n /\ w.vRandom = [k \in 1 .. n |-> k - 1]
        /\ w.nNew = m.nNew /\ w.nTried = m.nTried
    BY <1>20, <1>21
  <2>2. \A i \in D : /\ w.mapInfo[F[i]] \in Entry /\ w.mapInfo[F[i]].nRandomPos = F[i]
                     /\ Alike(w.mapInfo[F[i]], m.mapInfo[i])
    BY <1>16, <1>20
  <2>3. \A a \in Addr : w.mapAddr[a] = IF m.mapAddr[a] = NoId THEN NoId ELSE F[m.mapAddr[a]]
    BY <1>17, <1>20
  <2>4. \A b \in NewBucket : w.vvNew[b] = {F[i] : i \in m.vvNew[b]}
    BY <1>13, <1>20
  <2>5. \A k \in TriedBucket : w.vvTried[k] = {F[i] : i \in m.vvTried[k]}
    BY <1>15, <1>20
  <2> QED BY <2>1, <2>2, <2>3, <2>4, <2>5 DEF Renamed, D
<1> QED BY <1>22, <1>23 DEF F, w

\* What a renaming keeps.
LEMMA RenamedSets ==
  ASSUME NEW m, Sound(m, NoId), NEW F, NEW w, Renamed(m, F, w), w \in Books,
         F \in [Dom(m) -> Dom(w)], \A i, j \in Dom(m) : F[i] = F[j] => i = j,
         \A t \in Dom(w) : \E i \in Dom(m) : F[i] = t
  PROVE  /\ TriedOf(w) = {F[i] : i \in TriedOf(m)}
         /\ Dom(w) \ TriedOf(w) = {F[i] : i \in Dom(m) \ TriedOf(m)}
         /\ \A i \in Dom(m) : Where(w, F[i]) = Where(m, i)
<1>1. \A i \in Dom(m) : w.mapInfo[F[i]].fInTried = m.mapInfo[i].fInTried
  BY DEF Renamed, Alike
<1>2. \A t \in Dom(w) : t \in TriedOf(w) <=> \E i \in TriedOf(m) : F[i] = t
  BY <1>1 DEF TriedOf
<1>3. TriedOf(w) \subseteq Dom(w) /\ TriedOf(m) \subseteq Dom(m)
  BY DEF TriedOf
<1>4. TriedOf(w) = {F[i] : i \in TriedOf(m)}
  BY <1>2, <1>3
<1>5. Dom(w) \ TriedOf(w) = {F[i] : i \in Dom(m) \ TriedOf(m)}
  BY <1>3, <1>4
<1>6. ASSUME NEW i \in Dom(m) PROVE Where(w, F[i]) = Where(m, i)
  <2>1. \A b \in NewBucket : m.vvNew[b] \subseteq Dom(m)
    BY DEF Sound, Referred
  <2>2. \A b \in NewBucket : w.vvNew[b] = {F[j] : j \in m.vvNew[b]}
    BY DEF Renamed
  <2>3. \A b \in NewBucket : F[i] \in w.vvNew[b] <=> i \in m.vvNew[b]
    BY <2>1, <2>2
  <2> QED BY <2>3 DEF Where
<1> QED BY <1>4, <1>5, <1>6

\* A renaming of a sound book is sound.
LEMMA RenamedSound ==
  ASSUME NEW m, Sound(m, NoId), NEW F, NEW w, Renamed(m, F, w), w \in Books,
         F \in [Dom(m) -> Dom(w)], \A i, j \in Dom(m) : F[i] = F[j] => i = j,
         \A t \in Dom(w) : \E i \in Dom(m) : F[i] = t
  PROVE  Sound(w, NoId)
<1> DEFINE n == Cardinality(Dom(m))
<1>1. /\ Fields(m) /\ Ordered(m) /\ Known(m) /\ Counted(m) /\ Referred(m, NoId) /\ Settled(m) /\ Bounded(m)
  BY DEF Sound
<1>2. Dom(m) \subseteq Nat /\ IsFiniteSet(Dom(m)) /\ n \in Nat
  BY <1>1, BookFacts, FS_CardinalityType
<1>3. /\ TriedOf(w) = {F[i] : i \in TriedOf(m)}
      /\ Dom(w) \ TriedOf(w) = {F[i] : i \in Dom(m) \ TriedOf(m)}
      /\ \A i \in Dom(m) : Where(w, F[i]) = Where(m, i)
  BY RenamedSets
<1>4. /\ Dom(w) = 0 .. n - 1 /\ w.nIdCount = n /\ w.vRandom = [k \in 1 .. n |-> k - 1]
      /\ w.nNew = m.nNew /\ w.nTried = m.nTried
  BY DEF Renamed
<1>5. \A i \in Dom(m) : /\ w.mapInfo[F[i]].nRandomPos = F[i]
                        /\ w.mapInfo[F[i]].addr = m.mapInfo[i].addr
                        /\ w.mapInfo[F[i]].nRefCount = m.mapInfo[i].nRefCount
                        /\ w.mapInfo[F[i]].nLastSuccess = m.mapInfo[i].nLastSuccess
  BY DEF Renamed, Alike
<1>6. \A a \in Addr : w.mapAddr[a] = IF m.mapAddr[a] = NoId THEN NoId ELSE F[m.mapAddr[a]]
  BY DEF Renamed
<1>7. \A b \in NewBucket : w.vvNew[b] = {F[i] : i \in m.vvNew[b]} /\ m.vvNew[b] \subseteq Dom(m)
  BY <1>1 DEF Renamed, Referred
<1>8. TriedOf(m) \subseteq Dom(m)
  BY DEF TriedOf
<1>9. \A k \in TriedBucket : w.vvTried[k] = {F[i] : i \in m.vvTried[k]} /\ m.vvTried[k] \subseteq TriedOf(m)
  BY BucketFacts DEF Renamed
<1>10. Fields(w)
  <2>1. \A i \in Dom(w) : i < w.nIdCount
    BY <1>2, <1>4
  <2> QED BY <2>1 DEF Fields
<1>11. Ordered(w)
  <2>1. Len(w.vRandom) = n
    BY <1>2, <1>4
  <2>2. \A t \in Dom(w) : w.mapInfo[t].nRandomPos = t
    BY <1>5
  <2>3. \A t \in Dom(w) : t \in Nat /\ t < n /\ t + 1 \in 1 .. n /\ w.vRandom[t + 1] = t
    BY <1>2, <1>4
  <2>4. \A k \in 1 .. n : w.vRandom[k] = k - 1 /\ k - 1 \in Dom(w)
    BY <1>2, <1>4
  <2> HIDE DEF n
  <2> QED BY <2>1, <2>2, <2>3, <2>4 DEF Ordered
<1>12. Known(w)
  <2>1. \A i \in Dom(m) : m.mapInfo[i].addr \in Addr /\ m.mapAddr[m.mapInfo[i].addr] = i /\ i # NoId
    <3>1. \A i \in Dom(m) : m.mapInfo[i] \in Entry
      BY BucketFacts
    <3>2. \A i \in Dom(m) : m.mapInfo[i].addr \in Addr
      BY <3>1 DEF Entry
    <3>3. \A i \in Dom(m) : i # NoId
      BY <1>2 DEF NoId
    <3> QED BY <3>2, <3>3, <1>1 DEF Known
  <2>2. \A t \in Dom(w) : w.mapAddr[w.mapInfo[t].addr] = t
    <3> SUFFICES ASSUME NEW i \in Dom(m) PROVE w.mapAddr[w.mapInfo[F[i]].addr] = F[i]
      OBVIOUS
    <3> QED BY <2>1, <1>5, <1>6
  <2>3. ASSUME NEW a \in Addr, w.mapAddr[a] # NoId
        PROVE  w.mapAddr[a] \in Dom(w) /\ w.mapInfo[w.mapAddr[a]].addr = a
    <3>1. m.mapAddr[a] # NoId /\ w.mapAddr[a] = F[m.mapAddr[a]]
      BY <2>3, <1>6
    <3>2. m.mapAddr[a] \in Dom(m) /\ m.mapInfo[m.mapAddr[a]].addr = a
      BY <3>1, <1>1 DEF Known
    <3> QED BY <3>1, <3>2, <1>5
  <2> QED BY <2>2, <2>3 DEF Known
<1>13. \A S \in SUBSET Dom(m) : Cardinality({F[i] : i \in S}) = Cardinality(S)
  <2> SUFFICES ASSUME NEW S \in SUBSET Dom(m) PROVE Cardinality({F[i] : i \in S}) = Cardinality(S)
    OBVIOUS
  <2>1. IsFiniteSet(S) /\ \A i, j \in S : F[i] = F[j] => i = j
    BY <1>2, FS_Subset
  <2> QED BY <2>1, ImageSize
<1>14. Counted(w)
  <2>1. Cardinality({F[i] : i \in TriedOf(m)}) = Cardinality(TriedOf(m))
    BY <1>8, <1>13
  <2>2. Cardinality({F[i] : i \in Dom(m) \ TriedOf(m)}) = Cardinality(Dom(m) \ TriedOf(m))
    BY <1>13
  <2> QED BY <2>1, <2>2, <1>1, <1>3, <1>4 DEF Counted
<1>15. Bounded(w)
  <2>1. \A b \in NewBucket : Cardinality(w.vvNew[b]) <= NewSize
    BY <1>1, <1>7, <1>13 DEF Bounded
  <2>2. \A k \in TriedBucket : Cardinality(w.vvTried[k]) <= TriedSize
    <3>1. \A k \in TriedBucket : m.vvTried[k] \in SUBSET Dom(m)
      BY <1>8, <1>9
    <3> QED BY <3>1, <1>1, <1>9, <1>13 DEF Bounded
  <2> QED BY <2>1, <2>2 DEF Bounded
<1>16. Settled(w)
  <2> SUFFICES ASSUME NEW k \in TriedBucket
               PROVE  w.vvTried[k] = {t \in TriedOf(w) : TriedBucketOf[w.mapInfo[t].addr] = k}
    BY DEF Settled
  <2>1. m.vvTried[k] = {i \in TriedOf(m) : TriedBucketOf[m.mapInfo[i].addr] = k}
    BY <1>1 DEF Settled
  <2>2. \A i \in TriedOf(m) : w.mapInfo[F[i]].addr = m.mapInfo[i].addr
    BY <1>5, <1>8
  <2>3. w.vvTried[k] = {F[i] : i \in m.vvTried[k]}
    BY <1>9
  <2> QED BY <2>1, <2>2, <2>3, <1>3
<1>17. Referred(w, NoId)
  <2>1. \A b \in NewBucket : w.vvNew[b] \subseteq Dom(w)
    BY <1>7
  <2>2. \A t \in Dom(w) : t # NoId
    BY <1>2, <1>4 DEF NoId
  <2>3. \A t \in Dom(w) : w.mapInfo[t].nRefCount = Cardinality(Where(w, t)) + (IF t = NoId THEN 1 ELSE 0)
    <3> SUFFICES ASSUME NEW i \in Dom(m)
                 PROVE  w.mapInfo[F[i]].nRefCount = Cardinality(Where(w, F[i])) + (IF F[i] = NoId THEN 1 ELSE 0)
      OBVIOUS
    <3>1. m.mapInfo[i].nRefCount = Cardinality(Where(m, i)) + (IF i = NoId THEN 1 ELSE 0) /\ i # NoId
      BY <1>1, <1>2 DEF Referred, NoId
    <3>2. F[i] # NoId
      BY <2>2
    <3> QED BY <3>1, <3>2, <1>3, <1>5
  <2>4. \A t \in Dom(w) \ TriedOf(w) : w.mapInfo[t].nRefCount \in 1 .. PerAddress
    BY <1>1, <1>3, <1>5 DEF Referred
  <2>5. \A t \in TriedOf(w) : w.mapInfo[t].nRefCount = 0 /\ w.mapInfo[t].nLastSuccess
    BY <1>1, <1>3, <1>5, <1>8 DEF Referred
  <2> QED BY <2>1, <2>3, <2>4, <2>5 DEF Referred
<1> QED BY <1>10, <1>11, <1>12, <1>14, <1>15, <1>16, <1>17 DEF Sound

\* Entries that differ in their place only are the same without it.
LEMMA AlikeEntries ==
  ASSUME NEW e \in Entry, NEW f \in Entry, Alike(e, f)
  PROVE  [e EXCEPT !.nRandomPos = 0] = [f EXCEPT !.nRandomPos = 0]
<1> DEFINE x == [e EXCEPT !.nRandomPos = 0]
           y == [f EXCEPT !.nRandomPos = 0]
<1>1. /\ x \in Entry /\ x.addr = e.addr /\ x.source = e.source /\ x.nLastSuccess = e.nLastSuccess
      /\ x.nRefCount = e.nRefCount /\ x.fInTried = e.fInTried /\ x.nRandomPos = 0
  BY DEF Entry
<1>2. /\ y \in Entry /\ y.addr = f.addr /\ y.source = f.source /\ y.nLastSuccess = f.nLastSuccess
      /\ y.nRefCount = f.nRefCount /\ y.fInTried = f.fInTried /\ y.nRandomPos = 0
  BY DEF Entry
<1> HIDE DEF x, y
<1>3. x = y
  BY <1>1, <1>2 DEF Entry, Alike
<1> QED BY <1>3 DEF x, y

\* A renaming keeps what is known of every address.
LEMMA RenamedKnowledge ==
  ASSUME NEW m, Sound(m, NoId), NEW F, NEW w, Renamed(m, F, w), w \in Books,
         F \in [Dom(m) -> Dom(w)], \A i, j \in Dom(m) : F[i] = F[j] => i = j,
         \A t \in Dom(w) : \E i \in Dom(m) : F[i] = t
  PROVE  Knowledge(w) = Knowledge(m)
<1> DEFINE A(v) == {a \in Addr : v.mapAddr[a] # NoId}
           K(v, a) == <<[v.mapInfo[v.mapAddr[a]] EXCEPT !.nRandomPos = 0],
                        {b \in NewBucket : v.mapAddr[a] \in v.vvNew[b]},
                        {k \in TriedBucket : v.mapAddr[a] \in v.vvTried[k]}>>
<1>1. Knowledge(w) = [a \in A(w) |-> K(w, a)] /\ Knowledge(m) = [a \in A(m) |-> K(m, a)]
  BY DEF Knowledge
<1>2. Dom(m) \subseteq Nat /\ Dom(w) \subseteq Nat
  <2>1. Sound(w, NoId)
    BY RenamedSound
  <2> QED BY <2>1, BookFacts DEF Sound
<1>3. \A a \in Addr : w.mapAddr[a] = IF m.mapAddr[a] = NoId THEN NoId ELSE F[m.mapAddr[a]]
  BY DEF Renamed
<1>4. \A a \in Addr : m.mapAddr[a] # NoId => m.mapAddr[a] \in Dom(m)
  BY DEF Sound, Known
<1>5. \A t \in Dom(w) : t # NoId
  BY <1>2 DEF NoId
<1>6. A(w) = A(m)
  BY <1>3, <1>4, <1>5
<1>7. ASSUME NEW a \in A(m) PROVE K(w, a) = K(m, a)
  <2> DEFINE i == m.mapAddr[a]
  <2>1. i \in Dom(m) /\ w.mapAddr[a] = F[i]
    BY <1>3, <1>4
  <2>2. Where(w, F[i]) = Where(m, i)
    BY <2>1, RenamedSets
  <2>3. \A k \in TriedBucket : F[i] \in w.vvTried[k] <=> i \in m.vvTried[k]
    <3>1. \A k \in TriedBucket : m.vvTried[k] \subseteq Dom(m)
      BY BucketFacts DEF TriedOf
    <3>2. \A k \in TriedBucket : w.vvTried[k] = {F[j] : j \in m.vvTried[k]}
      BY DEF Renamed
    <3> QED BY <3>1, <3>2, <2>1
  <2>4. [w.mapInfo[F[i]] EXCEPT !.nRandomPos = 0] = [m.mapInfo[i] EXCEPT !.nRandomPos = 0]
    <3>1. w.mapInfo[F[i]] \in Entry /\ Alike(w.mapInfo[F[i]], m.mapInfo[i])
      BY <2>1 DEF Renamed
    <3>2. m.mapInfo[i] \in Entry
      BY <2>1, BucketFacts
    <3> QED BY <3>1, <3>2, AlikeEntries
  <2>5. {b \in NewBucket : F[i] \in w.vvNew[b]} = {b \in NewBucket : i \in m.vvNew[b]}
    BY <2>2 DEF Where
  <2>6. {k \in TriedBucket : F[i] \in w.vvTried[k]} = {k \in TriedBucket : i \in m.vvTried[k]}
    BY <2>3
  <2> QED BY <2>1, <2>4, <2>5, <2>6
<1> HIDE DEF A, K
<1> QED BY <1>1, <1>6, <1>7

\* Writing and reading keep the book sound, and what it knows.
LEMMA RereadSound ==
  ASSUME NEW m, Sound(m, NoId)
  PROVE  Sound(Reread(m), NoId) /\ Knowledge(Reread(m)) = Knowledge(m)
<1> DEFINE F == FileId(m)
           w == Reread(m)
           n == Cardinality(Dom(m))
<1>1. Renamed(m, F, w) /\ w \in Books
  BY RereadShape
<1>2. /\ F \in [Dom(m) -> 0 .. n - 1] /\ \A i, j \in Dom(m) : F[i] = F[j] => i = j
      /\ \A t \in 0 .. n - 1 : \E i \in Dom(m) : F[i] = t
  BY FileIdFacts
<1>3. Dom(w) = 0 .. n - 1
  BY <1>1 DEF Renamed
<1> HIDE DEF F, w, n
<1>4. /\ F \in [Dom(m) -> Dom(w)] /\ \A t \in Dom(w) : \E i \in Dom(m) : F[i] = t
  BY <1>2, <1>3
<1>5. Sound(w, NoId) /\ Knowledge(w) = Knowledge(m)
  BY <1>1, <1>2, <1>4, RenamedSound, RenamedKnowledge
<1> QED BY <1>5 DEF w

\* The empty book is sound.
LEMMA InitSound == Init => Sound(book, NoId)
<1> SUFFICES ASSUME Init PROVE Sound(book, NoId)
  OBVIOUS
<1>1. /\ book.mapInfo = << >> /\ book.mapAddr = [a \in Addr |-> NoId] /\ book.vRandom = << >>
      /\ book.vvNew = [b \in NewBucket |-> {}] /\ book.vvTried = [k \in TriedBucket |-> {}]
      /\ book.nNew = 0 /\ book.nTried = 0 /\ book.nIdCount = 0
  BY DEF Init
<1>2. Dom(book) = {} /\ TriedOf(book) = {}
  BY <1>1 DEF Dom, TriedOf
<1>3. book \in Books
  <2>1. << >> \in UNION {[D -> Entry] : D \in SUBSET Nat}
    <3>1. << >> \in [{} -> Entry] /\ {} \in SUBSET Nat
      OBVIOUS
    <3> QED BY <3>1
  <2>2. << >> \in Seq(Nat)
    OBVIOUS
  <2>3. /\ [a \in Addr |-> NoId] \in [Addr -> Nat \cup {NoId}]
        /\ [b \in NewBucket |-> {}] \in [NewBucket -> SUBSET Nat]
        /\ [k \in TriedBucket |-> {}] \in [TriedBucket -> SUBSET Nat]
    OBVIOUS
  <2> QED BY <2>1, <2>2, <2>3 DEF Init, Books
<1>4. Fields(book) /\ Ordered(book) /\ Known(book)
  BY <1>1, <1>2, <1>3 DEF Fields, Ordered, Known
<1>5. Counted(book) /\ Referred(book, NoId) /\ Settled(book)
  BY <1>1, <1>2, FS_EmptySet DEF Counted, Referred, Settled
<1>6. Bounded(book)
  BY <1>1, FS_EmptySet, AddrAssumption DEF Bounded
<1> QED BY <1>4, <1>5, <1>6 DEF Sound

\* vRandom has as many places as there are entries.
LEMMA OrderedSize ==
  ASSUME NEW m, Sound(m, NoId)
  PROVE  Len(m.vRandom) = Cardinality(Dom(m))
<1> DEFINE n == Len(m.vRandom)
           v == m.vRandom
<1>1. v \in Seq(Nat) /\ n \in Nat /\ \A i \in Dom(m) : m.mapInfo[i] \in Entry
  BY BookFacts, BucketFacts DEF Sound
<1>2. \A k \in 1 .. n : v[k] \in Dom(m) /\ m.mapInfo[v[k]].nRandomPos = k - 1
  BY DEF Sound, Ordered
<1>3. \A i \in Dom(m) : \E k \in 1 .. n : v[k] = i
  <2> SUFFICES ASSUME NEW i \in Dom(m) PROVE \E k \in 1 .. n : v[k] = i
    OBVIOUS
  <2> DEFINE p == m.mapInfo[i].nRandomPos
  <2>1. p \in Nat
    BY <1>1 DEF Entry
  <2>2. p < n /\ v[p + 1] = i
    BY DEF Sound, Ordered
  <2> HIDE DEF p, n, v
  <2>3. p + 1 \in 1 .. n
    BY <2>1, <2>2, <1>1
  <2> QED BY <2>2, <2>3
<1>4. v \in [1 .. n -> Dom(m)]
  BY <1>1, <1>2
<1>5. ASSUME NEW j \in 1 .. n, NEW k \in 1 .. n, v[j] = v[k] PROVE j = k
  <2>1. j - 1 = k - 1
    BY <1>2, <1>5
  <2>2. j \in Int /\ k \in Int
    BY <1>1
  <2> QED BY <2>1, <2>2
<1> HIDE DEF v, n
<1>6. v \in Surjection(1 .. n, Dom(m)) /\ v \in Injection(1 .. n, Dom(m))
  BY <1>3, <1>4, <1>5 DEF Surjection, Injection, IsInjective
<1>7. IsFiniteSet(1 .. n) /\ Cardinality(1 .. n) = n
  <2>1. IsFiniteSet(1 .. n) /\ Cardinality(1 .. n) = IF 1 > n THEN 0 ELSE n - 1 + 1
    BY <1>1, FS_Interval
  <2> QED BY <2>1, <1>1
<1>8. Cardinality(Dom(m)) = n
  BY <1>6, <1>7, FS_Surjection
<1> QED BY <1>8 DEF n

\* A sound book passes Check_.
LEMMA SoundConsistent == Sound(book, NoId) => BookConsistent
<1> SUFFICES ASSUME Sound(book, NoId) PROVE BookConsistent
  OBVIOUS
<1> DEFINE m == book
<1>1. /\ Fields(m) /\ Ordered(m) /\ Known(m) /\ Counted(m) /\ Referred(m, NoId) /\ Settled(m) /\ Bounded(m)
  BY DEF Sound
<1>2. Ids = Dom(m) /\ Tried = TriedOf(m)
  BY DEF Ids, Tried, Dom, TriedOf
<1>3. /\ m.mapInfo \in [Dom(m) -> Entry] /\ Dom(m) \subseteq Nat
      /\ m.mapAddr \in [Addr -> Nat \cup {NoId}] /\ m.vRandom \in Seq(Nat)
      /\ m.vvNew \in [NewBucket -> SUBSET Nat] /\ m.vvTried \in [TriedBucket -> SUBSET Nat]
      /\ m.nIdCount \in Nat /\ Dom(m) \subseteq 0 .. m.nIdCount - 1
  BY <1>1, BookFacts
<1>4. m.nNew \in Nat /\ m.nTried \in Nat
  <2>1. Cardinality(Dom(m) \ TriedOf(m)) \in Nat /\ Cardinality(TriedOf(m)) \in Nat
    BY BucketFacts, FS_CardinalityType
  <2> QED BY <2>1, <1>1 DEF Counted
<1>5. TypeOK
  BY <1>2, <1>3, <1>4 DEF TypeOK, Entry
<1>6. RandomExact
  <2>1. Cardinality(Dom(m)) = m.nNew + m.nTried
    BY FileIdFacts
  <2>2. Len(m.vRandom) = Cardinality(Dom(m))
    BY OrderedSize
  <2>3. Len(m.vRandom) = m.nTried + m.nNew
    BY <2>1, <2>2, <1>4
  <2> QED BY <2>2, <2>3, <1>1, <1>2 DEF RandomExact, Ordered, Known
<1>7. RefCountsExact
  <2>1. \A i \in Dom(m) : m.mapInfo[i].nRefCount = Cardinality({b \in NewBucket : i \in m.vvNew[b]})
    <3> SUFFICES ASSUME NEW i \in Dom(m) PROVE m.mapInfo[i].nRefCount = Cardinality(Where(m, i))
      BY DEF Where
    <3>1. m.mapInfo[i].nRefCount = Cardinality(Where(m, i)) + (IF i = NoId THEN 1 ELSE 0)
      BY <1>1 DEF Referred
    <3>2. i # NoId
      BY <1>3 DEF NoId
    <3>3. Cardinality(Where(m, i)) \in Nat
      BY BucketFacts
    <3> QED BY <3>1, <3>2, <3>3
  <2>2. \A i \in Ids \ Tried : m.mapInfo[i].nRefCount \in 1 .. PerAddress
    BY <1>1, <1>2 DEF Referred
  <2>3. Cardinality(Ids \ Tried) = m.nNew /\ \A b \in NewBucket : m.vvNew[b] \subseteq Ids
    BY <1>1, <1>2 DEF Referred, Counted
  <2> QED BY <2>1, <2>2, <2>3, <1>2 DEF RefCountsExact
<1>8. TriedExact
  BY <1>1, <1>2 DEF TriedExact, Referred, Settled, Counted
<1>9. BucketsBounded
  BY <1>1 DEF BucketsBounded, Bounded
<1> QED BY <1>5, <1>6, <1>7, <1>8, <1>9 DEF BookConsistent

\* The inductive invariant.
BookInv == Sound(book, NoId)

\* Every step keeps the book sound.
LEMMA StepSound == BookInv /\ [Next]_vars => BookInv'
<1> SUFFICES ASSUME Sound(book, NoId), [Next]_vars PROVE Sound(book', NoId)
  BY DEF BookInv
<1>1. ASSUME NEW a \in Addr, NEW s \in Source, Add(a, s) PROVE Sound(book', NoId)
  BY <1>1, AddSound
<1>2. ASSUME NEW a \in Addr, Good(a) PROVE Sound(book', NoId)
  BY <1>2, GoodSound
<1>3. CASE GetAddr
  BY <1>3, GetAddrSound
<1>4. CASE Restart
  BY <1>4, RereadSound DEF Restart
<1>5. CASE UNCHANGED vars
  BY <1>5 DEF vars
<1> QED BY <1>1, <1>2, <1>3, <1>4, <1>5 DEF Next

\* The book is sound at all times.
LEMMA BookInvariant == Spec => []BookInv
<1>1. Init => BookInv
  BY InitSound DEF BookInv
<1> QED BY <1>1, StepSound, PTL DEF Spec

\* Whatever addresses are added, connected to, swapped, written and read, the
\* consistency check of CAddrMan finds nothing wrong and no bucket outgrows its
\* size (Check_, addrman.cpp).
THEOREM BookStaysConsistent == Spec => []BookConsistent
<1>1. BookInv => BookConsistent
  BY SoundConsistent DEF BookInv
<1> QED BY <1>1, BookInvariant, PTL

\* Writing peers.dat and reading it gives every address back with its buckets,
\* references and success, whatever the book (Serialize and Unserialize of
\* CAddrMan).
THEOREM RereadIsExact == Spec => []RereadExact
<1>1. BookInv => RereadExact
  BY RereadSound DEF RereadExact, BookInv
<1> QED BY <1>1, BookInvariant, PTL

\* No step of the address manager forgets an address that has been tried: not
\* the room made by ShrinkNew, not the exchange in MakeTried, not a restart.
THEOREM TriedAreKept == Spec => TriedKept
<1> DEFINE Keeps == \A i \in Tried : book'.mapAddr[book.mapInfo[i].addr] # NoId
<1>1. ASSUME Sound(book, NoId), Sound(book', NoId), [Next]_vars PROVE [Keeps]_vars
  <2>1. \A i \in Tried : /\ i \in TriedOf(book) /\ i \in Dom(book) /\ i # NoId
                         /\ book.mapInfo[i].addr \in Addr /\ book.mapAddr[book.mapInfo[i].addr] = i
    <3>1. Tried = TriedOf(book) /\ TriedOf(book) \subseteq Dom(book)
      BY DEF Tried, TriedOf, Ids, Dom
    <3>2. \A i \in Dom(book) : i \in Nat /\ book.mapInfo[i] \in Entry
      BY <1>1, BookFacts DEF Sound
    <3>3. \A i \in Dom(book) : i # NoId /\ book.mapInfo[i].addr \in Addr
      BY <3>2 DEF NoId, Entry
    <3>4. \A i \in Dom(book) : book.mapAddr[book.mapInfo[i].addr] = i
      BY <1>1 DEF Sound, Known
    <3> QED BY <3>1, <3>3, <3>4
  <2>2. ASSUME book'.mapAddr = book.mapAddr PROVE Keeps
    BY <2>1, <2>2
  <2>3. ASSUME NEW a \in Addr, NEW s \in Source, Add(a, s) PROVE Keeps
    <3>1. TriedOf(book') = TriedOf(book) /\ Kept(book, book')
      BY <1>1, <2>3, AddSound
    <3>2. \A i \in TriedOf(book') : i \in Dom(book')
      BY DEF TriedOf
    <3>3. \A i \in Dom(book') : book'.mapAddr[book'.mapInfo[i].addr] = i
      BY <1>1 DEF Sound, Known
    <3> QED BY <3>1, <3>2, <3>3, <2>1 DEF Kept
  <2>4. CASE Restart
    <3>1. Knowledge(book') = Knowledge(book)
      BY <1>1, <2>4, RereadSound DEF Restart
    <3>2. DOMAIN Knowledge(book) = {a \in Addr : book.mapAddr[a] # NoId}
      BY DEF Knowledge
    <3>3. DOMAIN Knowledge(book') = {a \in Addr : book'.mapAddr[a] # NoId}
      BY DEF Knowledge
    <3> QED BY <3>1, <3>2, <3>3, <2>1
  <2>5. ASSUME NEW a \in Addr, Good(a) PROVE Keeps
    BY <1>1, <2>2, <2>5, GoodSound
  <2>6. CASE GetAddr
    BY <1>1, <2>2, <2>6, GetAddrSound
  <2>7. CASE UNCHANGED vars
    BY <2>7
  <2> HIDE DEF Keeps
  <2> QED BY <1>1, <2>3, <2>4, <2>5, <2>6, <2>7 DEF Next
<1>2. BookInv /\ BookInv' /\ [Next]_vars => [Keeps]_vars
  BY <1>1 DEF BookInv
<1> QED BY <1>2, BookInvariant, PTL DEF Spec, TriedKept
=============================================================================
