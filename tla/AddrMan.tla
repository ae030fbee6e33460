------------------------------- MODULE AddrMan -------------------------------
(***************************************************************************)
(* CAddrMan, the addresses a node knows: entries in the new and in the     *)
(* tried buckets, the random order of all of them, and their way through   *)
(* peers.dat.                                                              *)
(*                                                                         *)
(* Every operation holds cs.  The times of an entry decide which entries   *)
(* are old or terrible and move on with the clock, so they are left out    *)
(* and every choice they lead to is open; what is kept is whether there    *)
(* has been a success.  Attempt_ and Connected_ only change times, and a   *)
(* call for another port than the one on record does nothing.              *)
(***************************************************************************)
EXTENDS Integers, Sequences, FiniteSets

CONSTANTS
  Addr,           \* routable addresses (CNetAddr)
  Source,         \* addresses they are learnt from
  NewBucketOf,    \* GetNewBucket(nKey, source), [Addr \X Source -> NewBucket]
  TriedBucketOf,  \* GetTriedBucket(nKey), [Addr -> TriedBucket]
  NewBuckets,     \* ADDRMAN_NEW_BUCKET_COUNT
  TriedBuckets,   \* ADDRMAN_TRIED_BUCKET_COUNT
  NewSize,        \* ADDRMAN_NEW_BUCKET_SIZE
  TriedSize,      \* ADDRMAN_TRIED_BUCKET_SIZE
  PerAddress,     \* ADDRMAN_NEW_BUCKETS_PER_ADDRESS
  MaxPct,         \* ADDRMAN_GETADDR_MAX_PCT
  GetAddrMax,     \* ADDRMAN_GETADDR_MAX
  MaxIds          \* bound on nIdCount between two starts

NewBucket   == 0 .. NewBuckets - 1
TriedBucket == 0 .. TriedBuckets - 1

ASSUME AddrAssumption ==
  /\ NewBuckets \in Nat \ {0} /\ TriedBuckets \in Nat \ {0}
  /\ NewSize \in Nat \ {0} /\ TriedSize \in Nat \ {0} /\ PerAddress \in Nat \ {0}
  /\ MaxPct \in 0 .. 100 /\ GetAddrMax \in Nat /\ MaxIds \in Nat
  /\ NewBucketOf \in [Addr \X Source -> NewBucket]
  /\ TriedBucketOf \in [Addr -> TriedBucket]

NoId == -1

VARIABLE book     \* the members of CAddrMan

vars == <<book>>

-----------------------------------------------------------------------------
(* CAddrInfo and the helpers of CAddrMan, as functions on the book m        *)

Info(a, s, pos) ==
  [addr |-> a, source |-> s, nLastSuccess |-> FALSE, nRefCount |-> 0, fInTried |-> FALSE,
   nRandomPos |-> pos]

Create(m, a, s) ==
  [m EXCEPT !.nIdCount   = @ + 1,
            !.mapInfo    = [i \in DOMAIN m.mapInfo \cup {m.nIdCount} |->
                              IF i = m.nIdCount THEN Info(a, s, Len(m.vRandom)) ELSE m.mapInfo[i]],
            !.mapAddr[a] = m.nIdCount,
            !.vRandom    = Append(@, m.nIdCount),
            !.nNew       = @ + 1]

\* Positions count from 0.
SwapRandom(m, p, q) ==
  [m EXCEPT !.mapInfo[m.vRandom[p + 1]].nRandomPos = q,
            !.mapInfo[m.vRandom[q + 1]].nRandomPos = p,
            !.vRandom[p + 1] = m.vRandom[q + 1],
            !.vRandom[q + 1] = m.vRandom[p + 1]]

\* The entry without references is taken out of everything but its bucket.
Forget(m, id) ==
  LET w == SwapRandom(m, m.mapInfo[id].nRandomPos, Len(m.vRandom) - 1)
  IN  [w EXCEPT !.vRandom = SubSeq(@, 1, Len(@) - 1),
                !.mapAddr[w.mapInfo[id].addr] = NoId,
                !.mapInfo = [k \in DOMAIN w.mapInfo \ {id} |-> w.mapInfo[k]],
                !.nNew    = @ - 1]

\* ShrinkNew throws out the first terrible entry, else the oldest of four drawn
\* at random: any entry of the bucket, as the times may be.
ShrinkNew(m, b, id) ==
  LET d == [m EXCEPT !.mapInfo[id].nRefCount = @ - 1]
      f == IF d.mapInfo[id].nRefCount = 0 THEN Forget(d, id) ELSE d
  IN  [f EXCEPT !.vvNew[b] = @ \ {id}]

\* The reference is counted even if the bucket has the entry.
MutInsertedCount(m, id, b) ==
  LET r == [m EXCEPT !.mapInfo[id].nRefCount = @ + 1]
  IN  IF id \in m.vvNew[b] THEN {r}
      ELSE IF Cardinality(m.vvNew[b]) = NewSize
           THEN {[ShrinkNew(r, b, k) EXCEPT !.vvNew[b] = @ \cup {id}] : k \in m.vvNew[b]}
           ELSE {[r EXCEPT !.vvNew[b] = @ \cup {id}]}

\* The end of Add_: the possible books with id in bucket b.
Inserted(m, id, b) ==
  LET r == [m EXCEPT !.mapInfo[id].nRefCount = @ + 1]
  IN  IF id \in m.vvNew[b] THEN {m}
      ELSE IF Cardinality(m.vvNew[b]) = NewSize
           THEN {[ShrinkNew(r, b, k) EXCEPT !.vvNew[b] = @ \cup {id}] : k \in m.vvNew[b]}
           ELSE {[r EXCEPT !.vvNew[b] = @ \cup {id}]}

\* A new bucket for an entry that leaves its tried bucket: its own, or the one
\* from which the other entry came if its own is full.
Refuge(m, old, origin) ==
  LET info == m.mapInfo[old]
      own  == NewBucketOf[info.addr, info.source]
  IN  IF Cardinality(m.vvNew[own]) < NewSize THEN own ELSE origin

\* The entry that leaves the tried bucket is dropped.
MutDemotedDrop(m, old, origin) ==
  [Forget(m, old) EXCEPT !.nNew = @ + 1]

Demoted(m, old, origin) ==
  [m EXCEPT !.mapInfo[old].fInTried  = FALSE,
            !.mapInfo[old].nRefCount = 1,
            !.vvNew[Refuge(m, old, origin)] = @ \cup {old},
            !.nNew = @ + 1]

\* The possible books with id, found in the new bucket origin, moved to its
\* tried bucket.  SelectTried may come out with any position: it returns the
\* one from which it has just swapped the oldest entry away.
MakeTried(m, id, origin) ==
  LET refs == Cardinality({b \in NewBucket : id \in m.vvNew[b]})
      k    == TriedBucketOf[m.mapInfo[id].addr]
      r    == [m EXCEPT !.vvNew = [b \in NewBucket |-> m.vvNew[b] \ {id}],
                        !.mapInfo[id].nRefCount = @ - refs,
                        !.mapInfo[id].fInTried  = TRUE,
                        !.nNew = @ - 1]
  IN  IF Cardinality(r.vvTried[k]) < TriedSize
      THEN {[r EXCEPT !.vvTried[k] = @ \cup {id}, !.nTried = @ + 1]}
      ELSE {[Demoted(r, old, origin) EXCEPT !.vvTried[k] = (@ \ {old}) \cup {id}] :
              old \in r.vvTried[k]}

-----------------------------------------------------------------------------
(* peers.dat: CAddrMan is written by ThreadDumpAddress and when the node    *)
(* stops, and read when it starts.  Ids are not written; the order of the   *)
(* entries takes their place.                                               *)

Rank(S, id) == Cardinality({j \in S : j < id})

\* The entries counted by nNew, and those counted by nTried.
WrittenNew(m) ==
  LET S == {i \in DOMAIN m.mapInfo : m.mapInfo[i].nRefCount # 0}
  IN  {i \in S : Rank(S, i) < m.nNew}

WrittenTried(m) ==
  LET S == {i \in DOMAIN m.mapInfo : m.mapInfo[i].fInTried}
  IN  {i \in S : Rank(S, i) < m.nTried}

\* All entries are counted, those that are not written too.
MutMapUnkIds(m, id) == Rank(DOMAIN m.mapInfo, id)

\* mapUnkIds: the number of an entry in the file.
MapUnkIds(m, id) == Rank(WrittenNew(m), id)

\* The tried entries for which there is room.
ReadTried(m) ==
  {i \in WrittenTried(m) :
     Cardinality({j \in WrittenTried(m) :
       j < i /\ TriedBucketOf[m.mapInfo[j].addr] = TriedBucketOf[m.mapInfo[i].addr]}) < TriedSize}

\* What is read when m has been written.
Reread(m) ==
  LET new    == WrittenNew(m)
      tried  == ReadTried(m)
      id(i)  == IF i \in new THEN Rank(new, i) ELSE m.nNew + Rank(tried, i)
      ids    == {id(i) : i \in new \cup tried}
      was(n) == CHOOSE i \in new \cup tried : id(i) = n
      vvNew  == [b \in NewBucket |->
                   {MapUnkIds(m, i) : i \in {j \in m.vvNew[b] :
                      Cardinality({c \in NewBucket : c < b /\ j \in m.vvNew[c]}) < PerAddress}}]
  IN  [mapInfo  |-> [n \in ids |->
                       [m.mapInfo[was(n)] EXCEPT
                          !.nRefCount  = Cardinality({b \in NewBucket : n \in vvNew[b]}),
                          !.fInTried   = was(n) \in tried,
                          !.nRandomPos = n]],
       mapAddr  |-> [a \in Addr |-> IF \E n \in ids : m.mapInfo[was(n)].addr = a
                                    THEN CHOOSE n \in ids : m.mapInfo[was(n)].addr = a
                                    ELSE NoId],
       vRandom  |-> [k \in 1 .. Cardinality(ids) |-> k - 1],
       vvNew    |-> vvNew,
       vvTried  |-> [k \in TriedBucket |->
                       {id(i) : i \in {j \in tried : TriedBucketOf[m.mapInfo[j].addr] = k}}],
       nNew     |-> m.nNew,
       nTried   |-> m.nTried - Cardinality(WrittenTried(m) \ tried),
       nIdCount |-> Cardinality(ids)]

-----------------------------------------------------------------------------

Init ==
  book = [mapInfo  |-> << >>,
          mapAddr  |-> [a \in Addr |-> NoId],
          vRandom  |-> << >>,
          vvNew    |-> [b \in NewBucket |-> {}],
          vvTried  |-> [k \in TriedBucket |-> {}],
          nNew     |-> 0,
          nTried   |-> 0,
          nIdCount |-> 0]

\* A known address gets another reference, or not: that is up to the times and
\* to chance.  (The new entry is bound by \E for TLC to compute it once.)
Add(a, s) ==
  LET id == book.mapAddr[a]
      b  == NewBucketOf[a, s]
  IN  \/ /\ id # NoId
         /\ ~book.mapInfo[id].fInTried
         /\ book.mapInfo[id].nRefCount # PerAddress
         /\ book' \in Inserted(book, id, b)
      \/ /\ id = NoId
         /\ book.nIdCount < MaxIds
         /\ \E m \in {Create(book, a, s)} : book' \in Inserted(m, book.nIdCount, b)

Good(a) ==
  LET id == book.mapAddr[a]
      m  == [book EXCEPT !.mapInfo[id].nLastSuccess = TRUE]
      in == {b \in NewBucket : id \in book.vvNew[b]}
  IN  /\ id # NoId
      /\ IF book.mapInfo[id].fInTried \/ in = {}
         THEN book' = m
         ELSE \E origin \in in : book' \in MakeTried(m, id, origin)

\* The first n places are filled one after the other: the k-th by a swap with
\* the place pos[k].
Swapped(m, pos, n) ==
  LET after[k \in 0 .. n] == IF k = 0 THEN m ELSE SwapRandom(after[k - 1], k - 1, pos[k])
  IN  after[n]

\* One swap for each address that is given out.
GetAddr ==
  LET size   == Len(book.vRandom)
      share  == (MaxPct * size) \div 100
      nNodes == IF share > GetAddrMax THEN GetAddrMax ELSE share
  IN  \E pos \in [1 .. nNodes -> 0 .. size - 1] :
        /\ \A n \in 1 .. nNodes : pos[n] >= n - 1
        /\ book' = Swapped(book, pos, nNodes)

\* The node stops and starts; after a crash it comes back with an earlier book,
\* written in the same way.
Restart == book' = Reread(book)

Next ==
  \/ \E a \in Addr, s \in Source : Add(a, s)
  \/ \E a \in Addr : Good(a)
  \/ GetAddr
  \/ Restart

Spec == Init /\ [][Next]_vars

-----------------------------------------------------------------------------
(* Properties                                                               *)

Ids == DOMAIN book.mapInfo

Tried == {i \in Ids : book.mapInfo[i].fInTried}

\* Types of the members.
TypeOK ==
  /\ Ids \subseteq 0 .. book.nIdCount - 1
  /\ \A i \in Ids :
       book.mapInfo[i] \in [addr : Addr, source : Source, nLastSuccess : BOOLEAN,
                            nRefCount : Nat, fInTried : BOOLEAN, nRandomPos : Nat]
  /\ book.mapAddr \in [Addr -> Nat \cup {NoId}]
  /\ book.vRandom \in Seq(Nat)
  /\ book.vvNew \in [NewBucket -> SUBSET Nat]
  /\ book.vvTried \in [TriedBucket -> SUBSET Nat]
  /\ book.nNew \in Nat /\ book.nTried \in Nat /\ book.nIdCount \in Nat

\* Check_, errors -5, -7 and -14: mapAddr and vRandom lead to every entry and
\* to nothing else, and every entry knows its place in vRandom, through all
\* the swaps of GetAddr_ and ShrinkNew.
RandomExact ==
  /\ Len(book.vRandom) = book.nTried + book.nNew
  /\ Len(book.vRandom) = Cardinality(Ids)
  /\ \A i \in Ids : LET info == book.mapInfo[i]
                    IN  /\ book.mapAddr[info.addr] = i
                        /\ info.nRandomPos < Len(book.vRandom)
                        /\ book.vRandom[info.nRandomPos + 1] = i
  /\ \A a \in Addr : book.mapAddr[a] # NoId => book.mapAddr[a] \in Ids

\* Check_, errors -3, -4, -10, -12 and -15: an entry that is not tried has as
\* many references as there are new buckets with it, at least one and at most
\* PerAddress; Select_ would look for ever if nNew counted others.
RefCountsExact ==
  /\ \A i \in Ids \ Tried : book.mapInfo[i].nRefCount \in 1 .. PerAddress
  /\ \A i \in Ids : book.mapInfo[i].nRefCount = Cardinality({b \in NewBucket : i \in book.vvNew[b]})
  /\ Cardinality(Ids \ Tried) = book.nNew
  /\ \A b \in NewBucket : book.vvNew[b] \subseteq Ids

\* Check_, errors -1, -2, -9, -11 and -13: a tried entry has been connected to,
\* is in no new bucket and in the tried bucket of its address, and nTried
\* counts them.
TriedExact ==
  /\ \A i \in Tried : book.mapInfo[i].nLastSuccess /\ book.mapInfo[i].nRefCount = 0
  /\ \A k \in TriedBucket :
       book.vvTried[k] = {i \in Tried : TriedBucketOf[book.mapInfo[i].addr] = k}
  /\ Cardinality(Tried) = book.nTried

\* No bucket outgrows its size, not even the one that takes an entry back from
\* a tried bucket.
BucketsBounded ==
  /\ \A b \in NewBucket : Cardinality(book.vvNew[b]) <= NewSize
  /\ \A k \in TriedBucket : Cardinality(book.vvTried[k]) <= TriedSize

\* Through all additions, promotions, demotions, deletions and swaps Check_
\* finds nothing wrong, and no bucket outgrows its size.
BookConsistent == TypeOK /\ RandomExact /\ RefCountsExact /\ TriedExact /\ BucketsBounded

\* An address that has been tried is not forgotten in one step: it loses its
\* place in the tried bucket to another one and becomes a new one again.
TriedKept ==
  [][\A i \in Tried : book'.mapAddr[book.mapInfo[i].addr] # NoId]_vars

\* What the node knows of an address, without ids and positions.
Knowledge(m) ==
  [a \in {b \in Addr : m.mapAddr[b] # NoId} |->
     LET id == m.mapAddr[a]
     IN  <<[m.mapInfo[id] EXCEPT !.nRandomPos = 0],
           {b \in NewBucket : id \in m.vvNew[b]}, {k \in TriedBucket : id \in m.vvTried[k]}>>]

\* What is read from peers.dat is what was written, although the ids are new:
\* every address with its buckets and references.
RereadExact == Knowledge(Reread(book)) = Knowledge(book)

=============================================================================
