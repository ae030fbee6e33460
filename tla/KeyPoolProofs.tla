---------------------------- MODULE KeyPoolProofs ----------------------------
(***************************************************************************)
(* Proofs about KeyPool, for any number of threads, keys and restarts and  *)
(* every size of the pool.  The invariants are stated for a pool as a      *)
(* value (free numbers, records, number of keys made), since most          *)
(* operations fill the pool up first and then take a record from it.       *)
(***************************************************************************)
EXTENDS KeyPool, FiniteSetTheorems, WellFoundedInduction, TLAPS

Reservation == [nIndex : Nat \ {0}, vchPubKey : Nat \ {0}]

\* The thread t holds a key.
Holds(res, t) == res[t] # NoReservation

\* Types; the numbers in use are bounded and the keys are among those made.
PoolType(free, recs, n) ==
  /\ n \in 0 .. MaxKeys
  /\ \E m \in Nat : free \subseteq 1 .. m /\ DOMAIN recs \subseteq 1 .. m
  /\ recs \in [DOMAIN recs -> 1 .. n]

HeldType(res, n) ==
  /\ DOMAIN res = Thread
  /\ \A t \in Thread : Holds(res, t) => /\ res[t] \in Reservation
                                        /\ res[t].vchPubKey <= n

LockType ==
  /\ crypted \in BOOLEAN /\ locked \in BOOLEAN
  /\ locked => crypted
  /\ published \in [Key -> 0 .. 2]

\* A key is in one record at most, and if a thread holds it in none but the one
\* with the number of the reservation; a key that was published, or is yet to
\* be made, is in no record.
KeysApart(recs, n, res, pub) ==
  /\ \A i, j \in DOMAIN recs : recs[i] = recs[j] => i = j
  /\ \A t \in Thread : \A i \in DOMAIN recs :
       Holds(res, t) /\ recs[i] = res[t].vchPubKey => i = res[t].nIndex
  /\ \A i \in DOMAIN recs : pub[recs[i]] = 0
  /\ \A k \in Key : k > n => pub[k] = 0

\* The records of RecordsAccounted.  A thread holds no number above all free
\* ones, so that TopUpKeyPool, which counts on from the last, does not meet it.
Accounted(free, recs, res) ==
  /\ \A i \in Nat : i \in DOMAIN recs <=> i \in free \/ \E t \in Thread : Holds(res, t) /\ res[t].nIndex = i
  /\ \A t \in Thread : Holds(res, t) =>
       /\ res[t].nIndex \notin free
       /\ \E i \in free : res[t].nIndex < i
       /\ res[t].vchPubKey = recs[res[t].nIndex]
  /\ \A t, u \in Thread : t # u /\ Holds(res, t) => res[t].nIndex # res[u].nIndex

\* The inductive invariants.
KInv ==
  /\ PoolType(setKeyPool, pool, nKeys) /\ HeldType(reserved, nKeys) /\ LockType
  /\ KeysApart(pool, nKeys, reserved, published)

AInv == ~crypted => Accounted(setKeyPool, pool, reserved) /\ \A k \in Key : published[k] <= 1

-----------------------------------------------------------------------------
(* Facts about sets of numbers                                              *)

\* A set of natural numbers that is not empty has a least element.
LEMMA Least ==
  ASSUME NEW T \in SUBSET Nat, T # {}
  PROVE  \E x \in T : \A y \in T : x <= y
<1> DEFINE R == OpToRel(<, Nat)
<1>1. \E x \in T : \A y \in T : ~ (<<y, x>> \in R)
  <2>1. IsWellFoundedOn(R, Nat)
    BY NatLessThanWellFounded
  <2> HIDE DEF R
  <2> QED BY <2>1, WFMin
<1>2. \A x, y \in Nat : y < x => <<y, x>> \in R
  BY DEF OpToRel
<1> HIDE DEF R
<1>3. PICK x \in T : \A y \in T : ~ (y < x)
  BY <1>1, <1>2, Zenon
<1> QED BY <1>3

\* The first free number.
LEMMA MinFree ==
  ASSUME NEW free \in SUBSET Nat, free # {}
  PROVE  Min(free) \in free /\ \A i \in free : Min(free) <= i
  BY Least DEF Min

\* The last free number is the one TopUpKeyPool counts on from.
LEMMA LastFree ==
  ASSUME NEW m \in Nat, NEW free \in SUBSET (1 .. m)
  PROVE  LastIndex(free) \in 0 .. m /\ \A i \in free : i <= LastIndex(free)
<1>1. CASE free = {}
  BY <1>1 DEF LastIndex
<1>2. CASE free # {}
  <2> DEFINE T == {m - i : i \in free}
  <2>1. T \in SUBSET Nat /\ T # {}
    <3>1. \A i \in free : i \in Nat /\ m - i \in Nat
      OBVIOUS
    <3>2. T # {}
      BY <1>2
    <3> QED BY <3>1, <3>2
  <2>2. PICK x \in T : \A y \in T : x <= y
    BY <2>1, Least
  <2>3. PICK h \in free : x = m - h
    BY <2>2
  <2>4. ASSUME NEW i \in free PROVE h >= i
    <3>1. m - i \in T
      OBVIOUS
    <3>2. m - h <= m - i
      BY <3>1, <2>2, <2>3
    <3> HIDE DEF T
    <3> QED BY <3>2
  <2>5. Max(free) \in free /\ \A i \in free : Max(free) >= i
    BY <2>4 DEF Max
  <2>6. LastIndex(free) = Max(free)
    BY <1>2 DEF LastIndex
  <2>7. \A i \in free : i \in Nat /\ i \in 1 .. m
    OBVIOUS
  <2>8. Max(free) \in 1 .. m /\ \A i \in free : i \in Nat /\ Max(free) >= i
    BY <2>5, <2>7, Zenon
  <2> HIDE DEF T
  <2>9. \A i \in free : i <= Max(free)
    BY <2>8
  <2> QED BY <2>6, <2>8, <2>9
<1> QED BY <1>1, <1>2

\* How many keys TopUpKeyPool makes is a number.
LEMMA MissingType ==
  ASSUME NEW m \in Nat, NEW free \in SUBSET (1 .. m)
  PROVE  IsFiniteSet(free) /\ Missing(free, TargetSize) \in Nat
<1>1. free \in SUBSET Nat /\ \A i \in free : i <= m
  OBVIOUS
<1>2. IsFiniteSet(free)
  BY <1>1, FS_BoundedSetOfNaturals
<1>3. Cardinality(free) \in Nat
  BY <1>2, FS_CardinalityType
<1> QED BY <1>2, <1>3, KeyPoolAssumption DEF Missing

-----------------------------------------------------------------------------
(* TopUpKeyPool                                                             *)

\* The pool with count more keys: new numbers above the free ones, new keys.
LEMMA MadeFacts ==
  ASSUME NEW free, NEW recs, NEW n, NEW count \in Nat,
         PoolType(free, recs, n)
  PROVE  LET p    == Made(free, recs, n, count)
             last == LastIndex(free)
             new  == last + 1 .. last + count
         IN  /\ last \in Nat /\ \A i \in free : i \in Nat \ {0} /\ i <= last
             /\ p.free = free \cup new /\ p.n = n + count
             /\ DOMAIN p.recs = DOMAIN recs \cup new
             /\ \A i \in new : p.recs[i] = n + i - last
             /\ \A i \in DOMAIN recs \ new : p.recs[i] = recs[i]
<1>1. PICK m \in Nat : free \subseteq 1 .. m
  BY DEF PoolType
<1>2. LastIndex(free) \in 0 .. m /\ \A i \in free : i \in 1 .. m /\ i <= LastIndex(free)
  BY <1>1, LastFree
<1> QED BY <1>2 DEF Made

\* It is well formed, and the keys are still apart.
LEMMA MadeKeeps ==
  ASSUME NEW free, NEW recs, NEW n, NEW res, NEW pub, NEW count \in Nat,
         PoolType(free, recs, n), HeldType(res, n), KeysApart(recs, n, res, pub),
         n + count <= MaxKeys
  PROVE  LET p == Made(free, recs, n, count)
         IN  /\ PoolType(p.free, p.recs, p.n) /\ HeldType(res, p.n)
             /\ KeysApart(p.recs, p.n, res, pub)
<1> DEFINE p    == Made(free, recs, n, count)
           last == LastIndex(free)
           new  == last + 1 .. last + count
<1>1. /\ last \in Nat /\ p.free = free \cup new /\ p.n = n + count
      /\ DOMAIN p.recs = DOMAIN recs \cup new
      /\ \A i \in new : p.recs[i] = n + i - last
      /\ \A i \in DOMAIN recs \ new : p.recs[i] = recs[i]
  BY MadeFacts
<1>2. PICK m \in Nat : free \subseteq 1 .. m /\ DOMAIN recs \subseteq 1 .. m
  BY DEF PoolType
<1>3. n \in Nat /\ n <= MaxKeys /\ MaxKeys \in Nat /\ \A i \in DOMAIN recs : recs[i] \in 1 .. n
  BY KeyPoolAssumption DEF PoolType
<1>4. p.recs = [i \in DOMAIN p.recs |-> p.recs[i]]
  BY DEF Made
<1> HIDE DEF p
<1>5. \A i \in DOMAIN p.recs : p.recs[i] \in 1 .. p.n
  BY <1>1, <1>3
<1>6. \E w \in Nat : p.free \subseteq 1 .. w /\ DOMAIN p.recs \subseteq 1 .. w
  <2> DEFINE w == m + last + count
  <2>1. w \in Nat /\ 1 .. m \subseteq 1 .. w /\ new \subseteq 1 .. w
    BY <1>1
  <2> HIDE DEF new, last, w
  <2>2. p.free \subseteq 1 .. w /\ DOMAIN p.recs \subseteq 1 .. w
    BY <1>1, <1>2, <2>1
  <2> QED BY <2>1, <2>2
<1>7. PoolType(p.free, p.recs, p.n)
  <2>1. p.n \in 0 .. MaxKeys
    BY <1>1, <1>3
  <2>2. p.recs \in [DOMAIN p.recs -> 1 .. p.n]
    BY <1>4, <1>5
  <2> QED BY <1>6, <2>1, <2>2 DEF PoolType
<1>8. HeldType(res, p.n)
  BY <1>1, <1>3 DEF HeldType, Reservation
<1>9. ASSUME NEW i \in new PROVE p.recs[i] > n /\ p.recs[i] \in Key
  BY <1>1, <1>3 DEF Key
<1>10. \A i, j \in DOMAIN p.recs : p.recs[i] = p.recs[j] => i = j
  <2> SUFFICES ASSUME NEW i \in DOMAIN p.recs, NEW j \in DOMAIN p.recs, p.recs[i] = p.recs[j]
               PROVE  i = j
    OBVIOUS
  <2>1. CASE i \in new /\ j \in new
    BY <1>1, <1>3, <2>1
  <2>2. CASE i \notin new /\ j \notin new
    BY <1>1, <2>2 DEF KeysApart
  <2>3. CASE (i \in new) # (j \in new)
    BY <1>1, <1>3, <1>9, <2>3
  <2> QED BY <2>1, <2>2, <2>3
<1>11. ASSUME NEW t \in Thread, NEW i \in DOMAIN p.recs, Holds(res, t), p.recs[i] = res[t].vchPubKey
       PROVE  i = res[t].nIndex
  <2>1. res[t].vchPubKey \in Nat /\ res[t].vchPubKey <= n
    BY <1>11 DEF HeldType, Reservation
  <2>2. i \in DOMAIN recs \ new
    BY <1>1, <1>3, <1>9, <1>11, <2>1
  <2> QED BY <1>1, <1>11, <2>2 DEF KeysApart
<1>12. ASSUME NEW i \in DOMAIN p.recs PROVE pub[p.recs[i]] = 0
  BY <1>1, <1>9 DEF KeysApart
<1>13. \A k \in Key : k > p.n => pub[k] = 0
  BY <1>1, <1>3 DEF KeysApart, Key
<1>14. KeysApart(p.recs, p.n, res, pub)
  BY <1>10, <1>11, <1>12, <1>13 DEF KeysApart
<1> QED BY <1>7, <1>8, <1>14 DEF p

\* No record that a thread holds is written over.
LEMMA MadeAccounted ==
  ASSUME NEW free, NEW recs, NEW n, NEW res, NEW count \in Nat,
         PoolType(free, recs, n), HeldType(res, n), Accounted(free, recs, res)
  PROVE  LET p == Made(free, recs, n, count) IN Accounted(p.free, p.recs, res)
<1> DEFINE p    == Made(free, recs, n, count)
           last == LastIndex(free)
           new  == last + 1 .. last + count
<1>1. /\ last \in Nat /\ p.free = free \cup new
      /\ \A i \in free : i \in Nat \ {0} /\ i <= last
      /\ DOMAIN p.recs = DOMAIN recs \cup new
      /\ \A i \in DOMAIN recs \ new : p.recs[i] = recs[i]
  BY MadeFacts
<1> HIDE DEF p
<1>2. ASSUME NEW t \in Thread, Holds(res, t)
      PROVE  /\ res[t].nIndex \in DOMAIN recs /\ res[t].nIndex \notin p.free
             /\ res[t].nIndex \notin new
  <2>1. res[t].nIndex \in Nat
    BY <1>2 DEF HeldType, Reservation
  <2>2. PICK i \in free : res[t].nIndex < i
    BY <1>2 DEF Accounted
  <2>3. res[t].nIndex \notin new
    BY <1>1, <2>1, <2>2
  <2> QED BY <1>1, <1>2, <2>1, <2>3 DEF Accounted
<1>3. \A i \in Nat : i \in DOMAIN p.recs <=> i \in p.free \/ \E t \in Thread : Holds(res, t) /\ res[t].nIndex = i
  BY <1>1, <1>2 DEF Accounted
<1>4. ASSUME NEW t \in Thread, Holds(res, t)
      PROVE  (\E i \in p.free : res[t].nIndex < i) /\ res[t].vchPubKey = p.recs[res[t].nIndex]
  BY <1>1, <1>2, <1>4 DEF Accounted
<1> QED BY <1>2, <1>3, <1>4 DEF Accounted, p

\* The pool as an operation finds it.
LEMMA ToppedUpKeeps ==
  ASSUME KInv, ToppedUp.n <= MaxKeys
  PROVE  /\ PoolType(ToppedUp.free, ToppedUp.recs, ToppedUp.n) /\ HeldType(reserved, ToppedUp.n)
         /\ KeysApart(ToppedUp.recs, ToppedUp.n, reserved, published)
<1> DEFINE count == IF locked THEN 0 ELSE Missing(setKeyPool, TargetSize)
<1>1. PICK m \in Nat : setKeyPool \subseteq 1 .. m
  BY DEF KInv, PoolType
<1>3. count \in Nat
  BY <1>1, MissingType
<1>4. ToppedUp = Made(setKeyPool, pool, nKeys, count)
  BY DEF ToppedUp
<1> HIDE DEF count
<1>5. ToppedUp.n = nKeys + count
  BY <1>4 DEF Made
<1> QED BY <1>3, <1>4, <1>5, MadeKeeps DEF KInv

\* An unlocked pool with room for a key keeps a free record when one is taken.
LEMMA ToppedUpAccounted ==
  ASSUME KInv, TargetSize > 0, ~locked, Accounted(setKeyPool, pool, reserved)
  PROVE  /\ Accounted(ToppedUp.free, ToppedUp.recs, reserved)
         /\ \E i \in ToppedUp.free : i # Min(ToppedUp.free)
<1> DEFINE count == Missing(setKeyPool, TargetSize)
           last  == LastIndex(setKeyPool)
           new   == last + 1 .. last + count
<1>1. PICK m \in Nat : setKeyPool \subseteq 1 .. m
  BY DEF KInv, PoolType
<1>3. count \in Nat /\ IsFiniteSet(setKeyPool)
  BY <1>1, MissingType
<1>4. ToppedUp = Made(setKeyPool, pool, nKeys, count)
  BY DEF ToppedUp
<1> HIDE DEF count
<1>5. Accounted(ToppedUp.free, ToppedUp.recs, reserved)
  BY <1>3, <1>4, MadeAccounted DEF KInv
<1>6. /\ last \in Nat /\ \A i \in setKeyPool : i \in Nat /\ i <= last
      /\ ToppedUp.free = setKeyPool \cup new
  BY <1>3, <1>4, MadeFacts DEF KInv
<1>7. \E i, j \in ToppedUp.free : i # j
  <2>1. CASE setKeyPool = {}
    <3>1. count = TargetSize + 1 - 0
      BY <2>1, FS_EmptySet, KeyPoolAssumption DEF count, Missing
    <3>2. last + 1 \in new /\ last + 2 \in new
      BY <1>3, <1>6, <3>1, KeyPoolAssumption
    <3> QED BY <1>6, <3>2
  <2>2. CASE \E x : setKeyPool = {x}
    <3>1. Cardinality(setKeyPool) = 1
      BY <2>2, FS_Singleton
    <3>2. count = TargetSize + 1 - 1
      BY <3>1, KeyPoolAssumption DEF count, Missing
    <3>3. last + 1 \in new
      BY <1>3, <1>6, <3>2, KeyPoolAssumption
    <3> QED BY <1>6, <2>2, <3>3
  <2>3. CASE \E i, j \in setKeyPool : i # j
    BY <1>6, <2>3
  <2> QED BY <2>1, <2>2, <2>3
<1> QED BY <1>5, <1>7

-----------------------------------------------------------------------------
(* Records that are taken, kept and returned                                *)

Without(recs, i) == [j \in DOMAIN recs \ {i} |-> recs[j]]

\* The pool stays well formed with fewer numbers and fewer records.
LEMMA FewerKeeps ==
  ASSUME NEW free, NEW recs, NEW n, NEW res, NEW pub, NEW F \in SUBSET free, NEW i,
         PoolType(free, recs, n), KeysApart(recs, n, res, pub)
  PROVE  /\ PoolType(F, recs, n) /\ PoolType(F, Without(recs, i), n)
         /\ KeysApart(Without(recs, i), n, res, pub)
<1>1. PoolType(F, recs, n)
  BY DEF PoolType
<1>2. /\ DOMAIN Without(recs, i) \subseteq DOMAIN recs
      /\ \A j \in DOMAIN Without(recs, i) : Without(recs, i)[j] = recs[j]
  BY DEF Without
<1>3. Without(recs, i) \in [DOMAIN Without(recs, i) -> 1 .. n]
  BY DEF Without, PoolType
<1>4. PoolType(F, Without(recs, i), n)
  BY <1>1, <1>2, <1>3 DEF PoolType
<1>5. KeysApart(Without(recs, i), n, res, pub)
  BY <1>2 DEF KeysApart
<1> QED BY <1>1, <1>4, <1>5

\* A key whose only record is erased can be published.
LEMMA PublishKeeps ==
  ASSUME NEW recs, NEW n \in Nat, NEW res, NEW k \in Key, NEW i, k <= n,
         published \in [Key -> 0 .. 2],
         \A j \in DOMAIN recs : recs[j] \in Key /\ (recs[j] = k => j = i),
         KeysApart(recs, n, res, published)
  PROVE  KeysApart(Without(recs, i), n, res, Published(k))
<1>1. /\ \A j \in DOMAIN Without(recs, i) : j \in DOMAIN recs /\ j # i /\ Without(recs, i)[j] = recs[j]
  BY DEF Without
<1>2. \A q \in Key : q # k => Published(k)[q] = published[q]
  BY DEF Published
<1> QED BY <1>1, <1>2 DEF KeysApart, Key

\* A record is erased, or given to a thread.
LEMMA TakeAccounted ==
  ASSUME NEW free, NEW recs, NEW n, NEW res, NEW i,
         PoolType(free, recs, n), HeldType(res, n), Accounted(free, recs, res),
         free # {}, i = Min(free), \E j \in free : j # i
  PROVE  /\ i \in DOMAIN recs
         /\ Accounted(free \ {i}, Without(recs, i), res)
         /\ \A t \in Thread : ~Holds(res, t) =>
              Accounted(free \ {i}, recs, [res EXCEPT ![t] = [nIndex |-> i, vchPubKey |-> recs[i]]])
<1>1. free \in SUBSET Nat /\ \A k \in DOMAIN recs : k \in Nat \ {0}
  BY DEF PoolType
<1>2. i \in free /\ \A j \in free : i <= j
  BY <1>1, MinFree
<1>3. PICK j \in free : i < j
  BY <1>1, <1>2
<1>4. i \in DOMAIN recs
  BY <1>1, <1>2 DEF Accounted
<1>5. ASSUME NEW t \in Thread, Holds(res, t)
      PROVE  /\ res[t].nIndex # i /\ res[t].nIndex \in DOMAIN recs /\ res[t].nIndex \in Nat
             /\ \E k \in free \ {i} : res[t].nIndex < k
  <2>1. res[t].nIndex \in Nat /\ res[t].nIndex \notin free
    BY <1>5 DEF HeldType, Reservation, Accounted
  <2>2. PICK k \in free : res[t].nIndex < k
    BY <1>5 DEF Accounted
  <2>3. \E q \in free \ {i} : res[t].nIndex < q
    BY <1>1, <1>2, <1>3, <2>1, <2>2
  <2>4. res[t].nIndex \in DOMAIN recs
    BY <1>5, <2>1 DEF Accounted
  <2> QED BY <1>2, <2>1, <2>3, <2>4
<1>6. Accounted(free \ {i}, Without(recs, i), res)
  <2>1. /\ DOMAIN Without(recs, i) = DOMAIN recs \ {i}
        /\ \A q \in DOMAIN recs \ {i} : Without(recs, i)[q] = recs[q]
    BY DEF Without
  <2> QED BY <1>5, <2>1 DEF Accounted
<1>7. ASSUME NEW t \in Thread, ~Holds(res, t)
      PROVE  Accounted(free \ {i}, recs, [res EXCEPT ![t] = [nIndex |-> i, vchPubKey |-> recs[i]]])
  <2> DEFINE r == [res EXCEPT ![t] = [nIndex |-> i, vchPubKey |-> recs[i]]]
  <2>1. /\ \A u \in Thread \ {t} : r[u] = res[u]
        /\ r[t].nIndex = i /\ r[t].vchPubKey = recs[i] /\ Holds(r, t)
    <3>1. DOMAIN res = Thread /\ i # -1
      BY <1>1, <1>2 DEF HeldType
    <3>2. r[t] = [nIndex |-> i, vchPubKey |-> recs[i]] /\ \A u \in Thread \ {t} : r[u] = res[u]
      BY <3>1
    <3> HIDE DEF r
    <3> QED BY <3>1, <3>2 DEF Holds, NoReservation
  <2> HIDE DEF r
  <2>2. \A u \in Thread \ {t} : Holds(r, u) <=> Holds(res, u)
    BY <2>1 DEF Holds
  <2>3. \A q \in Nat : q \in DOMAIN recs <=> q \in free \ {i} \/ \E u \in Thread : Holds(r, u) /\ r[u].nIndex = q
    BY <1>1, <1>2, <1>4, <1>5, <1>7, <2>1, <2>2 DEF Accounted
  <2>4. ASSUME NEW u \in Thread, Holds(r, u)
        PROVE  /\ r[u].nIndex \notin free \ {i}
               /\ \E k \in free \ {i} : r[u].nIndex < k
               /\ r[u].vchPubKey = recs[r[u].nIndex]
    BY <1>1, <1>2, <1>3, <1>5, <2>1, <2>2, <2>4 DEF Accounted
  <2>5. NoReservation.nIndex = -1 /\ (~Holds(res, t) => res[t] = NoReservation)
    BY DEF NoReservation, Holds
  <2>6. ASSUME NEW u \in Thread, NEW v \in Thread, u # v, Holds(r, u) PROVE r[u].nIndex # r[v].nIndex
    <3>1. CASE v = t
      BY <1>5, <2>1, <2>2, <2>6, <3>1
    <3>2. CASE v # t /\ u = t
      <4>1. CASE Holds(res, v)
        BY <1>5, <2>1, <3>2, <4>1
      <4>2. CASE ~Holds(res, v)
        BY <1>1, <1>2, <2>1, <2>5, <3>2, <4>2 DEF Holds
      <4> QED BY <4>1, <4>2
    <3>3. CASE v # t /\ u # t
      BY <2>1, <2>2, <2>6, <3>3 DEF Accounted
    <3> QED BY <3>1, <3>2, <3>3
  <2>7. Accounted(free \ {i}, recs, r)
    BY <2>3, <2>4, <2>6 DEF Accounted
  <2> QED BY <2>7 DEF r
<1> QED BY <1>4, <1>6, <1>7

-----------------------------------------------------------------------------
(* Reservations that end                                                    *)

\* The reservations without the one of t.
Released(res, t) == [res EXCEPT ![t] = NoReservation]

LEMMA ReleasedFacts ==
  ASSUME NEW res, NEW t \in Thread, DOMAIN res = Thread
  PROVE  /\ DOMAIN Released(res, t) = Thread /\ ~Holds(Released(res, t), t)
         /\ Released(res, t)[t].nIndex = -1
         /\ \A u \in Thread : u # t => Released(res, t)[u] = res[u]
         /\ \A u \in Thread : Holds(Released(res, t), u) <=> u # t /\ Holds(res, u)
<1>1. DOMAIN Released(res, t) = Thread /\ Released(res, t)[t] = NoReservation
  BY DEF Released
<1>2. \A u \in Thread : u # t => Released(res, t)[u] = res[u]
  BY DEF Released
<1>3. NoReservation.nIndex = -1
  BY DEF NoReservation
<1> QED BY <1>1, <1>2, <1>3 DEF Holds

LEMMA ReleasedKeeps ==
  ASSUME NEW recs, NEW n, NEW res, NEW pub, NEW t \in Thread,
         HeldType(res, n), KeysApart(recs, n, res, pub)
  PROVE  HeldType(Released(res, t), n) /\ KeysApart(recs, n, Released(res, t), pub)
<1>1. DOMAIN res = Thread
  BY DEF HeldType
<1>2. /\ DOMAIN Released(res, t) = Thread
      /\ \A u \in Thread : u # t => Released(res, t)[u] = res[u]
      /\ \A u \in Thread : Holds(Released(res, t), u) <=> u # t /\ Holds(res, u)
  BY <1>1, ReleasedFacts
<1>3. HeldType(Released(res, t), n)
  BY <1>2 DEF HeldType
<1>4. KeysApart(recs, n, Released(res, t), pub)
  BY <1>2 DEF KeysApart
<1> QED BY <1>3, <1>4

\* KeepKey erases the record that the thread held; ReturnKey makes it free.
LEMMA ReleasedAccounted ==
  ASSUME NEW free, NEW recs, NEW n, NEW res, NEW t \in Thread, NEW i,
         PoolType(free, recs, n), HeldType(res, n), Accounted(free, recs, res),
         Holds(res, t), i = res[t].nIndex
  PROVE  /\ Accounted(free, Without(recs, i), Released(res, t))
         /\ Accounted(free \cup {i}, recs, Released(res, t))
<1> DEFINE r == Released(res, t)
<1>1. DOMAIN res = Thread /\ i \in Nat /\ i # 0 /\ i # -1
  BY DEF HeldType, Reservation
<1>2. /\ r[t].nIndex = -1
      /\ \A u \in Thread : u # t => r[u] = res[u]
      /\ \A u \in Thread : Holds(r, u) <=> u # t /\ Holds(res, u)
  BY <1>1, ReleasedFacts
<1> HIDE DEF r
<1>3. i \in DOMAIN recs /\ i \notin free /\ res[t].vchPubKey = recs[i]
  BY <1>1 DEF Accounted
<1>4. \A u \in Thread : Holds(r, u) => /\ r[u].nIndex # i /\ r[u].nIndex \in DOMAIN recs
                                       /\ r[u].nIndex \in Nat
  <2> SUFFICES ASSUME NEW u \in Thread, u # t, Holds(res, u)
               PROVE  res[u].nIndex # i /\ res[u].nIndex \in DOMAIN recs /\ res[u].nIndex \in Nat
    BY <1>2
  <2>1. res[u].nIndex \in Nat
    BY DEF HeldType, Reservation
  <2> QED BY <2>1 DEF Accounted
<1>5. ASSUME NEW u \in Thread, NEW v \in Thread, u # v, Holds(r, u) PROVE r[u].nIndex # r[v].nIndex
  <2>1. CASE v = t
    BY <1>2, <1>4, <1>5, <2>1
  <2>2. CASE v # t
    BY <1>2, <1>5, <2>2 DEF Accounted
  <2> QED BY <2>1, <2>2
<1>6. Accounted(free, Without(recs, i), r)
  <2>1. /\ DOMAIN Without(recs, i) = DOMAIN recs \ {i}
        /\ \A q \in DOMAIN recs \ {i} : Without(recs, i)[q] = recs[q]
    BY DEF Without
  <2>2. \A q \in Nat : q \in DOMAIN Without(recs, i) <=> q \in free \/ \E u \in Thread : Holds(r, u) /\ r[u].nIndex = q
    BY <1>2, <1>3, <1>4, <2>1 DEF Accounted
  <2>3. ASSUME NEW u \in Thread, Holds(r, u)
        PROVE  /\ r[u].nIndex \notin free
               /\ \E k \in free : r[u].nIndex < k
               /\ r[u].vchPubKey = Without(recs, i)[r[u].nIndex]
    BY <1>2, <1>4, <2>1, <2>3 DEF Accounted
  <2> QED BY <1>5, <2>2, <2>3 DEF Accounted
<1>7. Accounted(free \cup {i}, recs, r)
  <2>1. \A q \in Nat : q \in DOMAIN recs <=> q \in free \cup {i} \/ \E u \in Thread : Holds(r, u) /\ r[u].nIndex = q
    BY <1>2, <1>3, <1>4 DEF Accounted
  <2>2. ASSUME NEW u \in Thread, Holds(r, u)
        PROVE  /\ r[u].nIndex \notin free \cup {i}
               /\ \E k \in free \cup {i} : r[u].nIndex < k
               /\ r[u].vchPubKey = recs[r[u].nIndex]
    BY <1>2, <1>4, <2>2 DEF Accounted
  <2> QED BY <1>5, <2>1, <2>2 DEF Accounted
<1> QED BY <1>6, <1>7 DEF r

-----------------------------------------------------------------------------
(* KInv is inductive                                                        *)

LEMMA KInit == Init => KInv
<1> SUFFICES ASSUME Init PROVE KInv
  OBVIOUS
<1>1. PoolType(setKeyPool, pool, nKeys)
  <2>1. setKeyPool = {} /\ DOMAIN pool = {} /\ pool \in [{} -> 1 .. nKeys] /\ nKeys = 0
    BY DEF Init
  <2>2. setKeyPool \subseteq 1 .. 0 /\ DOMAIN pool \subseteq 1 .. 0
    BY <2>1
  <2> QED BY <2>1, <2>2, KeyPoolAssumption DEF PoolType
<1>2. HeldType(reserved, nKeys)
  BY DEF Init, HeldType, Holds
<1>3. LockType
  <2>1. published \in [Key -> 0 .. 2]
    BY DEF Init
  <2>2. crypted = FALSE /\ locked = FALSE
    BY DEF Init
  <2> QED BY <2>1, <2>2 DEF LockType
<1>4. KeysApart(pool, nKeys, reserved, published)
  BY DEF Init, KeysApart
<1> QED BY <1>1, <1>2, <1>3, <1>4 DEF KInv

\* What the parts of KInv say of a pool that has been filled up.
LEMMA FilledFacts ==
  ASSUME NEW free, NEW recs, NEW n, PoolType(free, recs, n)
  PROVE  /\ n \in Nat /\ n <= MaxKeys
         /\ free \in SUBSET (Nat \ {0}) /\ DOMAIN recs \in SUBSET (Nat \ {0})
         /\ \A i \in DOMAIN recs : recs[i] \in 1 .. n /\ recs[i] \in Key
<1>1. n \in Nat /\ n <= MaxKeys
  BY KeyPoolAssumption DEF PoolType
<1>2. free \in SUBSET (Nat \ {0}) /\ DOMAIN recs \in SUBSET (Nat \ {0})
  BY DEF PoolType
<1>3. \A i \in DOMAIN recs : recs[i] \in 1 .. n
  BY DEF PoolType
<1> QED BY <1>1, <1>2, <1>3, KeyPoolAssumption DEF Key

LEMMA KTopUp ==
  ASSUME KInv, NEW count \in 1 .. TargetSize + 1, TopUpKeyPool(count)
  PROVE  KInv'
<1> DEFINE p == Made(setKeyPool, pool, nKeys, count)
<1>1. count \in Nat /\ nKeys + count <= MaxKeys
  BY DEF TopUpKeyPool, SetPool, Made
<1>2. /\ PoolType(p.free, p.recs, p.n) /\ HeldType(reserved, p.n)
      /\ KeysApart(p.recs, p.n, reserved, published)
  BY <1>1, MadeKeeps DEF KInv
<1>3. /\ setKeyPool' = p.free /\ pool' = p.recs /\ nKeys' = p.n
      /\ UNCHANGED <<reserved, crypted, locked, published>>
  BY DEF TopUpKeyPool, SetPool
<1> HIDE DEF p
<1>4. LockType'
  BY <1>3 DEF KInv, LockType
<1> QED BY <1>2, <1>3, <1>4 DEF KInv

LEMMA KGetKey ==
  ASSUME KInv, GetKeyFromPool
  PROVE  KInv'
<1> DEFINE p == ToppedUp
           i == Min(p.free)
<1>1. /\ p.free # {} /\ p.n <= MaxKeys
      /\ setKeyPool' = p.free \ {i} /\ pool' = Without(p.recs, i) /\ nKeys' = p.n
      /\ IF i \in DOMAIN p.recs THEN published' = Published(p.recs[i]) ELSE published' = published
      /\ UNCHANGED <<reserved, crypted, locked>>
  BY DEF GetKeyFromPool, SetPool, Without
<1>2. /\ PoolType(p.free, p.recs, p.n) /\ HeldType(reserved, p.n)
      /\ KeysApart(p.recs, p.n, reserved, published)
  BY <1>1, ToppedUpKeeps
<1> HIDE DEF p, i
<1>3. PoolType(setKeyPool', pool', nKeys') /\ KeysApart(pool', nKeys', reserved, published)
  BY <1>1, <1>2, FewerKeeps
<1>4. KeysApart(pool', nKeys', reserved, published') /\ published' \in [Key -> 0 .. 2]
  <2>1. CASE i \notin DOMAIN p.recs
    BY <1>1, <1>3, <2>1 DEF KInv, LockType
  <2>2. CASE i \in DOMAIN p.recs
    <3>1. p.n \in Nat /\ \A j \in DOMAIN p.recs : p.recs[j] \in 1 .. p.n /\ p.recs[j] \in Key
      BY <1>2, FilledFacts
    <3>2. p.recs[i] <= p.n /\ \A j \in DOMAIN p.recs : p.recs[j] = p.recs[i] => j = i
      BY <1>2, <2>2, <3>1 DEF KeysApart
    <3>3. published \in [Key -> 0 .. 2]
      BY DEF KInv, LockType
    <3>4. KeysApart(Without(p.recs, i), p.n, reserved, Published(p.recs[i]))
      BY <1>2, <2>2, <3>1, <3>2, <3>3, PublishKeeps
    <3>5. Published(p.recs[i]) \in [Key -> 0 .. 2]
      BY <2>2, <3>1, <3>3 DEF Published
    <3> QED BY <1>1, <2>2, <3>4, <3>5
  <2> QED BY <2>1, <2>2
<1>5. LockType'
  BY <1>1, <1>4 DEF KInv, LockType
<1> QED BY <1>1, <1>2, <1>3, <1>4, <1>5 DEF KInv

LEMMA KEncrypt ==
  ASSUME KInv, EncryptWallet
  PROVE  KInv'
<1> DEFINE new == 1 .. TargetSize
<1>1. /\ nKeys + TargetSize <= MaxKeys /\ nKeys' = nKeys + TargetSize
      /\ setKeyPool' = new /\ reserved' = reserved /\ published' = published
      /\ crypted' = TRUE /\ locked' = TRUE
      /\ DOMAIN pool' = (DOMAIN pool \ setKeyPool) \cup new
      /\ \A i \in DOMAIN pool' : pool'[i] = IF i \in new THEN nKeys + i ELSE pool[i]
      /\ pool' = [i \in DOMAIN pool' |-> pool'[i]]
  BY DEF EncryptWallet
<1>2. /\ nKeys \in Nat /\ nKeys <= MaxKeys /\ MaxKeys \in Nat /\ TargetSize \in Nat
      /\ \A i \in DOMAIN pool : pool[i] \in 1 .. nKeys /\ pool[i] \in Key
  BY FilledFacts, KeyPoolAssumption DEF KInv
<1>3. PICK m \in Nat : setKeyPool \subseteq 1 .. m /\ DOMAIN pool \subseteq 1 .. m
  BY DEF KInv, PoolType
<1>4. \A i \in DOMAIN pool' : pool'[i] \in 1 .. nKeys'
  BY <1>1, <1>2
<1>5. PoolType(setKeyPool', pool', nKeys')
  <2>1. nKeys' \in 0 .. MaxKeys
    BY <1>1, <1>2
  <2>2. m + TargetSize \in Nat /\ new \subseteq 1 .. m + TargetSize /\ 1 .. m \subseteq 1 .. m + TargetSize
    BY <1>2
  <2>3. setKeyPool' \subseteq 1 .. m + TargetSize /\ DOMAIN pool' \subseteq 1 .. m + TargetSize
    BY <1>1, <1>3, <2>2
  <2>4. pool' \in [DOMAIN pool' -> 1 .. nKeys']
    BY <1>1, <1>4
  <2> QED BY <2>1, <2>2, <2>3, <2>4 DEF PoolType
<1>6. HeldType(reserved', nKeys')
  BY <1>1, <1>2 DEF KInv, HeldType, Reservation
<1>7. LockType'
  BY <1>1 DEF KInv, LockType
<1>8. \A i \in new : pool'[i] > nKeys /\ pool'[i] \in Key
  BY <1>1, <1>2 DEF Key
<1>9. \A i \in DOMAIN pool' \ new : i \in DOMAIN pool /\ pool'[i] = pool[i]
  BY <1>1
<1>10. ASSUME NEW i \in DOMAIN pool', NEW j \in DOMAIN pool', pool'[i] = pool'[j]
       PROVE  i = j
  <2>1. CASE i \in new /\ j \in new
    BY <1>1, <1>2, <1>10, <2>1
  <2>2. CASE i \notin new /\ j \notin new
    BY <1>9, <1>10, <2>2 DEF KInv, KeysApart
  <2>3. CASE (i \in new) # (j \in new)
    BY <1>2, <1>8, <1>9, <1>10, <2>3
  <2> QED BY <2>1, <2>2, <2>3
<1>11. ASSUME NEW t \in Thread, NEW i \in DOMAIN pool', Holds(reserved, t),
              pool'[i] = reserved[t].vchPubKey
       PROVE  i = reserved[t].nIndex
  <2>1. reserved[t].vchPubKey \in Nat /\ reserved[t].vchPubKey <= nKeys
    BY <1>11 DEF KInv, HeldType, Reservation
  <2>2. i \notin new
    BY <1>2, <1>8, <1>11, <2>1
  <2> QED BY <1>9, <1>11, <2>2 DEF KInv, KeysApart
<1>12. \A i \in DOMAIN pool' : published[pool'[i]] = 0
  BY <1>8, <1>9 DEF KInv, KeysApart
<1>13. \A k \in Key : k > nKeys' => published[k] = 0
  BY <1>1, <1>2 DEF KInv, KeysApart, Key
<1>14. KeysApart(pool', nKeys', reserved', published')
  BY <1>1, <1>10, <1>11, <1>12, <1>13 DEF KeysApart
<1> QED BY <1>5, <1>6, <1>7, <1>14 DEF KInv

LEMMA KGetReserved ==
  ASSUME KInv, NEW t \in Thread, GetReservedKey(t)
  PROVE  KInv'
<1> DEFINE p == ToppedUp
           i == Min(p.free)
           r == [reserved EXCEPT ![t] = [nIndex |-> i, vchPubKey |-> p.recs[i]]]
<1>1. /\ p.free # {} /\ p.n <= MaxKeys
      /\ setKeyPool' = p.free \ {i} /\ pool' = p.recs /\ nKeys' = p.n
      /\ reserved' = IF i \in DOMAIN p.recs THEN r ELSE reserved
      /\ UNCHANGED <<crypted, locked, published>>
  BY DEF GetReservedKey, SetPool
<1>2. /\ PoolType(p.free, p.recs, p.n) /\ HeldType(reserved, p.n)
      /\ KeysApart(p.recs, p.n, reserved, published)
  BY <1>1, ToppedUpKeeps
<1>3. i \in Nat \ {0}
  BY <1>1, <1>2, FilledFacts, MinFree
<1> HIDE DEF p, i
<1>4. PoolType(setKeyPool', pool', nKeys')
  BY <1>1, <1>2, FewerKeeps
<1>5. HeldType(reserved', nKeys') /\ KeysApart(pool', nKeys', reserved', published)
  <2>1. CASE i \notin DOMAIN p.recs
    BY <1>1, <1>2, <2>1
  <2>2. CASE i \in DOMAIN p.recs
    <3>1. DOMAIN reserved = Thread
      BY DEF KInv, HeldType
    <3>2. /\ DOMAIN r = Thread /\ r[t] = [nIndex |-> i, vchPubKey |-> p.recs[i]]
          /\ \A u \in Thread : u # t => r[u] = reserved[u]
      BY <3>1
    <3> HIDE DEF r
    <3>3. p.recs[i] \in Nat \ {0} /\ p.recs[i] <= p.n
      BY <1>2, <2>2, FilledFacts
    <3>4. r[t] \in Reservation /\ r[t].vchPubKey = p.recs[i] /\ r[t].nIndex = i
      BY <1>3, <3>2, <3>3 DEF Reservation
    <3>5. \A u \in Thread : u # t => (Holds(r, u) <=> Holds(reserved, u))
      BY <3>2 DEF Holds
    <3>6. HeldType(r, p.n)
      <4> SUFFICES ASSUME NEW u \in Thread, Holds(r, u)
                   PROVE  r[u] \in Reservation /\ r[u].vchPubKey <= p.n
        BY <3>2 DEF HeldType
      <4>1. CASE u = t
        BY <3>3, <3>4, <4>1
      <4>2. CASE u # t
        BY <1>2, <3>2, <3>5, <4>2 DEF HeldType
      <4> QED BY <4>1, <4>2
    <3>7. KeysApart(p.recs, p.n, r, published)
      <4>1. ASSUME NEW u \in Thread, NEW j \in DOMAIN p.recs, Holds(r, u), p.recs[j] = r[u].vchPubKey
            PROVE  j = r[u].nIndex
        <5>1. CASE u = t
          BY <1>2, <2>2, <3>4, <4>1, <5>1 DEF KeysApart
        <5>2. CASE u # t
          BY <1>2, <3>2, <3>5, <4>1, <5>2 DEF KeysApart
        <5> QED BY <5>1, <5>2
      <4> QED BY <1>2, <4>1 DEF KeysApart
    <3> QED BY <1>1, <2>2, <3>6, <3>7
  <2> QED BY <2>1, <2>2
<1>6. LockType'
  BY <1>1 DEF KInv, LockType
<1> QED BY <1>1, <1>4, <1>5, <1>6 DEF KInv

LEMMA KCommit ==
  ASSUME KInv, NEW t \in Thread, CommitTransaction(t)
  PROVE  KInv'
<1> DEFINE i == reserved[t].nIndex
           k == reserved[t].vchPubKey
<1>1. /\ Holds(reserved, t) /\ pool' = Without(pool, i)
      /\ reserved' = Released(reserved, t) /\ published' = Published(k)
      /\ UNCHANGED <<setKeyPool, crypted, locked, nKeys>>
  BY DEF CommitTransaction, Holds, Without, Released
<1>2. nKeys \in Nat /\ nKeys <= MaxKeys /\ \A j \in DOMAIN pool : pool[j] \in Key
  BY FilledFacts DEF KInv
<1>3. k \in Key /\ k <= nKeys
  BY <1>1, <1>2, KeyPoolAssumption DEF KInv, HeldType, Reservation, Key
<1>4. \A j \in DOMAIN pool : pool[j] = k => j = i
  BY <1>1 DEF KInv, KeysApart
<1>5. published \in [Key -> 0 .. 2]
  BY DEF KInv, LockType
<1> HIDE DEF i, k
<1>6. KeysApart(Without(pool, i), nKeys, reserved, Published(k))
  BY <1>2, <1>3, <1>4, <1>5, PublishKeeps DEF KInv
<1>7. HeldType(reserved', nKeys') /\ KeysApart(pool', nKeys', reserved', published')
  BY <1>1, <1>6, ReleasedKeeps DEF KInv
<1>8. PoolType(setKeyPool', pool', nKeys')
  BY <1>1, FewerKeeps DEF KInv
<1>9. Published(k) \in [Key -> 0 .. 2]
  BY <1>3, <1>5 DEF Published
<1>10. LockType'
  BY <1>1, <1>9 DEF KInv, LockType
<1> QED BY <1>7, <1>8, <1>10 DEF KInv

LEMMA KReturn ==
  ASSUME KInv, NEW t \in Thread, ReturnKey(t)
  PROVE  KInv'
<1> DEFINE i == reserved[t].nIndex
<1>1. /\ Holds(reserved, t) /\ setKeyPool' = setKeyPool \cup {i}
      /\ reserved' = Released(reserved, t)
      /\ UNCHANGED <<pool, crypted, locked, nKeys, published>>
  BY DEF ReturnKey, Holds, Released
<1>2. i \in Nat \ {0}
  BY <1>1 DEF KInv, HeldType, Reservation
<1> HIDE DEF i
<1>3. PoolType(setKeyPool', pool', nKeys')
  <2>1. PICK m \in Nat : setKeyPool \subseteq 1 .. m /\ DOMAIN pool \subseteq 1 .. m
    BY DEF KInv, PoolType
  <2>2. m + i \in Nat /\ i \in 1 .. m + i /\ 1 .. m \subseteq 1 .. m + i
    BY <1>2
  <2>3. setKeyPool' \subseteq 1 .. m + i /\ DOMAIN pool' \subseteq 1 .. m + i
    BY <1>1, <2>1, <2>2
  <2> QED BY <1>1, <2>2, <2>3 DEF KInv, PoolType
<1>4. HeldType(reserved', nKeys') /\ KeysApart(pool', nKeys', reserved', published')
  BY <1>1, ReleasedKeeps DEF KInv
<1>5. LockType'
  BY <1>1 DEF KInv, LockType
<1> QED BY <1>3, <1>4, <1>5 DEF KInv

LEMMA KCreateNewBlock ==
  ASSUME KInv, CreateNewBlock
  PROVE  KInv'
<1> DEFINE p == ToppedUp
<1>1. /\ p.n <= MaxKeys /\ setKeyPool' \in SUBSET p.free
      /\ pool' = p.recs /\ nKeys' = p.n
      /\ UNCHANGED <<reserved, crypted, locked, published>>
  BY DEF CreateNewBlock, SetPool
<1>2. /\ PoolType(p.free, p.recs, p.n) /\ HeldType(reserved, p.n)
      /\ KeysApart(p.recs, p.n, reserved, published)
  BY <1>1, ToppedUpKeeps
<1> HIDE DEF p
<1>3. PoolType(setKeyPool', pool', nKeys')
  BY <1>1, <1>2, FewerKeeps
<1>4. LockType'
  BY <1>1 DEF KInv, LockType
<1> QED BY <1>1, <1>2, <1>3, <1>4 DEF KInv

LEMMA KRestart ==
  ASSUME KInv, Restart
  PROVE  KInv'
<1>1. /\ setKeyPool' = DOMAIN pool /\ reserved' = [t \in Thread |-> NoReservation]
      /\ locked' = crypted /\ UNCHANGED <<pool, crypted, nKeys, published>>
  BY DEF Restart
<1>2. PoolType(setKeyPool', pool', nKeys')
  BY <1>1 DEF KInv, PoolType
<1>3. \A t \in Thread : ~Holds(reserved', t)
  BY <1>1 DEF Holds
<1>4. HeldType(reserved', nKeys') /\ KeysApart(pool', nKeys', reserved', published')
  BY <1>1, <1>3 DEF KInv, HeldType, KeysApart
<1>5. LockType'
  BY <1>1 DEF KInv, LockType
<1> QED BY <1>2, <1>4, <1>5 DEF KInv

LEMMA KNext == KInv /\ [Next]_vars => KInv'
<1> SUFFICES ASSUME KInv, [Next]_vars PROVE KInv'
  OBVIOUS
<1>1. CASE Unlock \/ Lock
  BY <1>1 DEF Unlock, Lock, KInv, LockType
<1>2. CASE UNCHANGED vars
  BY <1>2 DEF vars, KInv, LockType
<1> QED BY <1>1, <1>2, KTopUp, KGetKey, KEncrypt, KGetReserved, KCommit, KReturn,
           KCreateNewBlock, KRestart DEF Next

LEMMA Keys == Spec => []KInv
  BY KInit, KNext, PTL DEF Spec

\* KeepKey and GetKeyFromPool leave no record of a key that was published, so that
\* no restart brings it back: with every order of reservations, returns, top ups,
\* locks, encryption and restarts, and every -keypool.
THEOREM KeptKeysStayOut == Spec => []KeptKeysLeavePool
<1>1. KInv => KeptKeysLeavePool
  BY DEF KInv, KeysApart, KeptKeysLeavePool
<1> QED BY <1>1, Keys, PTL

-----------------------------------------------------------------------------
(* AInv is inductive                                                        *)

LEMMA AInit == Init => AInv
<1> SUFFICES ASSUME Init PROVE AInv
  OBVIOUS
<1>1. \A t \in Thread : ~Holds(reserved, t)
  BY DEF Init, Holds
<1>2. Accounted(setKeyPool, pool, reserved)
  BY <1>1 DEF Init, Accounted
<1>3. \A k \in Key : published[k] <= 1
  BY DEF Init
<1> QED BY <1>2, <1>3 DEF AInv

\* A key that is in a record is published for the first time.
LEMMA PublishedOnce ==
  ASSUME NEW k \in Key, published \in [Key -> 0 .. 2], published[k] = 0,
         \A q \in Key : published[q] <= 1
  PROVE  \A q \in Key : Published(k)[q] <= 1
  BY DEF Published

\* Before the wallet is encrypted an operation finds two free records.
LEMMA APool ==
  ASSUME KInv, AInv, TargetSize > 0, ~crypted, ToppedUp.n <= MaxKeys, ToppedUp.free # {}
  PROVE  /\ PoolType(ToppedUp.free, ToppedUp.recs, ToppedUp.n) /\ HeldType(reserved, ToppedUp.n)
         /\ KeysApart(ToppedUp.recs, ToppedUp.n, reserved, published)
         /\ Accounted(ToppedUp.free, ToppedUp.recs, reserved)
         /\ Min(ToppedUp.free) \in DOMAIN ToppedUp.recs
         /\ Accounted(ToppedUp.free \ {Min(ToppedUp.free)},
                      Without(ToppedUp.recs, Min(ToppedUp.free)), reserved)
         /\ \A t \in Thread : ~Holds(reserved, t) =>
              Accounted(ToppedUp.free \ {Min(ToppedUp.free)}, ToppedUp.recs,
                        [reserved EXCEPT ![t] = [nIndex |-> Min(ToppedUp.free),
                                                 vchPubKey |-> ToppedUp.recs[Min(ToppedUp.free)]]])
<1>1. ~locked /\ Accounted(setKeyPool, pool, reserved)
  BY DEF KInv, AInv, LockType
<1>2. /\ PoolType(ToppedUp.free, ToppedUp.recs, ToppedUp.n) /\ HeldType(reserved, ToppedUp.n)
      /\ KeysApart(ToppedUp.recs, ToppedUp.n, reserved, published)
  BY ToppedUpKeeps
<1>3. /\ Accounted(ToppedUp.free, ToppedUp.recs, reserved)
      /\ \E i \in ToppedUp.free : i # Min(ToppedUp.free)
  BY <1>1, ToppedUpAccounted
<1> DEFINE i == Min(ToppedUp.free)
<1>4. i = Min(ToppedUp.free)
  OBVIOUS
<1> HIDE DEF i
<1>5. /\ i \in DOMAIN ToppedUp.recs
      /\ Accounted(ToppedUp.free \ {i}, Without(ToppedUp.recs, i), reserved)
      /\ \A t \in Thread : ~Holds(reserved, t) =>
           Accounted(ToppedUp.free \ {i}, ToppedUp.recs,
                     [reserved EXCEPT ![t] = [nIndex |-> i, vchPubKey |-> ToppedUp.recs[i]]])
  BY <1>2, <1>3, <1>4, TakeAccounted
<1> QED BY <1>2, <1>3, <1>5 DEF i

LEMMA ATopUp ==
  ASSUME KInv, AInv, NEW count \in 1 .. TargetSize + 1, TopUpKeyPool(count)
  PROVE  AInv'
<1> SUFFICES ASSUME ~crypted' PROVE Accounted(setKeyPool, pool, reserved)' /\ \A k \in Key : published'[k] <= 1
  BY DEF AInv
<1> DEFINE p == Made(setKeyPool, pool, nKeys, count)
<1>1. /\ setKeyPool' = p.free /\ pool' = p.recs
      /\ UNCHANGED <<reserved, crypted, published>> /\ count \in Nat
  BY DEF TopUpKeyPool, SetPool
<1>2. Accounted(setKeyPool, pool, reserved) /\ \A k \in Key : published[k] <= 1
  BY <1>1 DEF AInv
<1>3. Accounted(p.free, p.recs, reserved)
  BY <1>1, <1>2, MadeAccounted DEF KInv
<1> HIDE DEF p
<1> QED BY <1>1, <1>2, <1>3

LEMMA AGetKey ==
  ASSUME KInv, AInv, TargetSize > 0, GetKeyFromPool
  PROVE  AInv'
<1> SUFFICES ASSUME ~crypted' PROVE Accounted(setKeyPool, pool, reserved)' /\ \A k \in Key : published'[k] <= 1
  BY DEF AInv
<1> DEFINE p == ToppedUp
           i == Min(p.free)
<1>1. /\ p.free # {} /\ p.n <= MaxKeys
      /\ setKeyPool' = p.free \ {i} /\ pool' = Without(p.recs, i)
      /\ IF i \in DOMAIN p.recs THEN published' = Published(p.recs[i]) ELSE published' = published
      /\ reserved' = reserved /\ ~crypted
  BY DEF GetKeyFromPool, SetPool, Without
<1>2. /\ PoolType(p.free, p.recs, p.n) /\ KeysApart(p.recs, p.n, reserved, published)
      /\ i \in DOMAIN p.recs
      /\ Accounted(p.free \ {i}, Without(p.recs, i), reserved)
  BY <1>1, APool
<1> HIDE DEF p, i
<1>3. p.recs[i] \in Key /\ published[p.recs[i]] = 0
  BY <1>2, FilledFacts DEF KeysApart
<1>4. published \in [Key -> 0 .. 2] /\ \A q \in Key : published[q] <= 1
  BY <1>1 DEF KInv, LockType, AInv
<1>5. \A q \in Key : Published(p.recs[i])[q] <= 1
  BY <1>3, <1>4, PublishedOnce
<1> QED BY <1>1, <1>2, <1>5

LEMMA AGetReserved ==
  ASSUME KInv, AInv, TargetSize > 0, NEW t \in Thread, GetReservedKey(t)
  PROVE  AInv'
<1> SUFFICES ASSUME ~crypted' PROVE Accounted(setKeyPool, pool, reserved)' /\ \A k \in Key : published'[k] <= 1
  BY DEF AInv
<1> DEFINE p == ToppedUp
           i == Min(p.free)
           r == [reserved EXCEPT ![t] = [nIndex |-> i, vchPubKey |-> p.recs[i]]]
<1>1. /\ p.free # {} /\ p.n <= MaxKeys /\ ~Holds(reserved, t)
      /\ setKeyPool' = p.free \ {i} /\ pool' = p.recs
      /\ reserved' = IF i \in DOMAIN p.recs THEN r ELSE reserved
      /\ published' = published /\ ~crypted
  BY DEF GetReservedKey, SetPool, Holds
<1>2. i \in DOMAIN p.recs /\ Accounted(p.free \ {i}, p.recs, r)
  BY <1>1, APool
<1>3. \A q \in Key : published[q] <= 1
  BY <1>1 DEF AInv
<1> HIDE DEF p, i, r
<1> QED BY <1>1, <1>2, <1>3

LEMMA ACommit ==
  ASSUME KInv, AInv, NEW t \in Thread, CommitTransaction(t)
  PROVE  AInv'
<1> SUFFICES ASSUME ~crypted' PROVE Accounted(setKeyPool, pool, reserved)' /\ \A k \in Key : published'[k] <= 1
  BY DEF AInv
<1> DEFINE i == reserved[t].nIndex
           k == reserved[t].vchPubKey
<1>1. /\ Holds(reserved, t) /\ pool' = Without(pool, i)
      /\ reserved' = Released(reserved, t) /\ published' = Published(k)
      /\ setKeyPool' = setKeyPool /\ ~crypted
  BY DEF CommitTransaction, Holds, Without, Released
<1>2. Accounted(setKeyPool, pool, reserved) /\ \A q \in Key : published[q] <= 1
  BY <1>1 DEF AInv
<1>3. /\ i \in DOMAIN pool /\ k = pool[i]
      /\ Accounted(setKeyPool, Without(pool, i), Released(reserved, t))
  <2>1. i = reserved[t].nIndex
    OBVIOUS
  <2>2. /\ PoolType(setKeyPool, pool, nKeys) /\ HeldType(reserved, nKeys)
        /\ Accounted(setKeyPool, pool, reserved) /\ Holds(reserved, t)
    BY <1>1, <1>2 DEF KInv
  <2> HIDE DEF i
  <2>3. i \in DOMAIN pool /\ reserved[t].vchPubKey = pool[i]
    BY <2>1, <2>2 DEF Accounted, HeldType, Reservation
  <2>4. Accounted(setKeyPool, Without(pool, i), Released(reserved, t))
    BY <2>1, <2>2, ReleasedAccounted
  <2> QED BY <2>3, <2>4
<1> HIDE DEF i, k
<1>4. k \in Key /\ published[k] = 0
  BY <1>3, FilledFacts DEF KInv, KeysApart
<1>5. \A q \in Key : Published(k)[q] <= 1
  BY <1>2, <1>4, PublishedOnce DEF KInv, LockType
<1> QED BY <1>1, <1>3, <1>5

LEMMA AReturn ==
  ASSUME KInv, AInv, NEW t \in Thread, ReturnKey(t)
  PROVE  AInv'
<1> SUFFICES ASSUME ~crypted' PROVE Accounted(setKeyPool, pool, reserved)' /\ \A k \in Key : published'[k] <= 1
  BY DEF AInv
<1> DEFINE i == reserved[t].nIndex
<1>1. /\ Holds(reserved, t) /\ setKeyPool' = setKeyPool \cup {i}
      /\ reserved' = Released(reserved, t)
      /\ pool' = pool /\ published' = published /\ ~crypted
  BY DEF ReturnKey, Holds, Released
<1>2. Accounted(setKeyPool, pool, reserved) /\ \A q \in Key : published[q] <= 1
  BY <1>1 DEF AInv
<1>3. Accounted(setKeyPool \cup {i}, pool, Released(reserved, t))
  BY <1>1, <1>2, ReleasedAccounted DEF KInv
<1> HIDE DEF i
<1> QED BY <1>1, <1>2, <1>3

LEMMA ACreateNewBlock ==
  ASSUME KInv, AInv, TargetSize > 0, CreateNewBlock
  PROVE  AInv'
<1> SUFFICES ASSUME ~crypted' PROVE Accounted(setKeyPool, pool, reserved)' /\ \A k \in Key : published'[k] <= 1
  BY DEF AInv
<1> DEFINE p == ToppedUp
           i == Min(p.free)
<1>1. /\ p.free # {} /\ p.n <= MaxKeys
      /\ setKeyPool' = IF i \in DOMAIN p.recs THEN p.free ELSE p.free \ {i}
      /\ pool' = p.recs /\ reserved' = reserved /\ published' = published /\ ~crypted
  BY DEF CreateNewBlock, SetPool
<1>2. i \in DOMAIN p.recs /\ Accounted(p.free, p.recs, reserved)
  BY <1>1, APool
<1>3. \A q \in Key : published[q] <= 1
  BY <1>1 DEF AInv
<1> HIDE DEF p, i
<1> QED BY <1>1, <1>2, <1>3

LEMMA ARestart ==
  ASSUME KInv, AInv, Restart
  PROVE  AInv'
<1>1. /\ setKeyPool' = DOMAIN pool /\ reserved' = [t \in Thread |-> NoReservation]
      /\ UNCHANGED <<pool, crypted, published>>
  BY DEF Restart
<1>2. \A t \in Thread : ~Holds(reserved', t)
  BY <1>1 DEF Holds
<1>3. Accounted(setKeyPool', pool', reserved')
  BY <1>1, <1>2 DEF Accounted
<1> QED BY <1>1, <1>3 DEF AInv

LEMMA ANext == TargetSize > 0 /\ KInv /\ AInv /\ [Next]_vars => AInv'
<1> SUFFICES ASSUME TargetSize > 0, KInv, AInv, [Next]_vars PROVE AInv'
  OBVIOUS
<1>1. CASE EncryptWallet
  BY <1>1 DEF EncryptWallet, AInv
<1>2. CASE Unlock \/ Lock
  BY <1>2 DEF Unlock, Lock, AInv
<1>3. CASE UNCHANGED vars
  BY <1>3 DEF vars, AInv
<1> QED BY <1>1, <1>2, <1>3, ATopUp, AGetKey, AGetReserved, ACommit, AReturn,
           ACreateNewBlock, ARestart DEF Next

LEMMA Records == TargetSize > 0 => (Spec => [](KInv /\ AInv))
<1> SUFFICES ASSUME TargetSize > 0 PROVE Spec => [](KInv /\ AInv)
  OBVIOUS
<1>1. Init => KInv /\ AInv
  BY KInit, AInit
<1>2. KInv /\ AInv /\ [Next]_vars => (KInv /\ AInv)'
  BY KNext, ANext
<1> QED BY <1>1, <1>2, PTL DEF Spec

\* Until the wallet is encrypted, and with a pool of at least one key, TopUpKeyPool
\* writes over no record that a thread holds, whatever the order of reservations,
\* returns and restarts.  With -keypool=0 the statement is false: the only record
\* can be held when the pool is filled up, and its number is given out again.
THEOREM RecordsStayAccounted == TargetSize > 0 => (Spec => []RecordsAccounted)
<1>1. KInv /\ AInv => RecordsAccounted
  <2> SUFFICES ASSUME KInv, AInv, ~crypted
               PROVE  /\ DOMAIN pool = setKeyPool \cup ReservedIndices
                      /\ setKeyPool \cap ReservedIndices = {}
                      /\ \A t \in Thread : reserved[t] # NoReservation =>
                           reserved[t].vchPubKey = pool[reserved[t].nIndex]
                      /\ \A t, u \in Thread :
                           t # u /\ reserved[t] # NoReservation => reserved[t].nIndex # reserved[u].nIndex
    BY DEF RecordsAccounted
  <2>1. Accounted(setKeyPool, pool, reserved)
    BY DEF AInv
  <2>2. setKeyPool \in SUBSET Nat /\ DOMAIN pool \in SUBSET Nat
    BY FilledFacts DEF KInv
  <2>3. \A i : i \in ReservedIndices <=> \E t \in Thread : Holds(reserved, t) /\ reserved[t].nIndex = i
    BY DEF ReservedIndices, Holds
  <2>4. \A i \in ReservedIndices : i \in Nat /\ i \notin setKeyPool
    BY <2>1, <2>3 DEF KInv, HeldType, Reservation, Accounted
  <2>5. \A i : i \in DOMAIN pool <=> i \in setKeyPool \cup ReservedIndices
    BY <2>1, <2>2, <2>3, <2>4 DEF Accounted
  <2> QED BY <2>1, <2>4, <2>5 DEF Accounted, Holds
<1> QED BY <1>1, Records, PTL

\* Nor is any key published twice: getnewaddress and the change of a transaction
\* each get a key of their own.
THEOREM KeysUsedOnce == TargetSize > 0 => (Spec => []NoKeyReuse)
<1>1. AInv => NoKeyReuse
  BY DEF AInv, NoKeyReuse
<1> QED BY <1>1, Records, PTL

=============================================================================
