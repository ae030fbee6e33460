------------------------------- MODULE KeyPool -------------------------------
(***************************************************************************)
(* The key pool of CWallet: keys made in advance and kept as numbered      *)
(* records in wallet.dat, the set of numbers that are free, the            *)
(* reservations (CReserveKey) that threads hold on some of them, and the   *)
(* lock of an encrypted wallet, which stops new keys from being made.      *)
(*                                                                         *)
(* Every operation holds cs_wallet and is one action.  A reservation lives *)
(* from GetReservedKey, in CreateTransaction, to CommitTransaction, which  *)
(* keeps the key, or to its destructor, which returns it; AutoMix, the     *)
(* decoys and the pages of the interface do not hold cs_wallet in between. *)
(* Keys are numbered in the order in which they are made.                  *)
(***************************************************************************)
EXTENDS Integers, FiniteSets, FiniteSetsExt

CONSTANTS
  Thread,        \* threads that hold a CReserveKey
  TargetSize,    \* -keypool
  MaxKeys        \* bound on the number of keys made

ASSUME KeyPoolAssumption == TargetSize \in Nat /\ MaxKeys \in Nat

DefaultKey == 0            \* vchDefaultKey, which is meant to be used again
Key == 1 .. MaxKeys
NoReservation == [nIndex |-> -1, vchPubKey |-> DefaultKey]

VARIABLES
  setKeyPool,    \* the free numbers, in memory
  pool,          \* the records of wallet.dat, number -> key
  reserved,      \* the CReserveKey of each thread
  crypted,       \* IsCrypted()
  locked,        \* IsLocked()
  nKeys,         \* number of keys made (GenerateNewKey)
  published      \* history: how often a key was taken for good (KeepKey) and made
                 \* public as an address or as change, 2 meaning more than once

vars == <<setKeyPool, pool, reserved, crypted, locked, nKeys, published>>

\* A new wallet, before its pool is filled.
Init ==
  /\ setKeyPool = {} /\ pool = [i \in {} |-> DefaultKey]
  /\ reserved = [t \in Thread |-> NoReservation]
  /\ crypted = FALSE /\ locked = FALSE
  /\ nKeys = 0
  /\ published = [k \in Key |-> 0]

-----------------------------------------------------------------------------
(* The pool as a value: free is setKeyPool, recs are the records, n is the  *)
(* number of keys made so far.                                              *)

\* The number of the last free record; TopUpKeyPool counts on from there.
LastIndex(free) == IF free = {} THEN 0 ELSE Max(free)

\* count keys are made and written under the numbers that follow.
Made(free, recs, n, count) ==
  LET new == LastIndex(free) + 1 .. LastIndex(free) + count
  IN  [free |-> free \cup new,
       recs |-> [i \in DOMAIN recs \cup new |->
                   IF i \in new THEN n + i - LastIndex(free) ELSE recs[i]],
       n    |-> n + count]

\* How many keys TopUpKeyPool makes.
Missing(free, size) ==
  IF Cardinality(free) < size + 1 THEN size + 1 - Cardinality(free) ELSE 0

\* The pool as ReserveKeyFromKeyPool and GetKeyFromPool find it.
ToppedUp ==
  Made(setKeyPool, pool, nKeys, IF locked THEN 0 ELSE Missing(setKeyPool, TargetSize))

\* The pool after an operation that tops it up and sets the free numbers free.
SetPool(p, free, recs) ==
  /\ p.n <= MaxKeys
  /\ setKeyPool' = free /\ pool' = recs /\ nKeys' = p.n

Published(k) == [published EXCEPT ![k] = IF @ < 2 THEN @ + 1 ELSE @]

-----------------------------------------------------------------------------
(* CWallet                                                                  *)

\* keypoolrefill, ThreadTopUpKeyPool, or the first step of getnewaddress.  The
\* write of a record may fail after some keys, which ends the loop.
TopUpKeyPool(count) ==
  LET p == Made(setKeyPool, pool, nKeys, count)
  IN  /\ ~locked
      /\ count \in 1 .. Missing(setKeyPool, TargetSize)
      /\ SetPool(p, p.free, p.recs)
      /\ UNCHANGED <<reserved, crypted, locked, published>>

\* The record of the key is not erased.
MutGetKeyFromPool ==
  LET p == ToppedUp
      i == Min(p.free)
  IN  /\ p.free # {}
      /\ SetPool(p, p.free \ {i}, p.recs)
      /\ IF i \in DOMAIN p.recs
         THEN published' = Published(p.recs[i])
         ELSE UNCHANGED published
      /\ UNCHANGED <<reserved, crypted, locked>>

\* getnewaddress and its like: the first free record is taken, erased, and the
\* key published.  Without a record the read throws, with the number gone.
GetKeyFromPool ==
  LET p == ToppedUp
      i == Min(p.free)
  IN  /\ p.free # {}
      /\ SetPool(p, p.free \ {i}, [j \in DOMAIN p.recs \ {i} |-> p.recs[j]])
      /\ IF i \in DOMAIN p.recs
         THEN published' = Published(p.recs[i])
         ELSE UNCHANGED published
      /\ UNCHANGED <<reserved, crypted, locked>>

\* The wallet is encrypted and locked.  NewKeyPool erases the free records and
\* numbers the new ones from 1.
EncryptWallet ==
  /\ ~crypted /\ nKeys + TargetSize <= MaxKeys
  /\ crypted' = TRUE /\ locked' = TRUE
  /\ nKeys' = nKeys + TargetSize
  /\ setKeyPool' = 1 .. TargetSize
  /\ pool' = [i \in (DOMAIN pool \ setKeyPool) \cup 1 .. TargetSize |->
                IF i \in 1 .. TargetSize THEN nKeys + i ELSE pool[i]]
  /\ UNCHANGED <<reserved, published>>

Unlock ==
  /\ locked /\ locked' = FALSE
  /\ UNCHANGED <<setKeyPool, pool, reserved, crypted, nKeys, published>>

Lock ==
  /\ crypted /\ ~locked /\ locked' = TRUE
  /\ UNCHANGED <<setKeyPool, pool, reserved, crypted, nKeys, published>>

-----------------------------------------------------------------------------
(* CReserveKey                                                              *)

\* With an empty pool the default key is used and nothing is reserved.
GetReservedKey(t) ==
  LET p == ToppedUp
      i == Min(p.free)
  IN  /\ reserved[t] = NoReservation /\ p.free # {}
      /\ SetPool(p, p.free \ {i}, p.recs)
      /\ reserved' = IF i \in DOMAIN p.recs
                     THEN [reserved EXCEPT ![t] = [nIndex |-> i, vchPubKey |-> p.recs[i]]]
                     ELSE reserved
      /\ UNCHANGED <<crypted, locked, published>>

\* The key is published but its record stays.
MutCommitTransaction(t) ==
  /\ reserved[t] # NoReservation
  /\ reserved' = [reserved EXCEPT ![t] = NoReservation]
  /\ published' = Published(reserved[t].vchPubKey)
  /\ UNCHANGED <<setKeyPool, pool, crypted, locked, nKeys>>

\* KeepKey erases the record with the number of the reservation.
CommitTransaction(t) ==
  /\ reserved[t] # NoReservation
  /\ pool' = [i \in DOMAIN pool \ {reserved[t].nIndex} |-> pool[i]]
  /\ reserved' = [reserved EXCEPT ![t] = NoReservation]
  /\ published' = Published(reserved[t].vchPubKey)
  /\ UNCHANGED <<setKeyPool, crypted, locked, nKeys>>

\* The number is lost.
MutReturnKey(t) ==
  /\ reserved[t] # NoReservation
  /\ reserved' = [reserved EXCEPT ![t] = NoReservation]
  /\ UNCHANGED <<setKeyPool, pool, crypted, locked, nKeys, published>>

\* ReturnKey, by the destructor or by CreateTransaction when there is no change;
\* GetOldestKeyPoolTime is a GetReservedKey with this.
ReturnKey(t) ==
  /\ reserved[t] # NoReservation
  /\ setKeyPool' = setKeyPool \cup {reserved[t].nIndex}
  /\ reserved' = [reserved EXCEPT ![t] = NoReservation]
  /\ UNCHANGED <<pool, crypted, locked, nKeys, published>>

-----------------------------------------------------------------------------
(* The miner                                                                *)

\* The coinbase gets a reserved key, which goes back to the pool before
\* CreateNewBlock ends.  CheckWork, when the block is found, keeps the key of
\* another CReserveKey, which was never filled, so that nothing changes.
CreateNewBlock ==
  LET p == ToppedUp
      i == Min(p.free)
  IN  /\ p.free # {}
      /\ SetPool(p, IF i \in DOMAIN p.recs THEN p.free ELSE p.free \ {i}, p.recs)
      /\ UNCHANGED <<reserved, crypted, locked, published>>

-----------------------------------------------------------------------------

\* fShutdown keeps the destructors from returning keys; CWalletDB::LoadWallet
\* makes every record free again.
Restart ==
  /\ setKeyPool' = DOMAIN pool
  /\ reserved' = [t \in Thread |-> NoReservation]
  /\ locked' = crypted
  /\ UNCHANGED <<pool, crypted, nKeys, published>>

Next ==
  \/ \E count \in 1 .. TargetSize + 1 : TopUpKeyPool(count)
  \/ GetKeyFromPool
  \/ EncryptWallet \/ Unlock \/ Lock
  \/ \E t \in Thread : GetReservedKey(t) \/ CommitTransaction(t) \/ ReturnKey(t)
  \/ CreateNewBlock
  \/ Restart

Spec == Init /\ [][Next]_vars

-----------------------------------------------------------------------------
(* Properties                                                               *)

ReservedIndices == {reserved[t].nIndex : t \in {u \in Thread : reserved[u] # NoReservation}}

\* Until the wallet is encrypted every record of wallet.dat is either free or
\* held by exactly one thread, whose key is the one in the record: a top up never
\* writes over a record that a thread still holds, and KeepKey erases the right one.
RecordsAccounted ==
  ~crypted =>
    /\ DOMAIN pool = setKeyPool \cup ReservedIndices
    /\ setKeyPool \cap ReservedIndices = {}
    /\ \A t \in Thread :
         reserved[t] # NoReservation => reserved[t].vchPubKey = pool[reserved[t].nIndex]
    /\ \A t, u \in Thread :
         t # u /\ reserved[t] # NoReservation => reserved[t].nIndex # reserved[u].nIndex

\* Until the wallet is encrypted no key is published twice: getnewaddress returns
\* a new address each time, and the change of a transaction goes to a key of its
\* own, across restarts too.  The keys of mined blocks, which stay in the pool,
\* are not counted.
NoKeyReuse == ~crypted => \A k \in Key : published[k] <= 1

\* A key that was kept is in no record any more, so that no restart can bring it
\* back into the pool; this holds with locks and encryption too.
KeptKeysLeavePool == \A i \in DOMAIN pool : published[pool[i]] = 0

=============================================================================
