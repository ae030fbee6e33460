-------------------------- MODULE WalletCoinsProofs --------------------------
(***************************************************************************)
(* Proofs about WalletCoins: what the wallet knows and offers, for every   *)
(* set of transactions and every depth of a reorganization.                *)
(*                                                                         *)
(* While SetBestChain runs the wallet is ahead of the committed chain.     *)
(* The invariant says what it has been told: a prefix of the old chain on  *)
(* the way down to the fork, a prefix of the new one on the way up.        *)
(***************************************************************************)
EXTENDS WalletCoins, TLAPS, WellFoundedInduction

-----------------------------------------------------------------------------
(* The inductive invariant                                                  *)

Upto(c, m) == {c[i] : i \in 1 .. m}

\* Every input of a chain is made before and not spent before.
Valid(c) ==
  \A i \in 1 .. Len(c) :
    /\ c[i] \notin Upto(c, i - 1)
    /\ \A o \in Vin[c[i]] : o[1] \in Upto(c, i - 1) /\ \A u \in Upto(c, i - 1) : o \notin Vin[u]

Involved(t) == IsMine(t) \/ Vin[t] \cap Mine # {}

\* Of the transactions U of a chain, the wallet w has those that involve it, has
\* marked the coins they spend, and no other coin of theirs unless a payment
\* that it has spends it.
Complete(w, U) == \A t \in U : Involved(t) => t \in w.txs
Flagged(w, U)  == \A t \in U : Vin[t] \cap Mine \subseteq w.spent
Freed(w, U, T) ==
  \A o \in w.spent : o[1] \in U =>
    \/ \E t \in T : o \in Vin[t]
    \/ \E t \in w.txs \ Generated : o \in Vin[t]

\* What the lapses l leave true of a wallet that was told of U.
Sound(l) == l \cap {"race", "erased"} = {}

Told(w, l, U) ==
  /\ Sound(l) => Complete(w, U)
  /\ l \subseteq {"stale"} => Flagged(w, U) /\ Freed(w, U, U)

\* Left to do on the way from chain c to chain g, with k blocks in common, when
\* the wallet was told down to block m of c, and up to block m of g.
Down(c, g, k, m) ==
  [i \in 1 .. (m - k) + (Len(g) - k) |->
     IF i <= m - k THEN [op |-> "disconnect", tx |-> c[m + 1 - i]]
                   ELSE [op |-> "connect", tx |-> g[i - (m - k) + k]]]
Up(g, m) == [i \in 1 .. Len(g) - m |-> [op |-> "connect", tx |-> g[m + i]]]

Fits(todo, c, g, w, l) ==
  \E k \in 0 .. Len(c) :
    /\ k <= Len(g) /\ \A i \in 1 .. k : g[i] = c[i]
    /\ \/ \E m \in k .. Len(c) : todo = Down(c, g, k, m) /\ Told(w, l, Upto(c, m))
       \/ \E m \in k .. Len(g) : todo = Up(g, m) /\ Told(w, l, Upto(g, m))

Types ==
  /\ chain \in Seq(Tx) /\ Valid(chain)
  /\ mapWallet \subseteq Tx /\ vfSpent \subseteq Mine
  /\ job = [active |-> job.active, todo |-> job.todo, off |-> job.off, on |-> job.on,
            target |-> job.target]
  /\ job.active \in BOOLEAN

WInv ==
  /\ Types
  /\ Sound(lapses) => Complete(Wallet, Upto(chain, Len(chain)))
  /\ Idle => Told(Wallet, lapses, Upto(chain, Len(chain)))
  /\ job.active => /\ job.target \in Seq(Tx) /\ Valid(job.target)
                   /\ Fits(job.todo, chain, job.target, Wallet, lapses)

\* The wallet knows the depth of the transactions that a reorganization under way
\* leaves in the chain, and it forgets only those of the blocks to connect.
Steps(on) == {x \in [op : {"connect", "disconnect"}, tx : Tx] : x.op = "connect" => x.tx \in on}

DInv ==
  /\ inMainChain \subseteq mapWallet \cap In(chain)
  /\ Sound(lapses) /\ "stale" \notin lapses =>
       \A t \in In(chain) \ job.off : Involved(t) => t \in inMainChain
  /\ ~job.active => job.off = {}
  /\ job.active => /\ job.todo \in Seq(Steps(job.on))
                   /\ job.on \cap (In(chain) \ job.off) = {}
                   /\ In(job.target) = (In(chain) \ job.off) \cup job.on

-----------------------------------------------------------------------------
(* Facts about chains and outpoints                                         *)

Wallets == [txs : SUBSET Tx, spent : SUBSET Mine]

\* A failed reorganization alone leaves the set of transactions right.
LEMMA StaleIsSound == ASSUME NEW l, l \subseteq {"stale"} PROVE Sound(l)
  BY DEF Sound

\* A set of natural numbers that is not empty has a least element.
LEMMA LeastNat ==
  ASSUME NEW T \in SUBSET Nat, T # {}
  PROVE  \E x \in T : \A y \in T : ~ (y < x)
<1> DEFINE R == OpToRel(<, Nat)
<1>1. \E x \in T : \A y \in T : ~ (<<y, x>> \in R)
  <2>1. IsWellFoundedOn(R, Nat)
    BY NatLessThanWellFounded
  <2> HIDE DEF R
  <2> QED BY <2>1, WFMin
<1>2. \A x, y \in Nat : y < x => <<y, x>> \in R
  BY DEF OpToRel
<1> HIDE DEF R
<1> QED BY <1>1, <1>2, Zenon

\* A coin of the wallet is an output of the transaction it names.
LEMMA CoinFacts ==
  ASSUME NEW o \in Mine
  PROVE  o[1] \in Tx /\ o \in Vout(o[1]) /\ IsMine(o[1]) /\ Involved(o[1])
<1>1. o \in OutPoint
  BY WalletAssumption
<1>2. o[1] \in Tx /\ o \in Vout(o[1])
  BY <1>1 DEF OutPoint, Vout
<1> QED BY <1>2 DEF IsMine, Involved

\* An output of a transaction names it.
LEMMA OutputNames == ASSUME NEW t, NEW o \in Vout(t) PROVE o[1] = t
  BY DEF Vout

\* The transactions of a chain.
LEMMA ChainIsUpto == ASSUME NEW c \in Seq(Tx) PROVE In(c) = Upto(c, Len(c)) /\ In(c) \subseteq Tx
  BY DEF In, Range, Upto

\* A longer prefix has one transaction more.
LEMMA UptoStep ==
  ASSUME NEW c, NEW m \in Nat, m # 0
  PROVE  Upto(c, m) = Upto(c, m - 1) \cup {c[m]}
<1>1. 1 .. m = (1 .. m - 1) \cup {m}
  OBVIOUS
<1> QED BY <1>1 DEF Upto

\* A prefix of a prefix.
LEMMA UptoSubset ==
  ASSUME NEW c, NEW m \in Nat, NEW n \in Nat, m <= n
  PROVE  Upto(c, m) \subseteq Upto(c, n)
  BY DEF Upto

\* A prefix of a valid chain makes what it spends.
LEMMA PrefixClosed ==
  ASSUME NEW c, Len(c) \in Nat, Valid(c), NEW m \in 0 .. Len(c), NEW t \in Upto(c, m), NEW o \in Vin[t]
  PROVE  o[1] \in Upto(c, m)
<1>1. PICK i \in 1 .. m : t = c[i]
  BY DEF Upto
<1>2. o[1] \in Upto(c, i - 1)
  BY <1>1 DEF Valid
<1> QED BY <1>1, <1>2, UptoSubset

-----------------------------------------------------------------------------
(* What one transaction does to the wallet                                  *)

\* AddToWallet and AddToWalletIfInvolvingMe keep the types and lose nothing.
LEMMA AddType ==
  ASSUME NEW w \in Wallets, NEW t \in Tx, NEW f \in BOOLEAN
  PROVE  /\ AddToWallet(w, t, f) \in Wallets /\ w.txs \subseteq AddToWallet(w, t, f).txs
         /\ AddToWalletIfInvolvingMe(w, t, f) \in Wallets
         /\ w.txs \subseteq AddToWalletIfInvolvingMe(w, t, f).txs
<1>1. /\ AddToWallet(w, t, f) \in Wallets /\ w.txs \subseteq AddToWallet(w, t, f).txs
  BY DEF AddToWallet, WalletUpdateSpent, OwnInputs, Wallets
<1> QED BY <1>1 DEF AddToWalletIfInvolvingMe

\* What AddToWallet does to the two fields.
LEMMA AddFields ==
  ASSUME NEW w \in Wallets, NEW t \in Tx, NEW f \in BOOLEAN
  PROVE  /\ AddToWallet(w, t, f).txs = w.txs \cup {t}
         /\ AddToWallet(w, t, f).spent =
              (w.spent \cup {o \in Vin[t] \cap Mine : o[1] \in w.txs \cup {t}})
                \ (IF f THEN Vout(t) \cap Mine ELSE {})
  BY DEF AddToWallet, WalletUpdateSpent, OwnInputs, Wallets

\* What DisableTransaction does to them.
LEMMA DisableFields ==
  ASSUME NEW w \in Wallets, NEW t \in Tx
  PROVE  /\ DisableTransaction(w, t) \in Wallets
         /\ DisableTransaction(w, t).txs = w.txs
         /\ DisableTransaction(w, t).spent =
              IF t \in CoinStake THEN w.spent \ {o \in Vin[t] \cap Mine : o[1] \in w.txs} ELSE w.spent
  BY DEF DisableTransaction, OwnInputs, Wallets

\* A block with t on top of the transactions U.
LEMMA ConnectTold ==
  ASSUME NEW w \in Wallets, NEW U \in SUBSET Tx, NEW t \in Tx, t \notin U,
         \A u \in U : \A o \in Vin[u] : o[1] \in U,
         \A o \in Vin[t] : o[1] \in U,
         Complete(w, U)
  PROVE  LET x == AddToWalletIfInvolvingMe(w, t, TRUE)
         IN  /\ Complete(x, U \cup {t})
             /\ Flagged(w, U) => Flagged(x, U \cup {t})
             /\ \A T : t \in T /\ Freed(w, U, T) => Freed(x, U \cup {t}, T)
<1> DEFINE x == AddToWalletIfInvolvingMe(w, t, TRUE)
<1>1. ASSUME NEW o \in Vin[t] \cap Mine PROVE o[1] \in w.txs
  BY <1>1, CoinFacts DEF Complete
<1>2. CASE t \in w.txs \/ IsMine(t) \/ IsFromMe(w, t)
  <2>1. /\ x.txs = w.txs \cup {t}
        /\ x.spent = (w.spent \cup (Vin[t] \cap Mine)) \ (Vout(t) \cap Mine)
    <3>1. x = AddToWallet(w, t, TRUE)
      BY <1>2 DEF AddToWalletIfInvolvingMe
    <3>2. {o \in Vin[t] \cap Mine : o[1] \in w.txs \cup {t}} = Vin[t] \cap Mine
      BY <1>1
    <3> HIDE DEF x
    <3> QED BY <3>1, <3>2, AddFields, ZenonT(60)
  <2> HIDE DEF x
  <2>2. Complete(x, U \cup {t})
    BY <2>1 DEF Complete
  <2>3. ASSUME Flagged(w, U) PROVE Flagged(x, U \cup {t})
    <3> SUFFICES ASSUME NEW u \in U \cup {t}, NEW o \in Vin[u] \cap Mine PROVE o \in x.spent
      BY DEF Flagged
    <3>1. o[1] \in U
      OBVIOUS
    <3>2. o \notin Vout(t)
      BY <3>1, OutputNames
    <3>3. o \in w.spent \cup (Vin[t] \cap Mine)
      BY <2>3 DEF Flagged
    <3> QED BY <2>1, <3>2, <3>3
  <2>4. ASSUME NEW T, t \in T, Freed(w, U, T) PROVE Freed(x, U \cup {t}, T)
    <3> SUFFICES ASSUME NEW o \in x.spent, o[1] \in U \cup {t}
                 PROVE  \/ \E u \in T : o \in Vin[u]
                        \/ \E u \in x.txs \ Generated : o \in Vin[u]
      BY DEF Freed
    <3>1. CASE o \in Vin[t]
      BY <2>4, <3>1
    <3>2. CASE o \notin Vin[t]
      <4>1. o \in w.spent /\ o \in Mine /\ o \notin Vout(t)
        BY <2>1, <3>2 DEF Wallets
      <4>2. o[1] # t
        BY <4>1, CoinFacts
      <4> QED BY <2>1, <2>4, <4>1, <4>2 DEF Freed
    <3> QED BY <3>1, <3>2
  <2> QED BY <2>2, <2>3, <2>4 DEF x
<1>3. CASE ~ (t \in w.txs \/ IsMine(t) \/ IsFromMe(w, t))
  <2>1. x = w
    BY <1>3 DEF AddToWalletIfInvolvingMe
  <2>2. Vin[t] \cap Mine = {}
    BY <1>1, <1>3 DEF IsFromMe, OwnInputs
  <2>3. ASSUME NEW o \in w.spent PROVE o[1] # t
    BY <1>3, CoinFacts DEF Wallets
  <2> HIDE DEF x
  <2>4. Complete(x, U \cup {t}) /\ (Flagged(w, U) => Flagged(x, U \cup {t}))
    BY <1>3, <2>1, <2>2 DEF Complete, Flagged, Involved
  <2>5. ASSUME NEW T, Freed(w, U, T) PROVE Freed(x, U \cup {t}, T)
    BY <2>1, <2>3, <2>5 DEF Freed
  <2> QED BY <2>4, <2>5 DEF x
<1> QED BY <1>2, <1>3

\* The block with t is taken from the top of the transactions U \cup {t}.
LEMMA DisconnectTold ==
  ASSUME NEW w \in Wallets, NEW U \in SUBSET Tx, NEW t \in Tx, t \notin U,
         \A o \in Vin[t] : \A u \in U : o \notin Vin[u],
         Complete(w, U \cup {t})
  PROVE  LET x == DisableTransaction(w, t)
         IN  /\ Complete(x, U)
             /\ Flagged(w, U \cup {t}) => Flagged(x, U)
             /\ Freed(w, U \cup {t}, U \cup {t}) => Freed(x, U, U)
<1> DEFINE x == DisableTransaction(w, t)
<1>1. /\ x.txs = w.txs
      /\ x.spent = IF t \in CoinStake THEN w.spent \ {o \in Vin[t] \cap Mine : o[1] \in w.txs} ELSE w.spent
  BY DisableFields
<1> HIDE DEF x
<1>2. Complete(x, U)
  BY <1>1 DEF Complete
<1>3. ASSUME Flagged(w, U \cup {t}) PROVE Flagged(x, U)
  BY <1>1, <1>3 DEF Flagged
<1>4. ASSUME Freed(w, U \cup {t}, U \cup {t}) PROVE Freed(x, U, U)
  <2> SUFFICES ASSUME NEW o \in x.spent, o[1] \in U, \A u \in U : o \notin Vin[u]
               PROVE  \E u \in w.txs \ Generated : o \in Vin[u]
    BY <1>1 DEF Freed
  <2>1. o \in w.spent /\ o \in Mine
    BY <1>1 DEF Wallets
  <2>2. CASE o \in Vin[t]
    <3>1. o[1] \in w.txs
      BY <2>1, CoinFacts DEF Complete
    <3>2. t \notin CoinStake
      BY <1>1, <2>1, <2>2, <3>1
    <3>3. t \notin CoinBase
      BY <2>2, WalletAssumption
    <3>4. t \in w.txs
      BY <2>1, <2>2 DEF Complete, Involved
    <3> QED BY <2>2, <3>2, <3>3, <3>4 DEF Generated
  <2>3. CASE o \notin Vin[t]
    BY <1>4, <2>1, <2>3 DEF Freed
  <2> QED BY <2>2, <2>3
<1> QED BY <1>2, <1>3, <1>4 DEF x

-----------------------------------------------------------------------------
(* Scans of the chain                                                       *)

\* ScanForWalletTransactions by induction: Z[i] holds what is true of the
\* wallet after i blocks.
LEMMA ScanInduction ==
  ASSUME NEW w, NEW c, Len(c) \in Nat, NEW f, NEW Z,
         w \in Z[0],
         \A i \in 1 .. Len(c) : \A v \in Z[i - 1] : ScanTx(v, c[i], f) \in Z[i]
  PROVE  Scanned(w, c, f) \in Z[Len(c)]
<1> DEFINE Runs(v, n) == v = [i \in 0 .. n |-> IF i = 0 THEN w ELSE ScanTx(v[i - 1], c[i], f)]
<1>1. ASSUME NEW n \in Nat PROVE \E v : Runs(v, n)
  <2> DEFINE Bad == {m \in Nat : ~ \E v : Runs(v, m)}
  <2> SUFFICES ASSUME Bad # {} PROVE FALSE
    BY <1>1
  <2>1. PICK m \in Bad : \A y \in Bad : ~ (y < m)
    BY LeastNat
  <2>2. m # 0
    <3>1. Runs([i \in 0 .. 0 |-> w], 0)
      OBVIOUS
    <3> QED BY <2>1, <3>1
  <2>3. PICK v : Runs(v, m - 1)
    BY <2>1, <2>2
  <2> DEFINE u == [i \in 0 .. m |-> IF i = m THEN ScanTx(v[m - 1], c[m], f) ELSE v[i]]
  <2>4. ASSUME NEW i \in 0 .. m
        PROVE  u[i] = IF i = 0 THEN w ELSE ScanTx(u[i - 1], c[i], f)
    <3>1. CASE i = m
      <4>1. u[m - 1] = v[m - 1] /\ u[i] = ScanTx(v[m - 1], c[m], f)
        BY <2>1, <2>2, <3>1
      <4> QED BY <2>1, <2>2, <3>1, <4>1
    <3>2. CASE i # m
      <4>1. i \in 0 .. m - 1 /\ u[i] = v[i]
        BY <2>1, <2>2, <3>2
      <4>2. v[i] = IF i = 0 THEN w ELSE ScanTx(v[i - 1], c[i], f)
        BY <2>3, <4>1
      <4>3. i # 0 => u[i - 1] = v[i - 1]
        BY <2>1, <4>1
      <4> QED BY <4>1, <4>2, <4>3
    <3> QED BY <3>1, <3>2
  <2>5. Runs(u, m)
    BY <2>4
  <2> QED BY <2>1, <2>5
<1> DEFINE s == CHOOSE v : Runs(v, Len(c))
<1>2. Runs(s, Len(c))
  BY <1>1
<1>3. Scanned(w, c, f) = s[Len(c)]
  BY DEF Scanned
<1> HIDE DEF s
<1>4. ASSUME NEW n \in 0 .. Len(c) PROVE s[n] \in Z[n]
  <2> DEFINE Bad == {m \in 0 .. Len(c) : s[m] \notin Z[m]}
  <2> SUFFICES ASSUME Bad # {} PROVE FALSE
    BY <1>4
  <2>1. Bad \in SUBSET Nat
    OBVIOUS
  <2>2. PICK m \in Bad : \A y \in Bad : ~ (y < m)
    BY <2>1, LeastNat
  <2>3. m # 0
    BY <1>2, <2>2
  <2>4. m - 1 \in 0 .. Len(c) /\ m - 1 < m /\ m \in 1 .. Len(c)
    BY <2>2, <2>3
  <2>5. s[m - 1] \in Z[m - 1]
    BY <2>2, <2>4
  <2>6. s[m] = ScanTx(s[m - 1], c[m], f)
    BY <1>2, <2>3, <2>4
  <2> QED BY <2>2, <2>4, <2>5, <2>6
<1> QED BY <1>3, <1>4

\* A scan keeps the types.
LEMMA ScanType ==
  ASSUME NEW w \in Wallets, NEW c \in Seq(Tx), NEW f \in BOOLEAN
  PROVE  Scanned(w, c, f) \in Wallets
<1> DEFINE Z == [i \in 0 .. Len(c) |-> Wallets]
<1>1. Len(c) \in Nat /\ \A i \in 0 .. Len(c) : Z[i] = Wallets
  OBVIOUS
<1> HIDE DEF Z
<1>2. ASSUME NEW i \in 1 .. Len(c), NEW v \in Z[i - 1] PROVE ScanTx(v, c[i], f) \in Z[i]
  <2>1. v \in Wallets /\ c[i] \in Tx /\ Z[i] = Wallets
    BY <1>1
  <2>2. AddToWalletIfInvolvingMe(v, c[i], TRUE) \in Wallets
    BY <2>1, AddType
  <2> QED BY <2>1, <2>2 DEF ScanTx
<1>3. w \in Z[0]
  BY <1>1
<1>4. Scanned(w, c, f) \in Z[Len(c)]
  BY <1>1, <1>2, <1>3, ScanInduction
<1> QED BY <1>1, <1>4

\* A valid chain and its j-th block.
LEMMA PrefixStep ==
  ASSUME NEW c \in Seq(Tx), Valid(c), NEW j \in 1 .. Len(c)
  PROVE  /\ c[j] \in Tx /\ Upto(c, j - 1) \in SUBSET Tx
         /\ c[j] \notin Upto(c, j - 1) /\ Upto(c, j - 1) \cup {c[j]} = Upto(c, j)
         /\ \A o \in Vin[c[j]] : o[1] \in Upto(c, j - 1) /\ \A u \in Upto(c, j - 1) : o \notin Vin[u]
         /\ \A u \in Upto(c, j - 1) : \A o \in Vin[u] : o[1] \in Upto(c, j - 1)
<1>1. c[j] \in Tx /\ Upto(c, j - 1) \in SUBSET Tx
  BY DEF Upto
<1>2. Upto(c, j - 1) \cup {c[j]} = Upto(c, j)
  BY UptoStep
<1>3. j - 1 \in 0 .. Len(c) /\ Len(c) \in Nat
  OBVIOUS
<1>4. \A u \in Upto(c, j - 1) : \A o \in Vin[u] : o[1] \in Upto(c, j - 1)
  BY <1>3, PrefixClosed
<1> QED BY <1>1, <1>2, <1>4 DEF Valid

\* A scan of the blocks after the k-th, by a wallet that is right about the
\* blocks up to it.
LEMMA ScanTold ==
  ASSUME NEW w \in Wallets, NEW c \in Seq(Tx), Valid(c), NEW k \in 0 .. Len(c),
         Complete(w, Upto(c, k))
  PROVE  LET x == Scanned(w, SubSeq(c, k + 1, Len(c)), TRUE)
             U == Upto(c, Len(c))
         IN  /\ Complete(x, U)
             /\ Flagged(w, Upto(c, k)) => Flagged(x, U)
             /\ Freed(w, Upto(c, k), U) => Freed(x, U, U)
<1> DEFINE d == SubSeq(c, k + 1, Len(c))
           U == Upto(c, Len(c))
           Good(v, i) == /\ Complete(v, Upto(c, i))
                         /\ Flagged(w, Upto(c, k)) => Flagged(v, Upto(c, i))
                         /\ Freed(w, Upto(c, k), U) => Freed(v, Upto(c, i), U)
           Z == [i \in 0 .. Len(c) - k |-> {v \in Wallets : Good(v, k + i)}]
<1>1. Len(d) = Len(c) - k /\ Len(d) \in Nat /\ \A i \in 1 .. Len(d) : d[i] = c[k + i]
  OBVIOUS
<1>2. ASSUME NEW j \in 1 .. Len(c), NEW v \in Wallets, Good(v, j - 1)
      PROVE  Good(AddToWalletIfInvolvingMe(v, c[j], TRUE), j)
  <2>1. c[j] \in U
    BY DEF Upto
  <2> DEFINE P == Upto(c, j - 1)
             x == AddToWalletIfInvolvingMe(v, c[j], TRUE)
  <2> HIDE DEF U
  <2>2. /\ c[j] \in Tx /\ P \in SUBSET Tx /\ c[j] \notin P /\ P \cup {c[j]} = Upto(c, j)
        /\ \A o \in Vin[c[j]] : o[1] \in P
        /\ \A u \in P : \A o \in Vin[u] : o[1] \in P
    BY PrefixStep
  <2>3. Complete(v, P)
    BY <1>2
  <2>4. /\ Complete(x, P \cup {c[j]})
        /\ Flagged(v, P) => Flagged(x, P \cup {c[j]})
        /\ Freed(v, P, U) => Freed(x, P \cup {c[j]}, U)
    <3> HIDE DEF P
    <3> QED BY <2>1, <2>2, <2>3, ConnectTold
  <2>5. /\ Complete(x, Upto(c, j))
        /\ Flagged(v, P) => Flagged(x, Upto(c, j))
        /\ Freed(v, P, U) => Freed(x, Upto(c, j), U)
    BY <2>2, <2>4
  <2> QED BY <1>2, <2>5
<1>3. Good(w, k)
  OBVIOUS
<1> HIDE DEF Good, d
<1>4. ASSUME NEW i \in 0 .. Len(d), NEW v PROVE v \in Z[i] <=> v \in Wallets /\ Good(v, k + i)
  BY <1>1
<1> HIDE DEF Z
<1>5. ASSUME NEW i \in 1 .. Len(d), NEW v \in Z[i - 1] PROVE ScanTx(v, d[i], TRUE) \in Z[i]
  <2>1. /\ k + i \in 1 .. Len(c) /\ i \in 0 .. Len(d) /\ i - 1 \in 0 .. Len(d)
        /\ k + (i - 1) = (k + i) - 1
    BY <1>1
  <2>2. v \in Wallets /\ Good(v, (k + i) - 1)
    BY <1>4, <2>1
  <2>3. c[k + i] \in Tx /\ d[i] = c[k + i]
    BY <1>1, <2>1
  <2>4. AddToWalletIfInvolvingMe(v, c[k + i], TRUE) \in Z[i]
    BY <1>2, <1>4, <2>1, <2>2, <2>3, AddType
  <2> QED BY <2>3, <2>4 DEF ScanTx
<1>6. w \in Z[0]
  BY <1>1, <1>3, <1>4
<1>7. Scanned(w, d, TRUE) \in Z[Len(d)]
  BY <1>1, <1>5, <1>6, ScanInduction
<1>8. Good(Scanned(w, d, TRUE), Len(c))
  <2>1. Len(d) \in 0 .. Len(d) /\ k + Len(d) = Len(c)
    BY <1>1
  <2> QED BY <1>4, <1>7, <2>1
<1> QED BY <1>8 DEF Good, d

\* A scan without fUpdate leaves a complete wallet alone.
LEMMA ScanIdle ==
  ASSUME NEW w \in Wallets, NEW c \in Seq(Tx), Complete(w, Upto(c, Len(c)))
  PROVE  Scanned(w, c, FALSE) = w
<1> DEFINE Z == [i \in 0 .. Len(c) |-> {w}]
<1>1. ASSUME NEW i \in 1 .. Len(c) PROVE ScanTx(w, c[i], FALSE) = w
  <2>1. Involved(c[i]) => c[i] \in w.txs
    BY DEF Complete, Upto
  <2> QED BY <2>1 DEF ScanTx, AddToWalletIfInvolvingMe, Involved, IsFromMe, OwnInputs
<1>2. \A i \in 1 .. Len(c) : \A v \in Z[i - 1] : ScanTx(v, c[i], FALSE) \in Z[i]
  BY <1>1
<1>3. w \in Z[0] /\ Len(c) \in Nat /\ Z[Len(c)] = {w}
  OBVIOUS
<1> HIDE DEF Z
<1>4. Scanned(w, c, FALSE) \in Z[Len(c)]
  BY <1>2, <1>3, ScanInduction
<1> QED BY <1>3, <1>4

\* The coins the chain spends are marked.
LEMMA MarkedTold ==
  ASSUME NEW w \in Wallets, NEW U, U = In(chain)
  PROVE  /\ Marked(w) \in Wallets
         /\ Complete(w, U) => Complete(Marked(w), U)
         /\ Flagged(w, U) => Flagged(Marked(w), U)
         /\ Freed(w, U, U) => Freed(Marked(w), U, U)
<1>1. /\ Marked(w) \in Wallets /\ Marked(w).txs = w.txs
      /\ w.spent \subseteq Marked(w).spent
      /\ Marked(w).spent \subseteq w.spent \cup SpentIn(chain)
  BY DEF Marked, Wallets
<1>2. ASSUME NEW o \in SpentIn(chain) PROVE \E t \in U : o \in Vin[t]
  BY DEF SpentIn
<1> QED BY <1>1, <1>2 DEF Complete, Flagged, Freed

\* ReacceptWalletTransactions keeps the types and what is known.
LEMMA ReacceptedTold ==
  ASSUME NEW w \in Wallets, chain \in Seq(Tx), NEW U, U = In(chain)
  PROVE  /\ Reaccepted(w) \in Wallets
         /\ Complete(w, U) =>
              /\ Complete(Reaccepted(w), U)
              /\ Flagged(w, U) => Flagged(Reaccepted(w), U)
              /\ Freed(w, U, U) => Freed(Reaccepted(w), U, U)
<1> DEFINE s == Scanned(Marked(w), chain, FALSE)
<1>1. Marked(w) \in Wallets
  BY MarkedTold
<1>2. s \in Wallets
  BY <1>1, ScanType
<1>3. Complete(w, U) => s = Marked(w)
  BY <1>1, MarkedTold, ChainIsUpto, ScanIdle
<1>4. Reaccepted(w) = w \/ Reaccepted(w) = Marked(s)
  BY DEF Reaccepted
<1> HIDE DEF s
<1> QED BY <1>1, <1>2, <1>3, <1>4, MarkedTold

-----------------------------------------------------------------------------
(* The steps of SetBestChain                                                *)

\* A wallet that an action sets.
LEMMA SetFields ==
  ASSUME NEW x \in Wallets, SetWallet(x)
  PROVE  Wallet' = x /\ mapWallet' \subseteq Tx /\ vfSpent' \subseteq Mine
  BY DEF SetWallet, Wallet, Wallets

\* The wallet as a value.
LEMMA WalletType == ASSUME Types PROVE Wallet \in Wallets
  BY DEF Types, Wallet, Wallets

\* At the fork the way down is over.
LEMMA Turn ==
  ASSUME NEW c \in Seq(Tx), NEW g \in Seq(Tx), NEW k \in 0 .. Len(c), k <= Len(g),
         \A i \in 1 .. k : g[i] = c[i]
  PROVE  Down(c, g, k, k) = Up(g, k) /\ Upto(c, k) = Upto(g, k)
  BY DEF Down, Up, Upto

\* One block down.
LEMMA DownStep ==
  ASSUME NEW c \in Seq(Tx), NEW g \in Seq(Tx), NEW k \in 0 .. Len(c), k <= Len(g),
         NEW m \in k .. Len(c), m # k
  PROVE  /\ Down(c, g, k, m) # << >>
         /\ Head(Down(c, g, k, m)) = [op |-> "disconnect", tx |-> c[m]]
         /\ Tail(Down(c, g, k, m)) = Down(c, g, k, m - 1)
<1> DEFINE n == (m - k) + (Len(g) - k)
           E(i) == IF i <= m - k THEN [op |-> "disconnect", tx |-> c[m + 1 - i]]
                                 ELSE [op |-> "connect", tx |-> g[i - (m - k) + k]]
           F(i) == IF i <= (m - 1) - k THEN [op |-> "disconnect", tx |-> c[(m - 1) + 1 - i]]
                                       ELSE [op |-> "connect", tx |-> g[i - ((m - 1) - k) + k]]
<1>1. n \in Nat /\ n >= 1 /\ ((m - 1) - k) + (Len(g) - k) = n - 1
  OBVIOUS
<1>2. Down(c, g, k, m) = [i \in 1 .. n |-> E(i)]
  BY DEF Down
<1>3. Down(c, g, k, m - 1) = [i \in 1 .. n - 1 |-> F(i)]
  BY <1>1 DEF Down
<1>4. E(1) = [op |-> "disconnect", tx |-> c[m]]
  OBVIOUS
<1>5. ASSUME NEW i \in 1 .. n - 1 PROVE E(i + 1) = F(i)
  <2>1. i + 1 <= m - k <=> i <= (m - 1) - k
    BY <1>1
  <2>2. m + 1 - (i + 1) = (m - 1) + 1 - i /\ (i + 1) - (m - k) + k = i - ((m - 1) - k) + k
    BY <1>1
  <2> QED BY <2>1, <2>2
<1> HIDE DEF n, E, F
<1>6. Head([i \in 1 .. n |-> E(i)]) = E(1) /\ [i \in 1 .. n |-> E(i)] # << >>
  BY <1>1
<1>7. Tail([i \in 1 .. n |-> E(i)]) = [i \in 1 .. n - 1 |-> E(i + 1)]
  BY <1>1
<1>8. [i \in 1 .. n - 1 |-> E(i + 1)] = [i \in 1 .. n - 1 |-> F(i)]
  BY <1>5
<1> QED BY <1>2, <1>3, <1>4, <1>6, <1>7, <1>8

\* One block up.
LEMMA UpStep ==
  ASSUME NEW g \in Seq(Tx), NEW m \in 0 .. Len(g), Up(g, m) # << >>
  PROVE  /\ m + 1 \in 1 .. Len(g)
         /\ Head(Up(g, m)) = [op |-> "connect", tx |-> g[m + 1]]
         /\ Tail(Up(g, m)) = Up(g, m + 1)
<1> DEFINE n == Len(g) - m
           E(i) == [op |-> "connect", tx |-> g[m + i]]
           F(i) == [op |-> "connect", tx |-> g[(m + 1) + i]]
<1>1. n \in Nat /\ n >= 1 /\ Len(g) - (m + 1) = n - 1
  <2>1. m # Len(g)
    BY DEF Up
  <2> QED BY <2>1
<1>2. Up(g, m) = [i \in 1 .. n |-> E(i)]
  BY DEF Up
<1>3. Up(g, m + 1) = [i \in 1 .. n - 1 |-> F(i)]
  BY <1>1 DEF Up
<1>4. E(1) = [op |-> "connect", tx |-> g[m + 1]]
  OBVIOUS
<1>5. ASSUME NEW i \in 1 .. n - 1 PROVE E(i + 1) = F(i)
  <2>1. m + (i + 1) = (m + 1) + i
    BY <1>1
  <2> QED BY <2>1
<1>6. m + 1 \in 1 .. Len(g)
  BY <1>1
<1> HIDE DEF n, E, F
<1>7. Head([i \in 1 .. n |-> E(i)]) = E(1)
  BY <1>1
<1>8. Tail([i \in 1 .. n |-> E(i)]) = [i \in 1 .. n - 1 |-> E(i + 1)]
  BY <1>1
<1>9. [i \in 1 .. n - 1 |-> E(i + 1)] = [i \in 1 .. n - 1 |-> F(i)]
  BY <1>5
<1> QED BY <1>2, <1>3, <1>4, <1>6, <1>7, <1>8, <1>9

\* A block less to disconnect or to connect.
LEMMA ConnectFits ==
  ASSUME NEW w \in Wallets, NEW l, NEW c \in Seq(Tx), NEW g \in Seq(Tx), Valid(c), Valid(g),
         NEW todo, todo # << >>, Fits(todo, c, g, w, l)
  PROVE  LET x == IF Head(todo).op = "disconnect" THEN DisableTransaction(w, Head(todo).tx)
                  ELSE AddToWalletIfInvolvingMe(w, Head(todo).tx, TRUE)
         IN  x \in Wallets /\ w.txs \subseteq x.txs /\ Fits(Tail(todo), c, g, x, l)
<1> DEFINE x == IF Head(todo).op = "disconnect" THEN DisableTransaction(w, Head(todo).tx)
                ELSE AddToWalletIfInvolvingMe(w, Head(todo).tx, TRUE)
<1>1. PICK k \in 0 .. Len(c) :
        /\ k <= Len(g) /\ \A i \in 1 .. k : g[i] = c[i]
        /\ \/ \E m \in k .. Len(c) : todo = Down(c, g, k, m) /\ Told(w, l, Upto(c, m))
           \/ \E m \in k .. Len(g) : todo = Up(g, m) /\ Told(w, l, Upto(g, m))
  BY DEF Fits
<1>2. ASSUME NEW m \in k .. Len(c), m # k, todo = Down(c, g, k, m), Told(w, l, Upto(c, m))
      PROVE  x \in Wallets /\ w.txs \subseteq x.txs /\ Fits(Tail(todo), c, g, x, l)
  <2> DEFINE U == Upto(c, m - 1)
  <2>1. /\ Head(todo) = [op |-> "disconnect", tx |-> c[m]]
        /\ Tail(todo) = Down(c, g, k, m - 1)
    BY <1>1, <1>2, DownStep
  <2>2. x = DisableTransaction(w, c[m])
    <3>1. Head(todo).op = "disconnect" /\ Head(todo).tx = c[m]
      BY <2>1
    <3> QED BY <3>1
  <2>3. m \in 1 .. Len(c) /\ m - 1 \in k .. Len(c)
    BY <1>2
  <2>4. /\ c[m] \in Tx /\ U \in SUBSET Tx /\ c[m] \notin U /\ U \cup {c[m]} = Upto(c, m)
        /\ \A o \in Vin[c[m]] : \A u \in U : o \notin Vin[u]
    BY <2>3, PrefixStep
  <2> HIDE DEF x, U
  <2>5. x \in Wallets /\ w.txs \subseteq x.txs
    BY <2>2, <2>4, DisableFields
  <2>6. Told(x, l, U)
    <3>1. Told(w, l, U \cup {c[m]})
      BY <1>2, <2>4
    <3>2. Sound(l) => Complete(w, U \cup {c[m]})
      BY <3>1 DEF Told
    <3>3. Sound(l) =>
            /\ Complete(x, U)
            /\ Flagged(w, U \cup {c[m]}) => Flagged(x, U)
            /\ Freed(w, U \cup {c[m]}, U \cup {c[m]}) => Freed(x, U, U)
      BY <2>2, <2>4, <3>2, DisconnectTold
    <3>4. l \subseteq {"stale"} => Sound(l)
      BY StaleIsSound
    <3> QED BY <3>1, <3>3, <3>4 DEF Told
  <2>7. Fits(Tail(todo), c, g, x, l)
    BY <1>1, <2>1, <2>3, <2>6 DEF Fits, U
  <2> QED BY <2>5, <2>7
<1>3. ASSUME NEW m \in k .. Len(g), todo = Up(g, m), Told(w, l, Upto(g, m))
      PROVE  x \in Wallets /\ w.txs \subseteq x.txs /\ Fits(Tail(todo), c, g, x, l)
  <2> DEFINE t == g[m + 1]
             U == Upto(g, m)
  <2>0. m \in 0 .. Len(g)
    BY <1>1
  <2>1. /\ m + 1 \in 1 .. Len(g)
        /\ Head(todo) = [op |-> "connect", tx |-> t]
        /\ Tail(todo) = Up(g, m + 1)
    BY <1>3, <2>0, UpStep
  <2>2. x = AddToWalletIfInvolvingMe(w, t, TRUE)
    <3>1. Head(todo).op = "connect" /\ Head(todo).tx = t
      BY <2>1
    <3> QED BY <3>1
  <2>3. (m + 1) - 1 = m /\ m + 1 \in k .. Len(g)
    BY <2>1
  <2>4. /\ t \in Tx /\ U \in SUBSET Tx /\ t \notin U /\ U \cup {t} = Upto(g, m + 1)
        /\ \A o \in Vin[t] : o[1] \in U
        /\ \A u \in U : \A o \in Vin[u] : o[1] \in U
    BY <2>1, <2>3, PrefixStep
  <2>5. Told(w, l, U)
    BY <1>3
  <2> HIDE DEF x, t, U
  <2>6. x \in Wallets /\ w.txs \subseteq x.txs
    BY <2>2, <2>4, AddType
  <2>7. Told(x, l, U \cup {t})
    <3>1. Sound(l) => Complete(w, U)
      BY <2>5 DEF Told
    <3>2. Sound(l) =>
            /\ Complete(x, U \cup {t})
            /\ Flagged(w, U) => Flagged(x, U \cup {t})
            /\ Freed(w, U, U \cup {t}) => Freed(x, U \cup {t}, U \cup {t})
      BY <2>2, <2>4, <3>1, ConnectTold
    <3>3. Freed(w, U, U) => Freed(w, U, U \cup {t})
      BY DEF Freed
    <3>4. l \subseteq {"stale"} => Sound(l)
      BY StaleIsSound
    <3> QED BY <2>5, <3>2, <3>3, <3>4 DEF Told
  <2>8. Fits(Tail(todo), c, g, x, l)
    BY <1>1, <2>1, <2>3, <2>4, <2>7 DEF Fits
  <2> QED BY <2>6, <2>8
<1>4. ASSUME todo = Down(c, g, k, k), Told(w, l, Upto(c, k))
      PROVE  k \in k .. Len(g) /\ todo = Up(g, k) /\ Told(w, l, Upto(g, k))
  BY <1>1, <1>4, Turn
<1> HIDE DEF x
<1>5. x \in Wallets /\ w.txs \subseteq x.txs /\ Fits(Tail(todo), c, g, x, l)
  BY <1>1, <1>2, <1>3, <1>4
<1> QED BY <1>5 DEF x

\* When nothing is left to do the wallet was told of the new chain.
LEMMA DoneFits ==
  ASSUME NEW w \in Wallets, NEW l, NEW c \in Seq(Tx), NEW g \in Seq(Tx), Fits(<< >>, c, g, w, l)
  PROVE  Told(w, l, Upto(g, Len(g)))
<1>1. PICK k \in 0 .. Len(c) :
        /\ k <= Len(g) /\ \A i \in 1 .. k : g[i] = c[i]
        /\ \/ \E m \in k .. Len(c) : << >> = Down(c, g, k, m) /\ Told(w, l, Upto(c, m))
           \/ \E m \in k .. Len(g) : << >> = Up(g, m) /\ Told(w, l, Upto(g, m))
  BY DEF Fits
<1>2. ASSUME NEW m \in k .. Len(g), << >> = Up(g, m) PROVE m = Len(g)
  <2>1. ~ (1 <= Len(g) - m)
    <3> DEFINE n == Len(g) - m
    <3>1. n \in Nat
      BY <1>1
    <3>2. DOMAIN Up(g, m) = 1 .. n
      BY DEF Up
    <3>3. DOMAIN << >> = {}
      OBVIOUS
    <3>4. 1 .. n = {}
      BY <1>2, <3>2, <3>3
    <3> HIDE DEF n
    <3>5. ~ (1 <= n)
      BY <3>1, <3>4
    <3> QED BY <3>5 DEF n
  <2> QED BY <1>1, <2>1
<1>3. ASSUME NEW m \in k .. Len(c), << >> = Down(c, g, k, m) PROVE m = k
  BY <1>1, <1>3, DownStep
<1>4. k \in k .. Len(g) /\ Down(c, g, k, k) = Up(g, k) /\ Upto(c, k) = Upto(g, k)
  BY <1>1, Turn
<1> QED BY <1>1, <1>2, <1>3, <1>4

\* Two sequences put together.
LEMMA ConcatFacts ==
  ASSUME NEW S, NEW a \in Seq(S), NEW b \in Seq(S)
  PROVE  /\ a \o b \in Seq(S) /\ Len(a \o b) = Len(a) + Len(b)
         /\ \A i \in 1 .. Len(a) : (a \o b)[i] = a[i]
         /\ \A i \in 1 .. Len(b) : (a \o b)[Len(a) + i] = b[i]
  OBVIOUS

\* A function on 1 .. n as a sequence.
LEMMA MapSeq ==
  ASSUME NEW S, NEW n \in Nat, NEW E(_), \A i \in 1 .. n : E(i) \in S
  PROVE  LET a == [i \in 1 .. n |-> E(i)] IN a \in Seq(S) /\ Len(a) = n
  OBVIOUS

\* A prefix of two sequences put together.
LEMMA PrefixOfConcat ==
  ASSUME NEW a \in Seq(Tx), NEW s \in Seq(Tx), NEW i \in 1 .. Len(s)
  PROVE  LET d == a \o SubSeq(s, 1, i - 1)
         IN  /\ d \in Seq(Tx) /\ Len(d) = (Len(a) + i) - 1
             /\ \A j \in 1 .. (Len(a) + i) - 1 : d[j] = (a \o s)[j]
<1> DEFINE e == SubSeq(s, 1, i - 1)
           d == a \o e
           g == a \o s
<1>1. e \in Seq(Tx) /\ Len(e) = i - 1 /\ \A j \in 1 .. i - 1 : e[j] = s[j]
  OBVIOUS
<1> HIDE DEF e
<1>2. /\ d \in Seq(Tx) /\ Len(d) = Len(a) + Len(e)
      /\ \A j \in 1 .. Len(a) : d[j] = a[j]
      /\ \A j \in 1 .. Len(e) : d[Len(a) + j] = e[j]
  BY <1>1
<1>3. /\ \A j \in 1 .. Len(a) : g[j] = a[j]
      /\ \A j \in 1 .. Len(s) : g[Len(a) + j] = s[j]
  OBVIOUS
<1> HIDE DEF d, g
<1>4. Len(a) \in Nat /\ Len(s) \in Nat
  OBVIOUS
<1>5. ASSUME NEW j \in 1 .. (Len(a) + i) - 1 PROVE d[j] = g[j]
  <2>1. CASE j <= Len(a)
    BY <1>2, <1>3, <2>1
  <2>2. CASE ~ (j <= Len(a))
    <3>1. j - Len(a) \in 1 .. i - 1 /\ j - Len(a) \in 1 .. Len(s) /\ Len(a) + (j - Len(a)) = j
      BY <1>4, <2>2
    <3> QED BY <1>1, <1>2, <1>3, <3>1, ZenonT(60)
  <2> QED BY <2>1, <2>2
<1>6. Len(d) = (Len(a) + i) - 1
  BY <1>1, <1>2, <1>4
<1> QED BY <1>2, <1>5, <1>6 DEF d, e, g

\* What a block that extends a chain spends.
LEMMA ExtendsFacts ==
  ASSUME NEW c \in Seq(Tx), NEW t, Extends(c, t)
  PROVE  /\ t \notin In(c)
         /\ \A o \in Vin[t] : o[1] \in In(c) /\ \A u \in In(c) : o \notin Vin[u]
<1> SUFFICES ASSUME NEW o \in Vin[t] PROVE o[1] \in In(c) /\ \A u \in In(c) : o \notin Vin[u]
  BY DEF Extends
<1>1. o \in UNION {Vout(u) : u \in In(c)} /\ o \notin SpentIn(c)
  <2>1. o \in UnspentIn(c)
    BY DEF Extends
  <2> QED BY <2>1 DEF UnspentIn
<1>2. PICK u \in In(c) : o \in Vout(u)
  BY <1>1
<1> QED BY <1>1, <1>2, OutputNames DEF SpentIn

\* The chain a reorganization leads to: k blocks of c and then those of s.
LEMMA TargetValid ==
  ASSUME NEW c \in Seq(Tx), Valid(c), NEW k \in 0 .. Len(c), NEW s \in Seq(Tx),
         \A i \in 1 .. Len(s) : Extends(SubSeq(c, 1, k) \o SubSeq(s, 1, i - 1), s[i])
  PROVE  LET g == SubSeq(c, 1, k) \o s
         IN  /\ g \in Seq(Tx) /\ Len(g) = k + Len(s)
             /\ \A i \in 1 .. k : g[i] = c[i]
             /\ \A i \in 1 .. Len(s) : g[k + i] = s[i]
             /\ Valid(g)
<1> DEFINE kept == SubSeq(c, 1, k)
           g == kept \o s
<1>1. kept \in Seq(Tx) /\ Len(kept) = k /\ \A i \in 1 .. k : kept[i] = c[i]
  OBVIOUS
<1> HIDE DEF kept
<1>2. /\ g \in Seq(Tx) /\ Len(g) = k + Len(s)
      /\ \A i \in 1 .. k : g[i] = kept[i]
      /\ \A i \in 1 .. Len(s) : g[k + i] = s[i]
  BY <1>1, SMTT(30)
<1> HIDE DEF g
<1>3. ASSUME NEW i \in 0 .. k PROVE Upto(g, i) = Upto(c, i)
  BY <1>1, <1>2 DEF Upto
<1>4. ASSUME NEW i \in 1 .. k
      PROVE  /\ g[i] \notin Upto(g, i - 1)
             /\ \A o \in Vin[g[i]] : o[1] \in Upto(g, i - 1) /\ \A u \in Upto(g, i - 1) : o \notin Vin[u]
  <2>1. i \in 1 .. Len(c) /\ i - 1 \in 0 .. k /\ g[i] = c[i]
    BY <1>1, <1>2
  <2>2. Upto(g, i - 1) = Upto(c, i - 1)
    BY <1>3, <2>1
  <2> QED BY <2>1, <2>2 DEF Valid
<1>5. ASSUME NEW i \in 1 .. Len(s)
      PROVE  LET P == Upto(g, (k + i) - 1)
             IN  /\ g[k + i] \notin P
                 /\ \A o \in Vin[g[k + i]] : o[1] \in P /\ \A u \in P : o \notin Vin[u]
  <2> DEFINE d == kept \o SubSeq(s, 1, i - 1)
  <2>1. /\ d \in Seq(Tx) /\ Len(d) = (k + i) - 1
        /\ \A j \in 1 .. (k + i) - 1 : d[j] = g[j]
    BY <1>1, PrefixOfConcat DEF g
  <2>2. Extends(d, s[i])
    BY DEF kept
  <2> HIDE DEF d
  <2>3. In(d) = Upto(g, (k + i) - 1)
    <3>1. In(d) = Upto(d, (k + i) - 1)
      BY <2>1, ChainIsUpto
    <3> QED BY <2>1, <3>1 DEF Upto
  <2> QED BY <1>2, <2>1, <2>2, <2>3, ExtendsFacts
<1>6. Valid(g)
  <2>1. ASSUME NEW i \in 1 .. Len(g)
        PROVE  /\ g[i] \notin Upto(g, i - 1)
               /\ \A o \in Vin[g[i]] : o[1] \in Upto(g, i - 1) /\ \A u \in Upto(g, i - 1) : o \notin Vin[u]
    <3>1. CASE i <= k
      BY <1>4, <3>1, SMTT(30)
    <3>2. CASE ~ (i <= k)
      <4>1. i - k \in 1 .. Len(s) /\ k + (i - k) = i
        BY <1>2, <3>2
      <4> QED BY <1>5, <4>1
    <3> QED BY <3>1, <3>2
  <2> QED BY <2>1 DEF Valid
<1>7. \A i \in 1 .. k : g[i] = c[i]
  BY <1>1, <1>2
<1> QED BY <1>2, <1>6, <1>7 DEF g, kept

\* A sequence that has the elements of two.
LEMMA ConcatIs ==
  ASSUME NEW S, NEW a \in Seq(S), NEW b \in Seq(S), NEW d \in Seq(S), Len(d) = Len(a) + Len(b),
         \A i \in 1 .. Len(a) : d[i] = a[i],
         \A i \in 1 .. Len(b) : d[Len(a) + i] = b[i]
  PROVE  a \o b = d
<1> DEFINE x == a \o b
<1>1. /\ x \in Seq(S) /\ Len(x) = Len(a) + Len(b)
      /\ \A i \in 1 .. Len(a) : x[i] = a[i]
      /\ \A i \in 1 .. Len(b) : x[Len(a) + i] = b[i]
  BY ConcatFacts
<1> HIDE DEF x
<1>2. Len(a) \in Nat /\ Len(b) \in Nat
  OBVIOUS
<1>3. ASSUME NEW i \in 1 .. Len(a) + Len(b) PROVE x[i] = d[i]
  <2>1. CASE i <= Len(a)
    BY <1>1, <1>2, <2>1
  <2>2. CASE ~ (i <= Len(a))
    <3>1. i - Len(a) \in 1 .. Len(b) /\ Len(a) + (i - Len(a)) = i
      BY <1>2, <2>2
    <3> QED BY <1>1, <3>1
  <2> QED BY <2>1, <2>2
<1>4. x \in [1 .. Len(a) + Len(b) -> S] /\ d \in [1 .. Len(a) + Len(b) -> S]
  BY <1>1, <1>2
<1>5. x = d
  BY <1>3, <1>4
<1> QED BY <1>5 DEF x

\* SetBestChain starts at the tip of the committed chain.
LEMMA StartFits ==
  ASSUME NEW c \in Seq(Tx), NEW n \in 0 .. Len(c), NEW s \in Seq(Tx), NEW g \in Seq(Tx),
         Len(g) = (Len(c) - n) + Len(s),
         \A i \in 1 .. Len(s) : g[(Len(c) - n) + i] = s[i]
  PROVE  [i \in 1 .. n |-> [op |-> "disconnect", tx |-> c[Len(c) + 1 - i]]]
           \o [i \in DOMAIN s |-> [op |-> "connect", tx |-> s[i]]]
         = Down(c, g, Len(c) - n, Len(c))
<1> DEFINE Op == [op : {"connect", "disconnect"}, tx : Tx]
           E(i) == [op |-> "disconnect", tx |-> c[Len(c) + 1 - i]]
           F(i) == [op |-> "connect", tx |-> s[i]]
           a == [i \in 1 .. n |-> E(i)]
           b == [i \in DOMAIN s |-> F(i)]
           k == Len(c) - n
           D == Down(c, g, k, Len(c))
<1>1. Len(s) \in Nat /\ DOMAIN s = 1 .. Len(s)
  OBVIOUS
<1>2. ASSUME NEW i \in 1 .. n PROVE E(i) \in Op
  <2>1. c[Len(c) + 1 - i] \in Tx
    BY <1>2
  <2> QED BY <2>1
<1>3. ASSUME NEW i \in 1 .. Len(s) PROVE F(i) \in Op
  <2>1. s[i] \in Tx
    BY <1>3
  <2> QED BY <2>1
<1>4. (Len(c) - k) + (Len(g) - k) = n + Len(s) /\ Len(c) - k = n
  OBVIOUS
<1>5. D = [i \in 1 .. n + Len(s) |->
             IF i <= n THEN E(i) ELSE [op |-> "connect", tx |-> g[i - n + k]]]
  BY <1>4 DEF Down
<1>6. ASSUME NEW i \in 1 .. Len(s) PROVE D[n + i] = F(i)
  <2>1. n + i \in 1 .. n + Len(s) /\ ~ (n + i <= n) /\ (n + i) - n + k = k + i
    OBVIOUS
  <2>2. g[k + i] = s[i]
    BY <1>6
  <2> HIDE DEF D
  <2> QED BY <1>5, <2>1, <2>2
<1> HIDE DEF Op, E, F, D
<1>7. /\ a \in Seq(Op) /\ Len(a) = n /\ b \in Seq(Op) /\ Len(b) = Len(s)
      /\ \A i \in 1 .. n : a[i] = E(i)
      /\ \A i \in 1 .. Len(s) : b[i] = F(i)
  <2>1. a \in Seq(Op) /\ Len(a) = n
    BY <1>2, MapSeq
  <2>2. b \in Seq(Op) /\ Len(b) = Len(s)
    BY <1>1, <1>3, MapSeq
  <2> QED BY <1>1, <2>1, <2>2, Zenon
<1>8. D = [i \in 1 .. n + Len(s) |-> D[i]] /\ \A i \in 1 .. n : D[i] = E(i)
  BY <1>1, <1>5
<1> HIDE DEF a, b
<1>9. a \o b = D
  <2>1. \A i \in 1 .. n : D[i] = a[i]
    BY <1>7, <1>8
  <2>2. \A i \in 1 .. Len(s) : D[n + i] = b[i]
    BY <1>6, <1>7
  <2>3. n \in Nat
    OBVIOUS
  <2>4. ASSUME NEW i \in 1 .. n + Len(s) PROVE D[i] \in Op
    <3>1. CASE i \in 1 .. n
      BY <1>2, <1>8, <3>1
    <3>2. CASE i \notin 1 .. n
      <4>1. i - n \in 1 .. Len(s) /\ n + (i - n) = i
        BY <1>1, <2>3, <3>2
      <4> QED BY <1>3, <1>6, <4>1
    <3> QED BY <3>1, <3>2
  <2>5. D \in Seq(Op) /\ Len(D) = n + Len(s)
    <3>1. n + Len(s) \in Nat
      BY <1>1, <2>3
    <3>2. LET d == [i \in 1 .. n + Len(s) |-> D[i]] IN d \in Seq(Op) /\ Len(d) = n + Len(s)
      BY <2>4, <3>1, MapSeq
    <3> QED BY <1>8, <3>2
  <2>6. /\ Len(D) = Len(a) + Len(b)
        /\ \A i \in 1 .. Len(a) : D[i] = a[i]
        /\ \A i \in 1 .. Len(b) : D[Len(a) + i] = b[i]
    BY <1>7, <2>1, <2>2, <2>5
  <2> QED BY <1>7, <2>5, <2>6, ConcatIs
<1> QED BY <1>9 DEF a, b, D, E, F

\* SetBestChain is entered with the wallet in step with the chain.
LEMMA StartWInv ==
  ASSUME WInv, NEW n \in Nat, NEW k \in Nat, NEW s \in [1 .. k -> Tx], SetBestChain(n, s)
  PROVE  WInv'
<1> DEFINE kept == SubSeq(chain, 1, Len(chain) - n)
           g == kept \o s
           h == Len(chain) - n
           todo == [i \in 1 .. n |-> [op |-> "disconnect", tx |-> chain[Len(chain) + 1 - i]]]
                     \o [i \in DOMAIN s |-> [op |-> "connect", tx |-> s[i]]]
<1>1. chain \in Seq(Tx) /\ Valid(chain) /\ Idle /\ n <= Len(chain)
  BY DEF WInv, Types, SetBestChain
<1>2. n \in 0 .. Len(chain) /\ h \in 0 .. Len(chain)
  BY <1>1
<1>3. s \in Seq(Tx) /\ Len(s) = k /\ DOMAIN s = 1 .. Len(s)
  OBVIOUS
<1>4. \A i \in 1 .. Len(s) : Extends(SubSeq(chain, 1, h) \o SubSeq(s, 1, i - 1), s[i])
  BY <1>3 DEF SetBestChain
<1>5. /\ g \in Seq(Tx) /\ Len(g) = h + Len(s) /\ Valid(g)
      /\ \A i \in 1 .. h : g[i] = chain[i]
      /\ \A i \in 1 .. Len(s) : g[h + i] = s[i]
  BY <1>1, <1>2, <1>3, <1>4, TargetValid
<1>6. job' = [active |-> TRUE, target |-> g, on |-> In(s), off |-> In(chain) \ In(kept), todo |-> todo]
  BY DEF SetBestChain
<1>7. UNCHANGED <<chain, mapWallet, vfSpent, lapses>> /\ Wallet' = Wallet
  BY DEF SetBestChain, Wallet
<1> HIDE DEF g, todo, kept
<1>8. todo = Down(chain, g, h, Len(chain))
  BY <1>1, <1>2, <1>3, <1>5, StartFits DEF todo
<1>9. Told(Wallet, lapses, Upto(chain, Len(chain)))
  BY <1>1 DEF WInv
<1>10. Fits(todo, chain, g, Wallet, lapses)
  <2>1. h <= Len(g) /\ Len(chain) \in h .. Len(chain)
    BY <1>1, <1>2, <1>3, <1>5
  <2> QED BY <1>2, <1>5, <1>8, <1>9, <2>1 DEF Fits
<1>11. job'.active = TRUE /\ job'.target = g /\ job'.todo = todo
  BY <1>6
<1>12. Types'
  BY <1>6, <1>7 DEF WInv, Types
<1> QED BY <1>5, <1>7, <1>10, <1>11, <1>12 DEF WInv, Idle

\* A block is disconnected or connected.
LEMMA ConnectWInv == ASSUME WInv, ConnectNext PROVE WInv'
<1> DEFINE x == IF Head(job.todo).op = "disconnect" THEN DisableTransaction(Wallet, Head(job.todo).tx)
                ELSE AddToWalletIfInvolvingMe(Wallet, Head(job.todo).tx, TRUE)
<1>1. /\ job.active /\ job.todo # << >> /\ SetWallet(x) /\ UNCHANGED <<chain, lapses>>
      /\ job' = [job EXCEPT !.todo = Tail(job.todo)]
  BY DEF ConnectNext
<1>2. /\ Types /\ job.target \in Seq(Tx) /\ Valid(job.target)
      /\ Fits(job.todo, chain, job.target, Wallet, lapses)
  BY <1>1 DEF WInv
<1>3. Wallet \in Wallets /\ chain \in Seq(Tx) /\ Valid(chain)
  BY <1>2, WalletType DEF Types
<1>4. x \in Wallets /\ Wallet.txs \subseteq x.txs /\ Fits(Tail(job.todo), chain, job.target, x, lapses)
  BY <1>1, <1>2, <1>3, ConnectFits
<1> HIDE DEF x
<1>5. Wallet' = x /\ mapWallet' \subseteq Tx /\ vfSpent' \subseteq Mine
  BY <1>1, <1>4, SetFields
<1>6. /\ job'.active = job.active /\ job'.target = job.target /\ job'.todo = Tail(job.todo)
      /\ job'.off = job.off /\ job'.on = job.on
      /\ job' = [active |-> job.active, todo |-> Tail(job.todo), off |-> job.off, on |-> job.on,
                 target |-> job.target]
  BY <1>1, <1>2 DEF Types
<1>7. Types'
  BY <1>1, <1>2, <1>5, <1>6 DEF Types
<1>8. Sound(lapses) => Complete(x, Upto(chain, Len(chain)))
  BY <1>4 DEF WInv, Complete
<1> QED BY <1>1, <1>2, <1>4, <1>5, <1>6, <1>7, <1>8 DEF WInv, Idle

\* The new chain is committed.
LEMMA CommitWInv == ASSUME WInv, Commit PROVE WInv'
<1>1. /\ job.active /\ job.todo = << >> /\ chain' = job.target /\ job' = NoJob
      /\ UNCHANGED <<mapWallet, vfSpent, lapses>> /\ Wallet' = Wallet
  BY DEF Commit, Wallet
<1>2. /\ Types /\ job.target \in Seq(Tx) /\ Valid(job.target)
      /\ Fits(<< >>, chain, job.target, Wallet, lapses)
  BY <1>1 DEF WInv
<1>3. Told(Wallet, lapses, Upto(job.target, Len(job.target)))
  BY <1>2, WalletType, DoneFits DEF Types
<1>4. /\ job'.active = FALSE
      /\ job' = [active |-> job'.active, todo |-> job'.todo, off |-> job'.off, on |-> job'.on,
                 target |-> job'.target]
  BY <1>1 DEF NoJob
<1>5. Types'
  BY <1>1, <1>2, <1>4 DEF Types
<1> QED BY <1>1, <1>3, <1>4, <1>5 DEF WInv, Idle, Told

\* It is given up.
LEMMA AbortWInv == ASSUME WInv, Abort PROVE WInv'
<1>1. /\ job' = NoJob /\ lapses \subseteq lapses' /\ "abort" \in lapses'
      /\ UNCHANGED <<chain, mapWallet, vfSpent>> /\ Wallet' = Wallet
  BY DEF Abort, Wallet
<1>2. /\ job'.active = FALSE
      /\ job' = [active |-> job'.active, todo |-> job'.todo, off |-> job'.off, on |-> job'.on,
                 target |-> job'.target]
  BY <1>1 DEF NoJob
<1>3. Types'
  BY <1>1, <1>2 DEF WInv, Types
<1>4. Sound(lapses') => Complete(Wallet', Upto(chain', Len(chain')))
  BY <1>1 DEF WInv, Sound
<1>5. ~ (lapses' \subseteq {"stale"})
  BY <1>1
<1> QED BY <1>2, <1>3, <1>4, <1>5 DEF WInv, Told, Idle

-----------------------------------------------------------------------------
(* Payments, repairs and restarts                                           *)

\* A payment that is not in a block.
LEMMA PayTold ==
  ASSUME NEW w \in Wallets, NEW l, NEW U, NEW t \in Tx \ Generated, Told(w, l, U)
  PROVE  Told(AddToWallet(w, t, FALSE), l, U) /\ Told(AddToWalletIfInvolvingMe(w, t, FALSE), l, U)
<1> DEFINE x == AddToWallet(w, t, FALSE)
<1>1. /\ x.txs = w.txs \cup {t}
      /\ w.spent \subseteq x.spent /\ \A o \in x.spent \ w.spent : o \in Vin[t]
  <2>1. /\ x.txs = w.txs \cup {t}
        /\ x.spent = (w.spent \cup {o \in Vin[t] \cap Mine : o[1] \in w.txs \cup {t}}) \ {}
    BY AddFields
  <2> HIDE DEF x
  <2> QED BY <2>1
<1> HIDE DEF x
<1>2. Complete(w, U) => Complete(x, U)
  BY <1>1 DEF Complete
<1>3. Flagged(w, U) => Flagged(x, U)
  BY <1>1 DEF Flagged
<1>4. ASSUME Freed(w, U, U) PROVE Freed(x, U, U)
  <2> SUFFICES ASSUME NEW o \in x.spent, o[1] \in U
               PROVE  \/ \E u \in U : o \in Vin[u]
                      \/ \E u \in x.txs \ Generated : o \in Vin[u]
    BY DEF Freed
  <2>1. CASE o \in w.spent
    BY <1>1, <1>4, <2>1 DEF Freed
  <2>2. CASE o \notin w.spent
    BY <1>1, <2>2
  <2> QED BY <2>1, <2>2
<1>5. Told(x, l, U)
  BY <1>2, <1>3, <1>4 DEF Told
<1> QED BY <1>5 DEF x, AddToWalletIfInvolvingMe

\* An action between two blocks that only adds a payment to the wallet.
LEMMA PayWInv ==
  ASSUME WInv, Idle, NEW t \in Tx \ Generated, UNCHANGED <<chain, job, lapses>>,
         NEW x \in {AddToWallet(Wallet, t, FALSE), AddToWalletIfInvolvingMe(Wallet, t, FALSE)},
         SetWallet(x)
  PROVE  WInv'
<1>1. Types /\ Wallet \in Wallets /\ Told(Wallet, lapses, Upto(chain, Len(chain)))
  BY WalletType DEF WInv
<1>2. x \in Wallets /\ Told(x, lapses, Upto(chain, Len(chain)))
  BY <1>1, AddType, PayTold
<1>3. Wallet' = x /\ mapWallet' \subseteq Tx /\ vfSpent' \subseteq Mine
  BY <1>2, SetFields
<1>4. Types'
  BY <1>1, <1>3 DEF Types
<1> QED BY <1>2, <1>3, <1>4 DEF WInv, Idle, Told

\* After a change during a connection nothing is claimed until the next rescan.
LEMMA RaceWInv ==
  ASSUME WInv, job.active, "race" \in lapses', UNCHANGED <<chain, job>>,
         mapWallet' \subseteq Tx, vfSpent' \subseteq Mine
  PROVE  WInv'
<1>1. Types'
  BY DEF WInv, Types
<1>2. ASSUME NEW w, NEW U PROVE Told(w, lapses', U)
  BY DEF Told, Sound
<1>3. Fits(job.todo, chain, job.target, Wallet', lapses')
  BY <1>2 DEF WInv, Fits
<1> QED BY <1>1, <1>3 DEF WInv, Idle, Sound

\* FixSpentCoins in check mode.
LEMMA CheckWInv == ASSUME WInv, CheckWallet PROVE WInv'
<1>1. /\ vfSpent' = vfSpent \ Restored /\ UNCHANGED <<chain, mapWallet, job>>
      /\ Types /\ chain \in Seq(Tx)
  BY DEF CheckWallet, WInv, Types
<1>2. CASE job.active
  BY <1>1, <1>2, RaceWInv DEF CheckWallet, Idle, Types
<1>3. CASE ~job.active
  <2> DEFINE U == Upto(chain, Len(chain))
  <2>1. lapses' = lapses /\ Idle /\ Told(Wallet, lapses, U) /\ In(chain) = U
    BY <1>1, <1>3, ChainIsUpto DEF CheckWallet, Idle, WInv
  <2>2. Wallet'.txs = Wallet.txs /\ Wallet.spent = vfSpent /\ Wallet'.spent = vfSpent \ Restored
    BY <1>1 DEF Wallet
  <2>3. ASSUME NEW t \in U, NEW o \in Vin[t] PROVE o \notin Restored
    BY <2>1, <2>3 DEF Restored, UnspentIn, SpentIn
  <2> HIDE DEF U
  <2>4. Told(Wallet', lapses, U)
    BY <2>1, <2>2, <2>3 DEF Told, Complete, Flagged, Freed
  <2>5. Types'
    BY <1>1 DEF Types
  <2> QED BY <1>1, <1>3, <2>1, <2>4, <2>5 DEF WInv, Idle, Told, U
<1> QED BY <1>2, <1>3 DEF WInv, Types

\* What a repair leaves of the wallet.
LEMMA RepairFields ==
  ASSUME WInv, RepairWallet
  PROVE  /\ mapWallet' = mapWallet \ Removed
         /\ vfSpent' \subseteq Mine
         /\ \A o \in Mine : o[1] \in mapWallet' \cap In(chain) =>
                              (o \in vfSpent' <=> o \in SpentIn(chain))
         /\ UNCHANGED <<chain, pool, inMainChain, job>>
<1>1. /\ mapWallet' = mapWallet \ Removed
      /\ vfSpent' = {o \in vfSpent : o[1] \in mapWallet' \ In(chain)}
                      \cup {o \in SpentIn(chain) \cap Mine : o[1] \in mapWallet' \cap In(chain)}
      /\ UNCHANGED <<chain, pool, inMainChain, job>>
  BY DEF RepairWallet
<1>2. vfSpent \subseteq Mine
  BY DEF WInv, Types
<1> QED BY <1>1, <1>2

\* FixSpentCoins in repair mode.
LEMMA RepairWInv == ASSUME WInv, RepairWallet PROVE WInv'
<1>1. /\ mapWallet' = mapWallet \ Removed
      /\ vfSpent' \subseteq Mine /\ UNCHANGED <<chain, job>>
      /\ Types /\ chain \in Seq(Tx) /\ Valid(chain)
  BY RepairFields DEF WInv, Types
<1>2. CASE job.active
  BY <1>1, <1>2, RaceWInv DEF RepairWallet, Idle, Types
<1>3. CASE ~job.active
  <2> DEFINE U == Upto(chain, Len(chain))
  <2>1. lapses' = Repaired /\ In(chain) = U
    BY <1>1, <1>3, ChainIsUpto DEF RepairWallet, Idle
  <2>2. Sound(lapses') => Sound(lapses) /\ Removed \cap U = {}
    BY <2>1 DEF Sound, Repaired
  <2>3. Sound(lapses) => Complete(Wallet, U)
    BY DEF WInv
  <2>4. Wallet.txs = mapWallet /\ Wallet'.txs = mapWallet' /\ Wallet'.spent = vfSpent'
    BY DEF Wallet
  <2> HIDE DEF U
  <2>5. Sound(lapses') => Complete(Wallet', U)
    BY <1>1, <2>2, <2>3, <2>4 DEF Complete
  <2>6. ASSUME NEW o \in Mine, o[1] \in U, Sound(lapses')
        PROVE  o \in vfSpent' <=> o \in SpentIn(chain)
    <3>1. o[1] \in mapWallet'
      BY <2>4, <2>5, <2>6, CoinFacts DEF Complete
    <3> QED BY <2>1, <2>6, <3>1, RepairFields
  <2>7. Sound(lapses') => Flagged(Wallet', U)
    <3> SUFFICES ASSUME Sound(lapses'), NEW t \in U, NEW o \in Vin[t] \cap Mine
                 PROVE  o \in vfSpent'
      BY <2>4 DEF Flagged
    <3>1. o[1] \in U /\ o \in SpentIn(chain)
      BY <1>1, <2>1, PrefixClosed DEF U, SpentIn
    <3> QED BY <2>6, <3>1
  <2>8. Sound(lapses') => Freed(Wallet', U, U)
    <3> SUFFICES ASSUME Sound(lapses'), NEW o \in vfSpent', o[1] \in U
                 PROVE  \E t \in U : o \in Vin[t]
      BY <2>4 DEF Freed
    <3>1. o \in SpentIn(chain)
      BY <1>1, <2>6
    <3> QED BY <2>1, <3>1 DEF SpentIn
  <2>9. Types'
    BY <1>1 DEF Types
  <2>10. Told(Wallet', lapses', U)
    BY <2>5, <2>7, <2>8, StaleIsSound DEF Told
  <2> QED BY <1>1, <1>3, <2>9, <2>10 DEF WInv, Idle, Told, U
<1> QED BY <1>2, <1>3 DEF WInv, Types

\* Start-up: the scan from the locator, or of everything, and the rest.
LEMMA RestartWInv == ASSUME WInv, NEW n \in Nat, Restart(n) PROVE WInv'
<1> DEFINE k == Len(chain) - n
           U == Upto(chain, Len(chain))
           s == Scanned(Wallet, SubSeq(chain, Len(chain) + 1 - n, Len(chain)), TRUE)
           x == Reaccepted(s)
<1>1. /\ Idle /\ n <= Len(chain) /\ SetWallet(x) /\ UNCHANGED <<chain, job>>
      /\ lapses' = IF n = Len(chain) THEN lapses \ {"race", "erased", "stale"} ELSE lapses
  BY DEF Restart
<1>2. /\ Types /\ Wallet \in Wallets /\ chain \in Seq(Tx) /\ Valid(chain)
      /\ Told(Wallet, lapses, U) /\ In(chain) = U
  BY <1>1, WalletType, ChainIsUpto DEF WInv, Types
<1>3. k \in 0 .. Len(chain) /\ Len(chain) + 1 - n = k + 1 /\ (n = Len(chain) <=> k = 0)
  BY <1>1, <1>2
<1>4. s = Scanned(Wallet, SubSeq(chain, k + 1, Len(chain)), TRUE)
  BY <1>3
<1>5. s \in Wallets
  <2>1. SubSeq(chain, k + 1, Len(chain)) \in Seq(Tx)
    BY <1>2, <1>3
  <2> HIDE DEF s, k
  <2> QED BY <1>2, <1>4, <2>1, ScanType
<1>6. Told(s, lapses', U)
  <2>1. ASSUME Complete(Wallet, Upto(chain, k))
        PROVE  /\ Complete(s, U)
               /\ Flagged(Wallet, Upto(chain, k)) => Flagged(s, U)
               /\ Freed(Wallet, Upto(chain, k), U) => Freed(s, U, U)
    BY <1>2, <1>3, <1>4, <2>1, ScanTold
  <2>2. CASE k = 0
    <3>1. Upto(chain, k) = {}
      BY <2>2 DEF Upto
    <3>2. /\ Complete(Wallet, Upto(chain, k)) /\ Flagged(Wallet, Upto(chain, k))
          /\ Freed(Wallet, Upto(chain, k), U)
      BY <3>1 DEF Complete, Flagged, Freed
    <3> QED BY <2>1, <3>2 DEF Told
  <2>3. CASE k # 0
    <3>1. lapses' = lapses /\ Upto(chain, k) \subseteq U
      BY <1>1, <1>2, <1>3, <2>3, UptoSubset
    <3>2. /\ Complete(Wallet, U) => Complete(Wallet, Upto(chain, k))
          /\ Flagged(Wallet, U) => Flagged(Wallet, Upto(chain, k))
          /\ Freed(Wallet, U, U) => Freed(Wallet, Upto(chain, k), U)
      BY <3>1 DEF Complete, Flagged, Freed
    <3>3. lapses \subseteq {"stale"} => Sound(lapses)
      BY StaleIsSound
    <3> HIDE DEF s, U, k
    <3> QED BY <1>2, <2>1, <3>1, <3>2, <3>3 DEF Told
  <2> QED BY <2>2, <2>3
<1> HIDE DEF s, U, k
<1>7. x \in Wallets /\ Told(x, lapses', U)
  <2>1. lapses' \subseteq {"stale"} => Sound(lapses')
    BY StaleIsSound
  <2> QED BY <1>2, <1>5, <1>6, <2>1, ReacceptedTold DEF Told
<1> HIDE DEF x
<1>8. Wallet' = x /\ mapWallet' \subseteq Tx /\ vfSpent' \subseteq Mine
  BY <1>1, <1>7, SetFields
<1>9. Types'
  BY <1>1, <1>2, <1>8 DEF Types
<1> QED BY <1>1, <1>7, <1>8, <1>9 DEF WInv, Idle, Told, U

-----------------------------------------------------------------------------
(* What the wallet has been told                                            *)

\* A new wallet and an empty chain.
LEMMA InitWInv == Init => WInv
<1> SUFFICES ASSUME Init PROVE WInv
  OBVIOUS
<1>1. /\ job.active = FALSE /\ job = NoJob /\ chain = << >> /\ mapWallet = {} /\ vfSpent = {}
      /\ lapses = {}
  BY DEF Init, NoJob
<1>2. Upto(chain, Len(chain)) = {}
  BY <1>1 DEF Upto
<1>3. Types
  BY <1>1 DEF Types, NoJob, Valid
<1> QED BY <1>1, <1>2, <1>3 DEF WInv, Told, Complete, Flagged, Freed, Idle

\* Every step keeps the invariant.
LEMMA StepWInv == WInv /\ [Next]_vars => WInv'
<1> SUFFICES ASSUME WInv, [Next]_vars PROVE WInv'
  OBVIOUS
<1>1. ASSUME NEW n \in 0 .. MaxFork, NEW k \in 1 .. MaxFork, NEW s \in [1 .. k -> Tx], SetBestChain(n, s)
      PROVE  WInv'
  <2>1. n \in Nat /\ k \in Nat
    OBVIOUS
  <2> QED BY <1>1, <2>1, StartWInv
<1>2. CASE ConnectNext
  BY <1>2, ConnectWInv
<1>3. CASE Commit
  BY <1>3, CommitWInv
<1>4. CASE Abort
  BY <1>4, AbortWInv
<1>5. ASSUME NEW t \in Tx, ReceiveTx(t) PROVE WInv'
  BY <1>5, PayWInv DEF ReceiveTx, Acceptable
<1>6. ASSUME NEW t \in Tx, SendMoney(t) PROVE WInv'
  BY <1>6, PayWInv DEF SendMoney
<1>7. ASSUME NEW t \in Tx, NEW u \in Tx, ReceiveParent(t, u) PROVE WInv'
  BY <1>7, PayWInv DEF ReceiveParent, Acceptable
<1>8. CASE CheckWallet
  BY <1>8, CheckWInv
<1>9. CASE RepairWallet
  BY <1>9, RepairWInv
<1>10. ASSUME NEW n \in 0 .. MaxHeight, Restart(n) PROVE WInv'
  <2>1. n \in Nat
    OBVIOUS
  <2> QED BY <1>10, <2>1, RestartWInv
<1>11. CASE UNCHANGED vars
  <2>1. Wallet' = Wallet
    BY <1>11 DEF vars, Wallet
  <2> QED BY <1>11, <2>1 DEF vars, WInv, Types, Idle
<1> QED
  BY <1>1, <1>2, <1>3, <1>4, <1>5, <1>6, <1>7, <1>8, <1>9, <1>10, <1>11 DEF Next

\* The invariant holds in every behaviour.
LEMMA WalletInvariant == Spec => []WInv
  BY InitWInv, StepWInv, PTL DEF Spec

-----------------------------------------------------------------------------
(* Which transactions the wallet knows the depth of                         *)

\* The transactions of two chains put together.
LEMMA ConcatIn ==
  ASSUME NEW a \in Seq(Tx), NEW s \in Seq(Tx)
  PROVE  In(a \o s) = In(a) \cup In(s)
<1> DEFINE g == a \o s
<1>1. /\ g \in Seq(Tx) /\ Len(g) = Len(a) + Len(s)
      /\ \A i \in 1 .. Len(a) : g[i] = a[i]
      /\ \A i \in 1 .. Len(s) : g[Len(a) + i] = s[i]
  BY ConcatFacts
<1>2. Len(a) \in Nat /\ Len(s) \in Nat
  OBVIOUS
<1>3. /\ In(g) = Upto(g, Len(a) + Len(s))
      /\ In(a) = Upto(a, Len(a)) /\ In(s) = Upto(s, Len(s))
  BY <1>1, ChainIsUpto
<1> HIDE DEF g
<1>4. ASSUME NEW t \in In(g) PROVE t \in In(a) \cup In(s)
  <2>1. PICK i \in 1 .. Len(a) + Len(s) : t = g[i]
    BY <1>3 DEF Upto
  <2>2. CASE i <= Len(a)
    BY <1>1, <1>2, <1>3, <2>1, <2>2 DEF Upto
  <2>3. CASE ~ (i <= Len(a))
    <3>1. i - Len(a) \in 1 .. Len(s) /\ Len(a) + (i - Len(a)) = i
      BY <1>2, <2>3
    <3>2. t = s[i - Len(a)]
      BY <1>1, <2>1, <3>1
    <3> QED BY <1>3, <3>1, <3>2 DEF Upto
  <2> QED BY <2>2, <2>3
<1>5. ASSUME NEW t \in In(a) PROVE t \in In(g)
  <2>1. PICK i \in 1 .. Len(a) : t = a[i]
    BY <1>3 DEF Upto
  <2>2. i \in 1 .. Len(a) + Len(s) /\ t = g[i]
    BY <1>1, <1>2, <2>1
  <2> QED BY <1>3, <2>2 DEF Upto
<1>6. ASSUME NEW t \in In(s) PROVE t \in In(g)
  <2>1. PICK i \in 1 .. Len(s) : t = s[i]
    BY <1>3 DEF Upto
  <2>2. Len(a) + i \in 1 .. Len(a) + Len(s) /\ t = g[Len(a) + i]
    BY <1>1, <1>2, <2>1
  <2> QED BY <1>3, <2>2 DEF Upto
<1> QED BY <1>4, <1>5, <1>6 DEF g

\* A sequence taken apart.
LEMMA HeadTail ==
  ASSUME NEW S, NEW q \in Seq(S), q # << >>
  PROVE  Head(q) \in S /\ Tail(q) \in Seq(S)
  OBVIOUS

\* SetBestChain leaves the hashBlock of every transaction for now.
LEMMA StartDInv ==
  ASSUME WInv, DInv, NEW n \in Nat, NEW k \in Nat, NEW s \in [1 .. k -> Tx], SetBestChain(n, s)
  PROVE  DInv'
<1> DEFINE h == Len(chain) - n
           kept == SubSeq(chain, 1, h)
           g == kept \o s
           E(i) == [op |-> "disconnect", tx |-> chain[Len(chain) + 1 - i]]
           F(i) == [op |-> "connect", tx |-> s[i]]
           a == [i \in 1 .. n |-> E(i)]
           b == [i \in 1 .. k |-> F(i)]
           on == In(s)
<1>1. chain \in Seq(Tx) /\ Valid(chain) /\ ~job.active /\ n <= Len(chain)
  BY DEF WInv, Types, SetBestChain, Idle
<1>2. n \in 0 .. Len(chain) /\ h \in 0 .. Len(chain)
  BY <1>1
<1>3. s \in Seq(Tx) /\ Len(s) = k /\ DOMAIN s = 1 .. k
  OBVIOUS
<1>4. \A i \in 1 .. Len(s) : Extends(SubSeq(chain, 1, h) \o SubSeq(s, 1, i - 1), s[i])
  BY <1>3 DEF SetBestChain
<1>5. /\ g \in Seq(Tx) /\ Len(g) = h + Len(s) /\ Valid(g)
      /\ \A i \in 1 .. h : g[i] = chain[i]
      /\ \A i \in 1 .. Len(s) : g[h + i] = s[i]
  BY <1>1, <1>2, <1>3, <1>4, TargetValid
<1>6. job' = [active |-> TRUE, target |-> g, on |-> on, off |-> In(chain) \ In(kept),
              todo |-> a \o b]
  BY <1>3 DEF SetBestChain
<1>7. UNCHANGED <<chain, mapWallet, inMainChain, lapses>>
  BY DEF SetBestChain
<1>8. kept \in Seq(Tx) /\ In(kept) = Upto(g, h) /\ In(kept) \subseteq In(chain)
  <2>1. kept \in Seq(Tx) /\ Len(kept) = h /\ \A i \in 1 .. h : kept[i] = chain[i]
    BY <1>1, <1>2
  <2> HIDE DEF kept
  <2>2. In(kept) = Upto(kept, h) /\ In(chain) = Upto(chain, Len(chain))
    BY <1>1, <2>1, ChainIsUpto
  <2>3. Upto(kept, h) = Upto(g, h) /\ Upto(kept, h) = Upto(chain, h)
    BY <1>5, <2>1 DEF Upto
  <2>4. Upto(chain, h) \subseteq Upto(chain, Len(chain))
    BY <1>1, <1>2, UptoSubset
  <2> QED BY <2>1, <2>2, <2>3, <2>4
<1>9. In(g) = In(kept) \cup on
  BY <1>3, <1>8, ConcatIn
<1> HIDE DEF kept, g
<1>10. on \cap In(kept) = {}
  <2> SUFFICES ASSUME NEW t \in on PROVE t \notin In(kept)
    OBVIOUS
  <2>1. PICK i \in 1 .. Len(s) : t = s[i]
    BY <1>3, ChainIsUpto DEF Upto
  <2>2. h + i \in 1 .. Len(g) /\ t = g[h + i] /\ (h + i) - 1 \in Nat /\ h <= (h + i) - 1 /\ h \in Nat
    BY <1>2, <1>3, <1>5, <2>1
  <2>3. t \notin Upto(g, (h + i) - 1)
    BY <1>5, <2>2 DEF Valid
  <2>4. Upto(g, h) \subseteq Upto(g, (h + i) - 1)
    BY <2>2, UptoSubset
  <2> QED BY <1>8, <2>3, <2>4
<1>11. a \o b \in Seq(Steps(on))
  <2>1. ASSUME NEW i \in 1 .. n PROVE E(i) \in Steps(on)
    <3>1. chain[Len(chain) + 1 - i] \in Tx
      BY <1>1, <2>1
    <3> QED BY <3>1 DEF Steps
  <2>2. ASSUME NEW i \in 1 .. k PROVE F(i) \in Steps(on)
    <3>1. s[i] \in Tx /\ s[i] \in on
      BY <1>3, ChainIsUpto DEF Upto
    <3> QED BY <3>1 DEF Steps
  <2> HIDE DEF E, F, on
  <2>3. a \in Seq(Steps(on))
    BY <2>1, MapSeq
  <2>4. b \in Seq(Steps(on))
    BY <2>2, MapSeq
  <2> HIDE DEF a, b
  <2> QED BY <2>3, <2>4, ConcatFacts
<1> HIDE DEF a, b, on
<1>12. /\ job'.active = TRUE /\ job'.target = g /\ job'.on = on /\ job'.todo = a \o b
       /\ job'.off = In(chain) \ In(kept)
  BY <1>6
<1>13. In(chain) \ job'.off = In(kept)
  BY <1>8, <1>12
<1>14. /\ inMainChain \subseteq mapWallet \cap In(chain) /\ job.off = {}
       /\ Sound(lapses) /\ "stale" \notin lapses =>
            \A t \in In(chain) \ job.off : Involved(t) => t \in inMainChain
  BY <1>1 DEF DInv
<1>15. Sound(lapses) /\ "stale" \notin lapses =>
         \A t \in In(kept) : Involved(t) => t \in inMainChain
  BY <1>8, <1>14
<1>16. In(chain)' = In(chain) /\ In(job.target)' = In(g)
  BY <1>7, <1>12
<1> QED BY <1>7, <1>9, <1>10, <1>11, <1>12, <1>13, <1>14, <1>15, <1>16 DEF DInv

\* A connected block takes the depth of its transaction.
LEMMA ConnectDInv == ASSUME WInv, DInv, ConnectNext PROVE DInv'
<1> DEFINE y == Head(job.todo)
           x == IF y.op = "disconnect" THEN DisableTransaction(Wallet, y.tx)
                ELSE AddToWalletIfInvolvingMe(Wallet, y.tx, TRUE)
<1>1. /\ job.active /\ job.todo # << >> /\ SetWallet(x) /\ UNCHANGED <<chain, lapses>>
      /\ job' = [job EXCEPT !.todo = Tail(job.todo)]
      /\ inMainChain' = IF y.op = "disconnect" THEN inMainChain ELSE inMainChain \ {y.tx}
  BY DEF ConnectNext
<1>2. /\ Types /\ job.target \in Seq(Tx) /\ Valid(job.target)
      /\ Fits(job.todo, chain, job.target, Wallet, lapses)
  BY <1>1 DEF WInv
<1>3. Wallet \in Wallets /\ chain \in Seq(Tx) /\ Valid(chain)
  BY <1>2, WalletType DEF Types
<1>4. Wallet.txs \subseteq x.txs /\ x \in Wallets
  BY <1>1, <1>2, <1>3, ConnectFits
<1> HIDE DEF x
<1>5. mapWallet \subseteq mapWallet'
  BY <1>1, <1>4, SetFields DEF Wallet
<1>6. /\ job'.active = job.active /\ job'.target = job.target /\ job'.todo = Tail(job.todo)
      /\ job'.off = job.off /\ job'.on = job.on
  BY <1>1, <1>2 DEF Types
<1>7. /\ job.todo \in Seq(Steps(job.on)) /\ job.on \cap (In(chain) \ job.off) = {}
      /\ In(job.target) = (In(chain) \ job.off) \cup job.on
      /\ inMainChain \subseteq mapWallet \cap In(chain)
      /\ Sound(lapses) /\ "stale" \notin lapses =>
           \A t \in In(chain) \ job.off : Involved(t) => t \in inMainChain
  BY <1>1 DEF DInv
<1>8. y \in Steps(job.on) /\ Tail(job.todo) \in Seq(Steps(job.on))
  BY <1>1, <1>7, HeadTail
<1> HIDE DEF y
<1>9. y.op = "disconnect" \/ y.tx \in job.on
  BY <1>8 DEF Steps
<1>10. /\ inMainChain' \subseteq inMainChain
       /\ \A t \in In(chain) \ job.off : t \in inMainChain => t \in inMainChain'
  BY <1>1, <1>7, <1>9
<1>11. In(chain)' = In(chain) /\ In(job.target)' = In(job.target)
  BY <1>1, <1>6
<1>12. Sound(lapses) /\ "stale" \notin lapses =>
         \A t \in In(chain) \ job.off : Involved(t) => t \in inMainChain'
  BY <1>7, <1>10
<1>13. inMainChain' \subseteq mapWallet' \cap In(chain)
  BY <1>5, <1>7, <1>10
<1> QED BY <1>1, <1>6, <1>7, <1>8, <1>11, <1>12, <1>13 DEF DInv

\* With the commit the new blocks are in the main chain.
LEMMA CommitDInv == ASSUME WInv, DInv, WInv', Commit PROVE DInv'
<1>1. /\ job.active /\ chain' = job.target /\ job' = NoJob /\ UNCHANGED <<mapWallet, lapses>>
      /\ inMainChain' = (inMainChain \ job.off) \cup (job.on \cap mapWallet)
      /\ Wallet'.txs = mapWallet'
  BY DEF Commit, Wallet
<1>2. job'.active = FALSE /\ job'.off = {}
  BY <1>1 DEF NoJob
<1>3. /\ In(job.target) = (In(chain) \ job.off) \cup job.on
      /\ inMainChain \subseteq mapWallet \cap In(chain)
      /\ Sound(lapses) /\ "stale" \notin lapses =>
           \A t \in In(chain) \ job.off : Involved(t) => t \in inMainChain
  BY <1>1 DEF DInv
<1>4. In(chain') = In(job.target) /\ In(chain)' = In(chain')
  BY <1>1 DEF In
<1>5. Sound(lapses) => \A t \in In(chain') : Involved(t) => t \in mapWallet
  <2>1. chain' \in Seq(Tx)
    BY DEF WInv, Types
  <2>2. In(chain') = Upto(chain', Len(chain'))
    BY <2>1, ChainIsUpto
  <2>3. Sound(lapses) => Complete(Wallet', Upto(chain', Len(chain')))
    BY <1>1 DEF WInv
  <2> QED BY <1>1, <2>2, <2>3 DEF Complete
<1>6. inMainChain' \subseteq mapWallet \cap In(chain')
  BY <1>1, <1>3, <1>4
<1>7. Sound(lapses) /\ "stale" \notin lapses =>
        \A t \in In(chain') : Involved(t) => t \in inMainChain'
  BY <1>1, <1>3, <1>4, <1>5
<1> QED BY <1>1, <1>2, <1>4, <1>6, <1>7 DEF DInv

\* A reorganization that is given up is recorded.
LEMMA AbortDInv == ASSUME DInv, Abort PROVE DInv'
<1>1. /\ job.active /\ job' = NoJob /\ UNCHANGED <<chain, mapWallet, inMainChain>>
      /\ lapses' = lapses \cup {"abort"} \cup (IF job.off = {} THEN {} ELSE {"stale"})
  BY DEF Abort
<1>2. job'.active = FALSE /\ job'.off = {}
  BY <1>1 DEF NoJob
<1>3. /\ inMainChain \subseteq mapWallet \cap In(chain)
      /\ Sound(lapses) /\ "stale" \notin lapses =>
           \A t \in In(chain) \ job.off : Involved(t) => t \in inMainChain
  BY DEF DInv
<1>4. Sound(lapses') /\ "stale" \notin lapses' => Sound(lapses) /\ "stale" \notin lapses /\ job.off = {}
  BY <1>1 DEF Sound
<1>5. In(chain)' = In(chain)
  BY <1>1
<1>6. Sound(lapses') /\ "stale" \notin lapses' =>
        \A t \in In(chain) : Involved(t) => t \in inMainChain
  BY <1>3, <1>4
<1> QED BY <1>1, <1>2, <1>3, <1>5, <1>6 DEF DInv

\* What leaves the chain and the depths alone and takes no transaction of the
\* chain that the wallet knows the depth of.
LEMMA KeepDInv ==
  ASSUME DInv, UNCHANGED <<chain, inMainChain, job>>, inMainChain \subseteq mapWallet',
         Sound(lapses') /\ "stale" \notin lapses' => Sound(lapses) /\ "stale" \notin lapses
  PROVE  DInv'
<1>1. In(chain)' = In(chain) /\ In(job.target)' = In(job.target)
  OBVIOUS
<1> QED BY <1>1 DEF DInv

\* A repair erases nothing that it finds a depth for.
LEMMA RemovedUnknown == ASSUME DInv PROVE inMainChain \cap Removed = {}
  BY DEF DInv, Removed, Conflicted

\* Start-up gives a depth to what is scanned or was not in the wallet.
LEMMA RestartDInv == ASSUME WInv, DInv, WInv', NEW n \in Nat, Restart(n) PROVE DInv'
<1> DEFINE last == SubSeq(chain, Len(chain) + 1 - n, Len(chain))
           w == Reaccepted(Scanned(Wallet, last, TRUE))
<1>1. /\ Idle /\ n <= Len(chain) /\ SetWallet(w) /\ UNCHANGED <<chain, job>>
      /\ inMainChain' = (inMainChain \cup In(last) \cup (In(chain) \ mapWallet)) \cap w.txs
      /\ lapses' = IF n = Len(chain) THEN lapses \ {"race", "erased", "stale"} ELSE lapses
  BY DEF Restart
<1>2. mapWallet' = w.txs /\ Wallet'.txs = mapWallet' /\ chain \in Seq(Tx)
  BY <1>1 DEF SetWallet, WInv, Types, Wallet
<1>3. In(last) \subseteq In(chain) /\ (n = Len(chain) => last = chain)
  <2>1. CASE n = 0
    BY <1>2, <2>1 DEF In, Range
  <2>2. CASE n # 0
    <3>1. Len(chain) + 1 - n \in 1 .. Len(chain)
      BY <1>1, <1>2, <2>2
    <3> QED BY <1>2, <2>2, <3>1 DEF In, Range
  <2> QED BY <2>1, <2>2
<1> HIDE DEF last, w
<1>4. Sound(lapses') => \A t \in In(chain) : Involved(t) => t \in mapWallet'
  <2>1. In(chain) = Upto(chain, Len(chain))
    BY <1>2, ChainIsUpto
  <2>2. Sound(lapses') => Complete(Wallet', Upto(chain, Len(chain)))
    BY <1>1 DEF WInv
  <2> QED BY <1>2, <2>1, <2>2 DEF Complete
<1>5. /\ inMainChain \subseteq mapWallet \cap In(chain) /\ job.off = {} /\ ~job.active
      /\ Sound(lapses) /\ "stale" \notin lapses =>
           \A t \in In(chain) \ job.off : Involved(t) => t \in inMainChain
  BY <1>1 DEF DInv, Idle
<1>6. inMainChain' \subseteq mapWallet' \cap In(chain)
  BY <1>1, <1>2, <1>3, <1>5
<1>7. Sound(lapses') /\ "stale" \notin lapses' =>
        \A t \in In(chain) : Involved(t) => t \in inMainChain'
  <2>1. CASE n = Len(chain)
    BY <1>1, <1>2, <1>3, <1>4, <2>1
  <2>2. CASE n # Len(chain)
    BY <1>1, <1>2, <1>4, <1>5, <2>2
  <2> QED BY <2>1, <2>2
<1>8. In(chain)' = In(chain)
  BY <1>1
<1> QED BY <1>1, <1>5, <1>6, <1>7, <1>8 DEF DInv

\* Every step keeps the depths right.
LEMMA StepDInv == WInv /\ DInv /\ WInv' /\ [Next]_vars => DInv'
<1> SUFFICES ASSUME WInv, DInv, WInv', [Next]_vars PROVE DInv'
  OBVIOUS
<1>0. inMainChain \subseteq mapWallet /\ Wallet \in Wallets /\ Wallet.txs = mapWallet
  BY WalletType DEF DInv, WInv, Wallet
<1>1. ASSUME NEW n \in 0 .. MaxFork, NEW k \in 1 .. MaxFork, NEW s \in [1 .. k -> Tx], SetBestChain(n, s)
      PROVE  DInv'
  <2>1. n \in Nat /\ k \in Nat
    OBVIOUS
  <2> QED BY <1>1, <2>1, StartDInv
<1>2. CASE ConnectNext
  BY <1>2, ConnectDInv
<1>3. CASE Commit
  BY <1>3, CommitDInv
<1>4. CASE Abort
  BY <1>4, AbortDInv
<1>5. ASSUME NEW t \in Tx, NEW x \in {AddToWallet(Wallet, t, FALSE), AddToWalletIfInvolvingMe(Wallet, t, FALSE)},
             SetWallet(x), UNCHANGED <<chain, inMainChain, job, lapses>>
      PROVE  DInv'
  <2>1. Wallet.txs \subseteq x.txs /\ mapWallet' = x.txs
    BY <1>0, <1>5, AddType DEF SetWallet
  <2> QED BY <1>0, <1>5, <2>1, KeepDInv
<1>6. ASSUME NEW t \in Tx, ReceiveTx(t) PROVE DInv'
  BY <1>5, <1>6 DEF ReceiveTx
<1>7. ASSUME NEW t \in Tx, SendMoney(t) PROVE DInv'
  BY <1>5, <1>7 DEF SendMoney
<1>8. ASSUME NEW t \in Tx, NEW u \in Tx, ReceiveParent(t, u) PROVE DInv'
  BY <1>5, <1>8 DEF ReceiveParent
<1>9. CASE CheckWallet
  <2>1. /\ UNCHANGED <<chain, inMainChain, job, mapWallet>>
        /\ lapses' = IF Idle THEN lapses ELSE lapses \cup {"race"}
    BY <1>9 DEF CheckWallet
  <2>2. Sound(lapses') /\ "stale" \notin lapses' => Sound(lapses) /\ "stale" \notin lapses
    BY <2>1 DEF Sound
  <2> QED BY <1>0, <2>1, <2>2, KeepDInv
<1>10. CASE RepairWallet
  <2>1. /\ UNCHANGED <<chain, inMainChain, job>> /\ mapWallet' = mapWallet \ Removed
        /\ lapses' = IF Idle THEN Repaired ELSE lapses \cup {"race"}
    BY <1>10 DEF RepairWallet
  <2>2. Sound(lapses') /\ "stale" \notin lapses' => Sound(lapses) /\ "stale" \notin lapses
    BY <2>1 DEF Sound, Repaired
  <2> QED BY <1>0, <2>1, <2>2, RemovedUnknown, KeepDInv
<1>11. ASSUME NEW n \in 0 .. MaxHeight, Restart(n) PROVE DInv'
  <2>1. n \in Nat
    OBVIOUS
  <2> QED BY <1>11, <2>1, RestartDInv
<1>12. CASE UNCHANGED vars
  BY <1>0, <1>12, KeepDInv DEF vars
<1> QED
  BY <1>1, <1>2, <1>3, <1>4, <1>6, <1>7, <1>8, <1>9, <1>10, <1>11, <1>12 DEF Next

\* An empty chain has no depths.
LEMMA InitDInv == Init => DInv
<1> SUFFICES ASSUME Init PROVE DInv
  OBVIOUS
<1>1. job.active = FALSE /\ job.off = {} /\ chain = << >> /\ mapWallet = {} /\ inMainChain = {}
  BY DEF Init, NoJob
<1>2. In(chain) = {}
  BY <1>1 DEF In, Range
<1> QED BY <1>1, <1>2 DEF DInv

\* Both invariants hold in every behaviour.
LEMMA DepthInvariant == Spec => [](WInv /\ DInv)
  BY InitDInv, StepDInv, WalletInvariant, PTL DEF Spec

-----------------------------------------------------------------------------
(* The theorems                                                             *)

\* Whatever is reorganized, given up or repaired, between two blocks the wallet
\* has every transaction of the chain that involves it, and its depth, up to the
\* lapses that only a full rescan makes good.
THEOREM WalletHasAll == Spec => []WalletComplete
<1>1. ASSUME WInv, Idle, Sound(lapses) PROVE Complete(Wallet, In(chain))
  BY <1>1, ChainIsUpto DEF WInv, Types
<1>2. Wallet.txs = mapWallet
  BY DEF Wallet
<1>3. ASSUME WInv, DInv, Idle, Sound(lapses), NEW t \in In(chain), Involved(t)
      PROVE  t \in mapWallet /\ ("stale" \notin lapses => t \in inMainChain)
  <2>1. t \in mapWallet
    BY <1>1, <1>2, <1>3 DEF Complete
  <2>2. job.off = {}
    BY <1>3 DEF DInv, Idle
  <2> QED BY <1>3, <2>1, <2>2 DEF DInv
<1>4. WInv /\ DInv => WalletComplete
  BY <1>3 DEF WalletComplete, Involved, Sound
<1> QED BY <1>4, DepthInvariant, PTL

\* The wallet offers no coin that the chain has spent.
THEOREM OffersUnspent == Spec => []OfferedUnspent
<1>1. ASSUME WInv, DInv, Idle, lapses \subseteq {"stale"}, NEW o \in Offered
      PROVE  o \in UnspentIn(chain)
  <2> DEFINE U == Upto(chain, Len(chain))
  <2>1. In(chain) = U /\ Flagged(Wallet, U) /\ Wallet.spent = vfSpent
    BY <1>1, ChainIsUpto DEF WInv, Types, Told, Wallet
  <2>2. o \in Mine /\ o[1] \in In(chain) /\ o \notin vfSpent
    BY <1>1 DEF Offered, DInv
  <2>3. o \in Vout(o[1])
    BY <2>2, CoinFacts
  <2>4. o \notin SpentIn(chain)
    BY <2>1, <2>2 DEF Flagged, SpentIn
  <2> QED BY <2>2, <2>3, <2>4 DEF UnspentIn
<1>2. WInv /\ DInv => OfferedUnspent
  BY <1>1 DEF OfferedUnspent
<1> QED BY <1>2, DepthInvariant, PTL

\* No coin stays marked spent without a payment in the wallet that spends it.
THEOREM CoinsAreKept == Spec => []NoCoinLost
<1>1. ASSUME WInv, Idle, lapses \subseteq {"stale"}, NEW o \in vfSpent \cap UnspentIn(chain)
      PROVE  \E t \in mapWallet \ Generated : o \in Vin[t]
  <2> DEFINE U == Upto(chain, Len(chain))
  <2>1. /\ In(chain) = U /\ Freed(Wallet, U, U)
        /\ Wallet.spent = vfSpent /\ Wallet.txs = mapWallet
    BY <1>1, ChainIsUpto DEF WInv, Types, Told, Wallet
  <2>2. PICK u \in In(chain) : o \in Vout(u)
    BY DEF UnspentIn
  <2>3. o[1] \in U
    BY <2>1, <2>2, OutputNames
  <2>4. \A t \in U : o \notin Vin[t]
    BY <2>1 DEF UnspentIn, SpentIn
  <2> QED BY <2>1, <2>3, <2>4 DEF Freed
<1>2. WInv => NoCoinLost
  BY <1>1 DEF NoCoinLost
<1> QED BY <1>2, WalletInvariant, PTL

\* A repair between two blocks makes the offer exact, whatever was lost or given
\* up before it, but for the coins that have lost their depth.
THEOREM RepairIsExact == Spec => RepairRestores
<1> DEFINE Clean == lapses \cap {"race", "erased"} = {}
           Right == (Offered = {o \in UnspentIn(chain) \cap Mine :
                                  Ripe(o[1]) /\ ("stale" \in lapses => o[1] \in inMainChain)})'
<1>1. WInv /\ DInv /\ [Next]_vars => [RepairWallet /\ Idle /\ Clean => Right]_vars
  <2> SUFFICES ASSUME WInv, DInv, RepairWallet, Idle, Clean PROVE Right
    OBVIOUS
  <2>1. /\ mapWallet' = mapWallet \ Removed /\ UNCHANGED <<chain, inMainChain>>
        /\ \A o \in Mine : o[1] \in mapWallet' \cap In(chain) =>
                             (o \in vfSpent' <=> o \in SpentIn(chain))
    BY RepairFields
  <2>2. "stale" \in lapses' <=> "stale" \in lapses
    BY DEF RepairWallet, Repaired
  <2>3. inMainChain \subseteq mapWallet' \cap In(chain)
    BY <2>1, RemovedUnknown DEF DInv
  <2>4. ASSUME NEW o \in Mine, o[1] \in In(chain), "stale" \notin lapses PROVE o[1] \in inMainChain
    <3>1. job.off = {} /\ Sound(lapses)
      BY DEF DInv, Idle, Sound
    <3> QED BY <2>4, <3>1, CoinFacts DEF DInv
  <2>5. ASSUME NEW o \in Mine
        PROVE  o \in UnspentIn(chain) <=> o[1] \in In(chain) /\ o \notin SpentIn(chain)
    <3>1. o \in Vout(o[1])
      BY CoinFacts
    <3>2. ASSUME NEW u \in In(chain), o \in Vout(u) PROVE o[1] = u
      BY <3>2, OutputNames
    <3> QED BY <3>1, <3>2 DEF UnspentIn
  <2>6. ASSUME NEW o \in Mine
        PROVE  (o[1] \in inMainChain /\ o \notin vfSpent')
                 <=> (o \in UnspentIn(chain) /\ ("stale" \in lapses => o[1] \in inMainChain))
    BY <2>1, <2>3, <2>4, <2>5
  <2>7. Offered' = {o \in Mine : o[1] \in inMainChain /\ Ripe(o[1])' /\ o \notin vfSpent'}
    BY <2>1 DEF Offered
  <2>8. UnspentIn(chain)' = UnspentIn(chain)
    BY <2>1 DEF In, UnspentIn, SpentIn
  <2>9. Offered' = {o \in UnspentIn(chain) \cap Mine :
                      Ripe(o[1])' /\ ("stale" \in lapses => o[1] \in inMainChain)}
    BY <2>6, <2>7
  <2> QED BY <2>1, <2>2, <2>8, <2>9
<1> HIDE DEF Right, Clean
<1>2. Spec => [][RepairWallet /\ Idle /\ Clean => Right]_vars
  BY <1>1, DepthInvariant, PTL DEF Spec
<1> QED BY <1>2, PTL DEF RepairRestores, Right, Clean

=============================================================================
