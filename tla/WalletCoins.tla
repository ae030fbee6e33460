----------------------------- MODULE WalletCoins -----------------------------
(***************************************************************************)
(* The transactions of CWallet and the spent flags of their outputs, as    *)
(* the memory pool, the main chain and the user change them.               *)
(*                                                                         *)
(* The wallet learns of a transaction when the pool accepts it and when    *)
(* its block is connected, and of a disconnected block only for a          *)
(* coinstake.  SetBestChain tells the wallets block by block, before it    *)
(* commits the transaction index, with cs_main held throughout; everything *)
(* that takes cs_main waits, the repair started from the user interface    *)
(* takes cs_wallet only.  A block holds one transaction of the model.      *)
(***************************************************************************)
EXTENDS Integers, Sequences, FiniteSets, SequencesExt

CONSTANTS
  Tx,            \* hashes of the transactions of the model
  Vin,           \* outpoints a transaction spends, [Tx -> SUBSET OutPoint]
  NOut,          \* vout.size(), [Tx -> Nat]
  Mine,          \* outpoints whose scripts pay to a key of the wallet
  CoinBase,      \* the coinbase transactions
  CoinStake,     \* the coinstake transactions
  Maturity,      \* depth at which a generated coin can be spent
  Margin,        \* further depth at which the wallet offers it
  MaxHeight,     \* bound on the length of the main chain
  MaxFork        \* bound on the blocks a reorganization disconnects and connects

OutPoint  == UNION {{t} \X (1 .. NOut[t]) : t \in Tx}
Generated == CoinBase \cup CoinStake

ASSUME WalletAssumption ==
  /\ NOut \in [Tx -> Nat] /\ Vin \in [Tx -> SUBSET OutPoint]
  /\ Mine \subseteq OutPoint
  /\ CoinBase \subseteq Tx /\ CoinStake \subseteq Tx /\ CoinBase \cap CoinStake = {}
  /\ \A t \in Tx : Vin[t] = {} <=> t \in CoinBase
  /\ Maturity \in Nat /\ Margin \in Nat /\ MaxHeight \in Nat /\ MaxFork \in Nat

VARIABLES
  chain,      \* the committed main chain, as a sequence of transactions
  pool,       \* the transactions of the memory pool
  mapWallet,  \* the transactions of the wallet
  vfSpent,    \* the outpoints of wallet transactions that are marked spent
  inMainChain,\* the wallet transactions whose hashBlock is in the main chain
  job,        \* the SetBestChain that is under way: the blocks still to do, all
              \* disconnected and connected transactions, the chain it leads to
  lapses      \* history: "abort", a connection failed after the wallets were told
              \* and no repair has followed; and, until a full rescan, "stale", a
              \* reorganization failed, "erased", a repair removed a transaction of
              \* the chain, "race", the wallet was checked or repaired during a
              \* connection

vars == <<chain, pool, mapWallet, vfSpent, inMainChain, job, lapses>>

NoJob == [active |-> FALSE, todo |-> << >>, off |-> {}, on |-> {}, target |-> << >>]

-----------------------------------------------------------------------------
(* The chain and the pool                                                   *)

Vout(t)       == {t} \X (1 .. NOut[t])
In(c)         == Range(c)
SpentIn(c)    == UNION {Vin[t] : t \in In(c)}
UnspentIn(c)  == (UNION {Vout(t) : t \in In(c)}) \ SpentIn(c)

\* GetDepthInMainChain of a transaction in the chain c.
Depth(c, t) == Len(c) + 1 - (CHOOSE i \in DOMAIN c : c[i] = t)

Mature(c, t) == t \in Generated => t \in In(c) /\ Depth(c, t) >= Maturity

\* A block with transaction t can follow the chain c.
Extends(c, t) ==
  /\ t \notin In(c)
  /\ \A o \in Vin[t] : o \in UnspentIn(c) /\ Mature(c, o[1])

\* CTxMemPool::accept with a pool p; it counts the depth of a generated coin from
\* the last block and not from the next.
Acceptable(t, p) ==
  /\ t \notin Generated /\ t \notin p /\ t \notin In(chain)
  /\ \A u \in p : Vin[t] \cap Vin[u] = {}
  /\ \A o \in Vin[t] : IF o[1] \in In(chain)
                       THEN o \in UnspentIn(chain) /\ Mature(Front(chain), o[1])
                       ELSE o[1] \in p

\* T and what spends, directly or not, its outputs within the pool p.
WithDescendants(T, p) ==
  {t \in p : \A S \in SUBSET p :
     T \cap p \subseteq S /\ (\A u \in p : (\E o \in Vin[u] : o[1] \in S \cup T) => u \in S)
       => t \in S}

\* The pool after a reorganization that disconnects the transactions D and
\* connects C: accept without a check of the inputs, remove, removeConflicts.
Reorganized(p, D, C) ==
  LET back == {t \in D \ Generated : t \notin p /\ \A u \in p : Vin[t] \cap Vin[u] = {}}
      q    == (p \cup back) \ C
      dead == {u \in q : \E t \in C : Vin[u] \cap Vin[t] # {}}
  IN  q \ WithDescendants(dead, q)

-----------------------------------------------------------------------------
(* The wallet as a value w: its transactions txs and the spent outpoints    *)

Wallet == [txs |-> mapWallet, spent |-> vfSpent]

SetWallet(w) == mapWallet' = w.txs /\ vfSpent' = w.spent

\* The inputs of t that the wallet knows as its own.
OwnInputs(w, t) == {o \in Vin[t] \cap Mine : o[1] \in w.txs}
IsFromMe(w, t)  == OwnInputs(w, t) # {}
IsMine(t)       == Vout(t) \cap Mine # {}

\* WalletUpdateSpent: the own inputs of t are spent; with fBlock, all own
\* outputs of t become unspent.
WalletUpdateSpent(w, t, fBlock) ==
  (w.spent \cup OwnInputs(w, t)) \ (IF fBlock THEN Vout(t) \cap Mine ELSE {})

\* A transaction the wallet has already changes nothing.
MutAddToWallet(w, t, fBlock) ==
  LET v == [w EXCEPT !.txs = @ \cup {t}]
  IN  IF t \in w.txs THEN w ELSE [v EXCEPT !.spent = WalletUpdateSpent(v, t, fBlock)]

AddToWallet(w, t, fBlock) ==
  LET v == [w EXCEPT !.txs = @ \cup {t}]
  IN  [v EXCEPT !.spent = WalletUpdateSpent(v, t, fBlock)]

\* Only payments to the wallet are added.
MutAddToWalletIfInvolvingMe(w, t, fBlock) ==
  IF t \in w.txs \/ IsMine(t) THEN AddToWallet(w, t, fBlock) ELSE w

\* Without an own input there is no flag for WalletUpdateSpent to set.
AddToWalletIfInvolvingMe(w, t, fBlock) ==
  IF t \in w.txs \/ IsMine(t) \/ IsFromMe(w, t) THEN AddToWallet(w, t, fBlock) ELSE w

\* The inputs stay spent.
MutDisableTransaction(w, t) == w

\* SyncWithWallets with fConnect false.
DisableTransaction(w, t) ==
  IF t \in CoinStake THEN [w EXCEPT !.spent = @ \ OwnInputs(w, t)] ELSE w

\* GetBlocksToMaturity is 0.
Ripe(t) == t \in Generated => Depth(chain, t) >= Maturity + Margin

\* Depth of at least 1 and not spent: AvailableCoins with fOnlyConfirmed.  The
\* depth is that of the block hashBlock names, if it is in the main chain.
Offered ==
  {o \in Mine : /\ o[1] \in inMainChain
                /\ Ripe(o[1])
                /\ o \notin vfSpent}

-----------------------------------------------------------------------------
(* The main chain                                                           *)

Idle == ~job.active

Init ==
  /\ chain = << >>
  /\ pool = {}
  /\ mapWallet = {} /\ vfSpent = {} /\ inMainChain = {}
  /\ job = NoJob
  /\ lapses = {}

\* SetBestChain begins to replace the last n blocks by blocks with the
\* transactions of s.
SetBestChain(n, s) ==
  LET kept   == SubSeq(chain, 1, Len(chain) - n)
      target == kept \o s
  IN  /\ Idle
      /\ n <= Len(chain) /\ (n = 0 => Len(s) = 1) /\ Len(target) <= MaxHeight
      /\ \A i \in DOMAIN s : Extends(kept \o SubSeq(s, 1, i - 1), s[i])
      /\ job' = [active |-> TRUE, target |-> target, on |-> In(s),
                 off  |-> In(chain) \ In(kept),
                 todo |-> [i \in 1 .. n |-> [op |-> "disconnect", tx |-> chain[Len(chain) + 1 - i]]]
                          \o [i \in DOMAIN s |-> [op |-> "connect", tx |-> s[i]]]]
      /\ UNCHANGED <<chain, pool, mapWallet, vfSpent, inMainChain, lapses>>

\* DisconnectBlock or ConnectBlock, which call SyncWithWallets.  AddToWallet sets
\* hashBlock to the block, which is not yet in the main chain.
ConnectNext ==
  /\ job.active /\ job.todo # << >>
  /\ job' = [job EXCEPT !.todo = Tail(@)]
  /\ SetWallet(IF Head(job.todo).op = "disconnect"
               THEN DisableTransaction(Wallet, Head(job.todo).tx)
               ELSE AddToWalletIfInvolvingMe(Wallet, Head(job.todo).tx, TRUE))
  /\ inMainChain' = IF Head(job.todo).op = "disconnect" THEN inMainChain
                    ELSE inMainChain \ {Head(job.todo).tx}
  /\ UNCHANGED <<chain, pool, lapses>>

\* The index is committed and the pool brought up to date; a chain that only
\* grows by a block takes nothing but that block's transaction from the pool.
Commit ==
  /\ job.active /\ job.todo = << >>
  /\ chain' = job.target
  /\ pool' = IF job.off = {} THEN pool \ job.on ELSE Reorganized(pool, job.off, job.on)
  /\ inMainChain' = (inMainChain \ job.off) \cup (job.on \cap mapWallet)
  /\ job' = NoJob
  /\ UNCHANGED <<mapWallet, vfSpent, lapses>>

\* ConnectBlock or a write fails and TxnAbort gives the index up; the wallets
\* are not told, and hashBlock stays on the branch that was given up.
Abort ==
  /\ job.active
  /\ job' = NoJob
  /\ lapses' = lapses \cup {"abort"} \cup (IF job.off = {} THEN {} ELSE {"stale"})
  /\ UNCHANGED <<chain, pool, mapWallet, vfSpent, inMainChain>>

-----------------------------------------------------------------------------
(* Transactions                                                             *)

\* A tx message or sendrawtransaction.
ReceiveTx(t) ==
  /\ Idle /\ Acceptable(t, pool)
  /\ pool' = pool \cup {t}
  /\ SetWallet(AddToWalletIfInvolvingMe(Wallet, t, FALSE))
  /\ UNCHANGED <<chain, inMainChain, job, lapses>>

\* A tx message with t, for which the orphan u has been waiting: for the orphan
\* too SyncWithWallets is called with t.
ReceiveParent(t, u) ==
  /\ Idle
  /\ Acceptable(t, pool) /\ Acceptable(u, pool \cup {t})
  /\ \E o \in Vin[u] : o[1] = t
  /\ pool' = pool \cup {t, u}
  /\ SetWallet(AddToWalletIfInvolvingMe(Wallet, t, FALSE))
  /\ UNCHANGED <<chain, inMainChain, job, lapses>>

\* CreateTransaction and CommitTransaction: t spends coins on offer; it stays in
\* the wallet even if the pool refuses it.
SendMoney(t) ==
  /\ Idle
  /\ t \notin Generated /\ t \notin mapWallet
  /\ Vin[t] \subseteq Offered
  /\ pool' = IF Acceptable(t, pool) THEN pool \cup {t} ELSE pool
  /\ SetWallet(AddToWallet(Wallet, t, FALSE))
  /\ UNCHANGED <<chain, inMainChain, job, lapses>>

-----------------------------------------------------------------------------
(* FixSpentCoins                                                            *)

Conflicted == {t \in mapWallet \ Generated : t \notin In(chain) /\ t \notin pool}

\* Inputs of conflicted payments of the wallet that the chain has as unspent.
Restored ==
  {o \in vfSpent \cap UnspentIn(chain) :
     \E t \in Conflicted : o \in OwnInputs(Wallet, t)}

\* The restored inputs are written in either case.
CheckWallet ==
  /\ lapses' = IF Idle THEN lapses ELSE lapses \cup {"race"}
  /\ vfSpent' = vfSpent \ Restored
  /\ UNCHANGED <<chain, pool, mapWallet, inMainChain, job>>

\* Conflicted transactions, and generations without a depth in the main chain.
Removed ==
  {t \in Conflicted : IsFromMe(Wallet, t) \/ IsMine(t)}
    \cup {t \in mapWallet \cap Generated : t \notin inMainChain}

Repaired == (lapses \ {"abort"}) \cup (IF Removed \cap In(chain) = {} THEN {} ELSE {"erased"})

\* The flags stay as they are.
MutRepairWallet ==
  /\ lapses' = IF Idle THEN Repaired ELSE lapses \cup {"race"}
  /\ mapWallet' = mapWallet \ Removed
  /\ UNCHANGED <<chain, pool, vfSpent, inMainChain, job>>

\* Outputs of transactions in the chain get the flags of the transaction index.
RepairWallet ==
  /\ lapses' = IF Idle THEN Repaired ELSE lapses \cup {"race"}
  /\ mapWallet' = mapWallet \ Removed
  /\ vfSpent' = {o \in vfSpent : o[1] \in mapWallet' \ In(chain)}
                  \cup {o \in SpentIn(chain) \cap Mine : o[1] \in mapWallet' \cap In(chain)}
  /\ UNCHANGED <<chain, pool, inMainChain, job>>

-----------------------------------------------------------------------------

\* AddToWalletIfInvolvingMe for a transaction in a block; without fUpdate, a
\* transaction the wallet has is left alone.
ScanTx(w, t, fUpdate) ==
  IF t \in w.txs /\ ~fUpdate THEN w ELSE AddToWalletIfInvolvingMe(w, t, TRUE)

\* ScanForWalletTransactions over the blocks c.
Scanned(w, c, fUpdate) ==
  LET v[i \in 0 .. Len(c)] == IF i = 0 THEN w ELSE ScanTx(v[i - 1], c[i], fUpdate)
  IN  v[Len(c)]

\* ReacceptWalletTransactions passes over a generation whose reward is spent.
Skipped(w, t) == IF t \in CoinBase THEN <<t, 1>> \in w.spent
                                   ELSE t \in CoinStake /\ <<t, 2>> \in w.spent

\* Own outputs that the transaction index has as spent are marked.
Marked(w) ==
  [w EXCEPT !.spent = @ \cup {o \in SpentIn(chain) \cap Mine : o[1] \in w.txs /\ ~Skipped(w, o[1])}]

\* If that found one, a spender may be missing and the chain is scanned.
Reaccepted(w) ==
  IF Marked(w) = w THEN w ELSE Marked(Scanned(Marked(w), chain, FALSE))

\* The pool is lost.  The last n blocks are scanned: all with -rescan, otherwise
\* those after the locator of the wallet file.  A scanned transaction that is
\* added or updated has its hashBlock in the main chain.
\* ReacceptWalletTransactions puts back what it can, parents (vtxPrev) first.
Restart(n) ==
  LET last == SubSeq(chain, Len(chain) + 1 - n, Len(chain))
      w == Reaccepted(Scanned(Wallet, last, TRUE))
      candidates == {t \in w.txs \ Generated : t \notin In(chain)}
  IN  /\ Idle /\ n <= Len(chain)
      /\ \E P \in SUBSET candidates :
           /\ \A t \in P : Acceptable(t, P \ {t})
           /\ \A t \in candidates \ P : ~Acceptable(t, P)
           /\ pool' = P
      /\ SetWallet(w)
      /\ inMainChain' = (inMainChain \cup In(last) \cup (In(chain) \ mapWallet)) \cap w.txs
      /\ lapses' = IF n = Len(chain) THEN lapses \ {"race", "erased", "stale"} ELSE lapses
      /\ UNCHANGED <<chain, job>>

Next ==
  \/ \E n \in 0 .. MaxFork, k \in 1 .. MaxFork : \E s \in [1 .. k -> Tx] : SetBestChain(n, s)
  \/ ConnectNext \/ Commit \/ Abort
  \/ \E t \in Tx : ReceiveTx(t) \/ SendMoney(t) \/ \E u \in Tx : ReceiveParent(t, u)
  \/ CheckWallet \/ RepairWallet
  \/ \E n \in 0 .. MaxHeight : Restart(n)

Spec == Init /\ [][Next]_vars

-----------------------------------------------------------------------------
(* Properties                                                               *)

\* The coins that listunspent shows and CreateTransaction selects are unspent in
\* the main chain, whatever was reorganized, rescanned or repaired before,
\* unless the wallet was told of blocks that were then given up, or was changed
\* while blocks were being connected, and has not been put right since.
OfferedUnspent == Idle /\ lapses \subseteq {"stale"} => Offered \subseteq UnspentIn(chain)

\* A coin that the chain has as unspent and the wallet as spent has a transaction
\* in the wallet that spends it and may still confirm or be repaired; a stake
\* that was lost to a reorganization frees its coin.
NoCoinLost ==
  Idle /\ lapses \subseteq {"stale"} =>
    \A o \in vfSpent \cap UnspentIn(chain) : \E t \in mapWallet \ Generated : o \in Vin[t]

\* Every transaction of the chain that pays to the wallet or spends a coin of it
\* is in the wallet, also after connections that failed, and if none of these
\* was a reorganization the wallet knows its depth.  A full rescan brings back
\* the transactions that a repair has removed during a connection, or because a
\* failed reorganization has left them without a depth, and the depths.
WalletComplete ==
  Idle /\ lapses \cap {"race", "erased"} = {} =>
    \A t \in In(chain) : IsMine(t) \/ Vin[t] \cap Mine # {} =>
      t \in mapWallet /\ ("stale" \notin lapses => t \in inMainChain)

\* A repair leaves the wallet with exactly the coins on offer that the chain has
\* as unspent, mature and paid to it, whatever was lost, given up or spent in
\* vain before; but after a failed reorganization not those whose hashBlock was
\* left on the branch that was given up.
RepairRestores ==
  [][RepairWallet /\ Idle /\ lapses \cap {"race", "erased"} = {} =>
       (Offered = {o \in UnspentIn(chain) \cap Mine :
                     Ripe(o[1]) /\ ("stale" \in lapses => o[1] \in inMainChain)})']_vars

=============================================================================
