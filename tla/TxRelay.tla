------------------------------- MODULE TxRelay -------------------------------
(***************************************************************************)
(* How one node takes in single transactions and passes them on: the "tx"  *)
(* handler of ProcessMessage with the orphan transactions, the Dandelion   *)
(* router, RelayTransaction, the relay of wallet transactions, the embargo *)
(* loop of ThreadMessageHandler, and the two ways back into the mempool    *)
(* that relay nothing: a reorganization, and a restart of the node.        *)
(*                                                                         *)
(* The handler and the wallet exclude each other by cs_main and cs_wallet; *)
(* the embargo loop holds neither, runs in the thread of the handler, and  *)
(* interleaves with the locked steps of a wallet relay.                    *)
(***************************************************************************)
EXTENDS Integers, FiniteSets, Sequences

CONSTANTS
  Tx,                 \* transactions
  NoTx,               \* no transaction is being relayed by the wallet
  Parents,            \* transactions whose outputs a transaction spends
  Good,               \* transactions that accept takes once their inputs are known
  Local,              \* transactions made by this node's wallet
  Mine,               \* transactions AddToWalletIfInvolvingMe takes
  Submitted,          \* transactions of others handed in by sendrawtransaction
  Mined,              \* transactions that get into blocks
  Peer,               \* addresses a CNode can have
  StemPeers,          \* DANDELION_STEM_PEERS
  EmbargoTicks,       \* DANDELION_EMBARGO_SECONDS
  EpochTicks,         \* DANDELION_EPOCH_SECONDS
  MaxOrphans          \* MAX_ORPHAN_TRANSACTIONS

ASSUME RelayAssumption ==
  /\ NoTx \notin Tx
  /\ IsFiniteSet(Tx)
  /\ Parents \in [Tx -> SUBSET Tx]
  /\ Good \subseteq Tx
  /\ Local \subseteq Good \cap Mine
  /\ Mine \subseteq Tx
  /\ Submitted \subseteq Good \ Local
  /\ Mined \subseteq Good
  /\ StemPeers \in Nat \ {0}
  /\ EmbargoTicks \in Nat
  /\ EpochTicks \in Nat
  /\ MaxOrphans \in Nat

VARIABLES
  mapTx,                  \* the mempool
  confirmed,              \* transactions of the main chain
  mapOrphanTransactions,  \* transactions with missing inputs; with it
                          \* mapOrphanTransactionsByPrev, see Waiting
  mapWallet,              \* transactions in the wallet
  mapStemTxs,             \* transactions in the stem phase
  stemAge,                \* GetTime() - nTimeStemStart, up to EmbargoTicks
  setFluffedTxs,          \* transactions whose stem phase is over
  vStemPeers,             \* peers of this epoch; they may have gone since
  epochAge,               \* GetTime() - nEpochStart, up to EpochTicks
  relayOwn,               \* the wallet transaction being relayed
  vtxPrev,                \* its supporting transactions still to be relayed first
  relayTx, relayPc,       \* RelayTransaction for it or for one of them
  vEmbargoed,             \* what the embargo loop still has to do
  announced,              \* history: transactions announced to every peer since
                          \* they came into mapTx
  via                     \* history: how a transaction got into mapTx, see Via

routerVars == <<mapStemTxs, stemAge, setFluffedTxs, vStemPeers, epochAge>>
poolVars   == <<mapTx, confirmed, mapOrphanTransactions, mapWallet>>
relayVars  == <<relayOwn, vtxPrev, relayTx, relayPc>>
vars == <<routerVars, poolVars, relayVars, vEmbargoed, announced, via>>

\* "message": with a "tx" message; "submit": from this node, and relayed;
\* "back": put back without relay, and neither announced nor in the stem phase
\* since.
Via == {"message", "submit", "back"}

\* via after a step that puts T into mapTx in the way v.
Enter(T, v) ==
  via' = [t \in Tx |->
            LET now == IF t \in T THEN v ELSE via[t]
            IN  CASE t \notin mapTx' -> "message"
                  [] now = "back" /\ t \in announced' \cup mapStemTxs' -> "submit"
                  [] OTHER -> now]

Init ==
  /\ mapTx = {}
  /\ confirmed = {}
  /\ mapOrphanTransactions = {}
  /\ mapWallet = {}
  /\ mapStemTxs = {}
  /\ stemAge = [t \in Tx |-> 0]
  /\ setFluffedTxs = {}
  /\ vStemPeers = {}
  /\ epochAge = EpochTicks           \* nEpochStart = 0: rotate at the first use
  /\ relayOwn = NoTx
  /\ vtxPrev = {}
  /\ relayTx = NoTx
  /\ relayPc = "none"
  /\ vEmbargoed = {}
  /\ announced = {}
  /\ via = [t \in Tx |-> "message"]

-----------------------------------------------------------------------------
(* CDandelionRouter.  Every operation holds cs_dandelion.                   *)

\* Peers come and go all the time and only this looks at them: any set may be
\* the outbound peers of vNodes, and any StemPeers of them, or all, are taken.
SelectStemPeers ==
  \E S \in SUBSET Peer :
    /\ Cardinality(S) <= StemPeers
    /\ vStemPeers' = S

MaybeRotateEpoch ==
  IF epochAge = EpochTicks
  THEN SelectStemPeers /\ epochAge' = 0
  ELSE UNCHANGED <<vStemPeers, epochAge>>

\* AddLocalTx, AddStemTx: the transactions of T enter the stem phase unless
\* they are past it or in it.  The number of hops is 0 or 1 in all calls and
\* DANDELION_MAX_STEM_HOPS is never reached, so hops are left out.
EnterStem(T) ==
  LET new == T \ (setFluffedTxs \cup mapStemTxs)
  IN  /\ mapStemTxs' = mapStemTxs \cup new
      /\ stemAge' = [t \in Tx |-> IF t \in new THEN 0 ELSE stemAge[t]]

\* The transaction stays in mapStemTxs.
MutMarkFluffedKeep(T) ==
  /\ mapStemTxs' = mapStemTxs
  /\ setFluffedTxs' = setFluffedTxs \cup T
  /\ UNCHANGED stemAge

MarkFluffed(T) ==
  /\ mapStemTxs' = mapStemTxs \ T
  /\ stemAge' = [t \in Tx |-> IF t \in T THEN 0 ELSE stemAge[t]]
  /\ setFluffedTxs' = setFluffedTxs \cup T

IsStemPhase(t) == t \in mapStemTxs \ setFluffedTxs

-----------------------------------------------------------------------------
(* The "tx" message                                                         *)

Known == mapTx \cup confirmed

\* mapOrphanTransactionsByPrev[h]
Waiting(h) == {o \in mapOrphanTransactions : h \in Parents[o]}

\* Only the children of the new transaction itself are looked at.
MutAcceptedWithOne(t) ==
  {t} \cup {o \in Good : o \in Waiting(t) /\ o \notin Known /\ Parents[o] \subseteq Known \cup {t}}

\* t and the orphans that the work queue accepts after it: the least set that
\* holds t and every good orphan waiting for one of its members all of whose
\* inputs are then known.
AcceptedWith(t) ==
  LET closed(S) == \A o \in mapOrphanTransactions \cap Good :
                     /\ o \notin Known
                     /\ Parents[o] \subseteq Known \cup S
                     /\ Parents[o] \cap S # {}
                     => o \in S
  IN  {u \in {t} \cup mapOrphanTransactions :
         \A S \in SUBSET ({t} \cup mapOrphanTransactions) : t \in S /\ closed(S) => u \in S}

\* vEraseQueue: what was accepted, and the orphans that were tried with all
\* their inputs known and refused.
Erased(A) ==
  A \cup {o \in mapOrphanTransactions :
            /\ o \notin Good \/ o \in Known
            /\ Parents[o] \cap A # {}
            /\ Parents[o] \subseteq Known \cup A}

\* The stem phase or the fluff phase for each accepted transaction, and its
\* relay.  ShouldFluff answers yes when there are no stem peers, and by chance;
\* it does not rotate the epoch, AddStemTx and GetStemPeer do.
RelayAccepted(A) ==
  \E F \in SUBSET A :
    /\ vStemPeers = {} => F = A
    /\ IF F = A THEN UNCHANGED <<vStemPeers, epochAge>> ELSE MaybeRotateEpoch
    /\ LET stem == IF vStemPeers' = {} THEN {} ELSE A \ (F \cup setFluffedTxs)
           new  == stem \ mapStemTxs
       IN  /\ mapStemTxs' = (mapStemTxs \ (A \ stem)) \cup stem
           /\ stemAge' = [t \in Tx |-> IF t \in new \cup (A \ stem) THEN 0 ELSE stemAge[t]]
           /\ setFluffedTxs' = setFluffedTxs \cup (A \ stem)
           /\ announced' = announced \cup (A \ stem)

\* The wallet is given the transaction of the message again for each orphan, so
\* it does not hear of an orphan before it is in a block.
AcceptTx(t) ==
  /\ t \in Good
  /\ Parents[t] \subseteq Known
  /\ LET A == AcceptedWith(t)
     IN  /\ mapTx' = mapTx \cup A
         /\ mapOrphanTransactions' = mapOrphanTransactions \ Erased(A)
         /\ RelayAccepted(A)
         /\ Enter(A, "message")
  /\ mapWallet' = mapWallet \cup ({t} \cap Mine)

\* AddOrphanTx and LimitOrphanTxSize, which evicts any orphan, the new one too.
KeepOrphanTx(t) ==
  /\ ~(Parents[t] \subseteq Known)
  /\ t \notin mapOrphanTransactions
  /\ LET all == mapOrphanTransactions \cup {t}
     IN  IF Cardinality(all) <= MaxOrphans
         THEN mapOrphanTransactions' = all
         ELSE \E o \in all : mapOrphanTransactions' = all \ {o}
  /\ UNCHANGED <<mapTx, mapWallet, routerVars, announced, via>>

ReceiveTx(t) ==
  /\ relayPc = "none"
  /\ vEmbargoed = {}
  /\ t \notin Known
  /\ AcceptTx(t) \/ KeepOrphanTx(t)
  /\ UNCHANGED <<confirmed, relayVars, vEmbargoed>>

-----------------------------------------------------------------------------
(* Transactions of this node: CommitTransaction, ResendWalletTransactions,  *)
(* and sendrawtransaction                                                   *)

\* vtxPrev of a transaction: AddSupportingTransactions is called for the ones
\* the wallet makes.
Support(t) == IF t \in Local THEN Parents[t] ELSE {}

\* RelayWalletTransaction relays the supporting transactions that are not in a
\* block, then enters t into the stem phase and relays it.
RelayWalletTransaction(t) ==
  /\ relayPc = "none"
  /\ relayOwn' = t
  /\ vtxPrev' = Support(t) \ confirmed
  /\ relayPc' = "next"
  /\ UNCHANGED <<routerVars, confirmed, mapOrphanTransactions, relayTx,
                 vEmbargoed, announced>>

CommitTransaction(t) ==
  /\ t \in Local \ (Known \cup mapWallet)
  /\ Parents[t] \subseteq Known \cap mapWallet       \* the coins it spends
  /\ mapTx' = mapTx \cup {t}
  /\ mapWallet' = mapWallet \cup {t}
  /\ RelayWalletTransaction(t)
  /\ Enter({t}, "submit")

\* Whatever the wallet has and the chain has not, in the mempool or not.
ResendWalletTransaction(t) ==
  /\ t \in mapWallet \ confirmed
  /\ RelayWalletTransaction(t)
  /\ UNCHANGED <<mapTx, mapWallet, via>>

RelayPrevious ==
  /\ relayPc = "next"
  /\ \E h \in vtxPrev :
       /\ relayTx' = h
       /\ vtxPrev' = vtxPrev \ {h}
  /\ relayPc' = "phase"
  /\ UNCHANGED <<routerVars, poolVars, relayOwn, vEmbargoed, announced, via>>

AddLocalTx ==
  /\ relayPc = "next"
  /\ vtxPrev = {}
  /\ MaybeRotateEpoch
  /\ EnterStem({relayOwn})
  /\ relayTx' = relayOwn
  /\ relayPc' = "phase"
  /\ UNCHANGED <<setFluffedTxs, poolVars, relayOwn, vtxPrev, vEmbargoed, announced>>
  /\ Enter({}, "message")

\* RelayTransaction returns.
Relayed ==
  /\ relayTx' = NoTx
  /\ IF relayTx = relayOwn
     THEN relayPc' = "none" /\ relayOwn' = NoTx
     ELSE relayPc' = "next" /\ UNCHANGED relayOwn
  /\ UNCHANGED vtxPrev

\* RelayTransaction takes cs_dandelion once for IsStemPhase and once for
\* GetStemPeer.
RelayPhase ==
  /\ relayPc = "phase"
  /\ relayPc' = IF IsStemPhase(relayTx) THEN "peer" ELSE "all"
  /\ UNCHANGED <<routerVars, poolVars, relayOwn, vtxPrev, relayTx, vEmbargoed, announced,
                 via>>

\* Without a stem peer the transaction is dropped.
MutRelayToStemPeerDrop ==
  /\ relayPc = "peer"
  /\ MaybeRotateEpoch
  /\ IF vStemPeers' # {}
     THEN UNCHANGED <<mapStemTxs, stemAge, setFluffedTxs>>
     ELSE MarkFluffed({relayTx})
  /\ Relayed
  /\ UNCHANGED <<poolVars, vEmbargoed, announced, via>>

\* With a stem peer, connected or gone, the relay ends here; without one it
\* falls back to everybody.
RelayToStemPeer ==
  /\ relayPc = "peer"
  /\ MaybeRotateEpoch
  /\ IF vStemPeers' # {}
     THEN Relayed /\ UNCHANGED <<mapStemTxs, stemAge, setFluffedTxs>>
     ELSE /\ relayPc' = "all"
          /\ MarkFluffed({relayTx})
          /\ UNCHANGED <<relayOwn, vtxPrev, relayTx>>
  /\ UNCHANGED <<poolVars, vEmbargoed, announced, via>>

RelayToAll ==
  /\ relayPc = "all"
  /\ announced' = announced \cup ({relayTx} \cap mapTx)
  /\ Relayed
  /\ UNCHANGED <<routerVars, poolVars, vEmbargoed>>
  /\ Enter({}, "message")

\* A transaction of somebody else from sendrawtransaction, in the mempool
\* already or accepted now; no orphan is looked at and no stem phase entered.
\* Its RelayTransaction is one step: what the embargo loop does in the middle
\* comes to the same before or after it.
SendRawTransaction(t) ==
  /\ relayPc = "none"
  /\ t \in Submitted \ confirmed
  /\ t \notin mapTx => Parents[t] \subseteq Known
  /\ mapTx' = mapTx \cup {t}
  /\ mapWallet' = IF t \in mapTx THEN mapWallet ELSE mapWallet \cup ({t} \cap Mine)
  /\ IF IsStemPhase(t) THEN MaybeRotateEpoch ELSE UNCHANGED <<vStemPeers, epochAge>>
  /\ IF IsStemPhase(t) /\ vStemPeers' # {}
     THEN UNCHANGED <<mapStemTxs, stemAge, setFluffedTxs, announced>>
     ELSE /\ IF IsStemPhase(t) THEN MarkFluffed({t})
                               ELSE UNCHANGED <<mapStemTxs, stemAge, setFluffedTxs>>
          /\ announced' = announced \cup {t}
  /\ UNCHANGED <<confirmed, mapOrphanTransactions, relayVars, vEmbargoed>>
  /\ Enter({t} \ mapTx, "submit")

-----------------------------------------------------------------------------
(* The embargo loop of ThreadMessageHandler                                 *)

Expired == {t \in mapStemTxs : stemAge[t] >= EmbargoTicks}

GetEmbargoedTxs ==
  /\ vEmbargoed = {}
  /\ Expired # {}
  /\ vEmbargoed' = Expired
  /\ UNCHANGED <<routerVars, poolVars, relayVars, announced, via>>

\* The end of the embargo is recorded but nobody is told.
MutFluffEmbargoedQuiet(t) ==
  /\ t \in vEmbargoed
  /\ vEmbargoed' = vEmbargoed \ {t}
  /\ MarkFluffed({t})
  /\ UNCHANGED <<announced, via, vStemPeers, epochAge, poolVars, relayVars>>

\* MarkFluffed, then RelayTransaction if the transaction is still in the pool.
\* Nothing the wallet does between the two changes the outcome: it finds the
\* transaction past its stem phase before and after the announcement.
FluffEmbargoed(t) ==
  /\ t \in vEmbargoed
  /\ vEmbargoed' = vEmbargoed \ {t}
  /\ MarkFluffed({t})
  /\ announced' = announced \cup ({t} \cap mapTx)
  /\ UNCHANGED <<vStemPeers, epochAge, poolVars, relayVars>>
  /\ Enter({}, "message")

-----------------------------------------------------------------------------
(* The rest of the node                                                     *)

\* A block connects: its transactions leave the mempool, nobody looks at the
\* orphans that wait for them.
Confirm(t) ==
  /\ relayPc = "none"
  /\ t \in Mined \ confirmed
  /\ Parents[t] \subseteq confirmed
  /\ confirmed' = confirmed \cup {t}
  /\ mapTx' = mapTx \ {t}
  /\ mapWallet' = mapWallet \cup ({t} \cap Mine)
  /\ announced' = announced \ {t}
  /\ UNCHANGED <<routerVars, mapOrphanTransactions, relayVars, vEmbargoed>>
  /\ Enter({}, "message")

\* Reorganize: the blocks with D are disconnected, those with C connected.
\* vResurrect goes back into the mempool unchecked and without relay, vDelete
\* leaves it.
Reorganize(D, C) ==
  /\ relayPc = "none"
  /\ D \subseteq confirmed
  /\ \A t \in confirmed \ D : Parents[t] \cap D = {}
  /\ C \subseteq Mined
  /\ C \cap (confirmed \ D) = {}
  /\ \A t \in C : Parents[t] \subseteq (confirmed \ D) \cup C
  /\ confirmed' = (confirmed \ D) \cup C
  /\ mapTx' = (mapTx \cup D) \ C
  /\ mapWallet' = mapWallet \cup (C \cap Mine)
  /\ announced' = announced \ C
  /\ UNCHANGED <<routerVars, mapOrphanTransactions, relayVars, vEmbargoed>>
  /\ Enter(D, "back")

\* The node stops at any point and starts again: the chain and the wallet are on
\* disk, all the rest begins anew.
Restart ==
  /\ mapTx' = {}
  /\ mapOrphanTransactions' = {}
  /\ mapStemTxs' = {}
  /\ stemAge' = [t \in Tx |-> 0]
  /\ setFluffedTxs' = {}
  /\ vStemPeers' = {}
  /\ epochAge' = EpochTicks
  /\ relayOwn' = NoTx
  /\ vtxPrev' = {}
  /\ relayTx' = NoTx
  /\ relayPc' = "none"
  /\ vEmbargoed' = {}
  /\ announced' = {}
  /\ UNCHANGED <<confirmed, mapWallet>>
  /\ Enter({}, "message")

\* AcceptWalletTransaction: what goes into the mempool for t, its supporting
\* transactions first.
Reaccepted(t) ==
  LET prev == {h \in (Support(t) \cap Good) \ Known : Parents[h] \subseteq Known}
  IN  prev \cup {u \in {t} \cap Good : Parents[t] \subseteq Known \cup prev}

\* ReacceptWalletTransactions, after a start and after the import of a key, for
\* one transaction that is in no block.  Nothing is relayed.
ReacceptWalletTransaction(t) ==
  /\ relayPc = "none"
  /\ t \in mapWallet \ Known
  /\ mapTx' = mapTx \cup Reaccepted(t)
  /\ UNCHANGED <<routerVars, confirmed, mapOrphanTransactions, mapWallet, relayVars,
                 vEmbargoed, announced>>
  /\ Enter(Reaccepted(t), "back")

\* Time passes: GetTime().
Tick ==
  /\ stemAge' = [t \in Tx |-> IF t \in mapStemTxs /\ stemAge[t] < EmbargoTicks
                              THEN stemAge[t] + 1 ELSE stemAge[t]]
  /\ epochAge' = IF epochAge < EpochTicks THEN epochAge + 1 ELSE epochAge
  /\ UNCHANGED <<mapStemTxs, setFluffedTxs, vStemPeers, poolVars, relayVars,
                 vEmbargoed, announced, via>>

-----------------------------------------------------------------------------

RelayStep == RelayPrevious \/ AddLocalTx \/ RelayPhase \/ RelayToStemPeer \/ RelayToAll

EmbargoStep == GetEmbargoedTxs \/ \E t \in Tx : FluffEmbargoed(t)

Next ==
  \/ \E t \in Tx \ Local : ReceiveTx(t)
  \/ \E t \in Tx : CommitTransaction(t) \/ ResendWalletTransaction(t) \/ SendRawTransaction(t)
  \/ RelayStep
  \/ EmbargoStep
  \/ \E t \in Tx : Confirm(t)
  \/ \E D \in (SUBSET confirmed) \ {{}}, C \in SUBSET Tx : Reorganize(D, C)
  \/ Restart
  \/ \E t \in Tx : ReacceptWalletTransaction(t)
  \/ Tick

\* A thread that holds cs_main goes on, ThreadMessageHandler comes round
\* again, and the clock runs.  ResendWalletTransactions, called for every
\* message sent, goes through the whole wallet half an hour after the last time
\* at the latest, once a block has come since.
Fairness ==
  /\ WF_vars(RelayStep) /\ WF_vars(EmbargoStep) /\ WF_vars(Tick)
  /\ \A t \in Local : SF_vars(ResendWalletTransaction(t))

Spec == Init /\ [][Next]_vars /\ Fairness

-----------------------------------------------------------------------------
(* Properties                                                               *)

\* Types of the variables.
TypeOK ==
  /\ mapTx \subseteq Tx
  /\ confirmed \subseteq Tx
  /\ mapOrphanTransactions \subseteq Tx
  /\ mapWallet \subseteq Tx
  /\ mapStemTxs \subseteq Tx
  /\ stemAge \in [Tx -> 0 .. EmbargoTicks]
  /\ setFluffedTxs \subseteq Tx
  /\ vStemPeers \subseteq Peer
  /\ epochAge \in 0 .. EpochTicks
  /\ relayPc \in {"none", "next", "phase", "peer", "all"}
  /\ relayOwn \in IF relayPc = "none" THEN {NoTx} ELSE Tx
  /\ relayTx \in IF relayPc \in {"none", "next"} THEN {NoTx} ELSE Tx
  /\ vtxPrev \subseteq Tx
  /\ vEmbargoed \subseteq Tx
  /\ announced \subseteq Tx
  /\ via \in [Tx -> Via]

\* A transaction is never in both phases, whichever thread moved it last: one
\* that has been fluffed does not go back into the stem phase.
PhasesDisjoint == mapStemTxs \cap setFluffedTxs = {}

\* No transaction of the mempool falls between the phases: it has been
\* announced to everybody, or waits in the stem phase where the embargo finds
\* it, or is in the hands of the relay.  The code excepts what Reorganize and
\* ReacceptWalletTransactions put back, until somebody relays it.
RelayAccounted ==
  \A t \in mapTx : \/ t \in announced \cup mapStemTxs
                   \/ t \in {relayOwn, relayTx}
                   \/ via[t] = "back"

\* The work queue of the handler leaves no orphan behind whose inputs have
\* all come in by "tx" messages.
NoAcceptableOrphan ==
  \A o \in (mapOrphanTransactions \cap Good) \ mapTx :
    \E h \in Parents[o] : h \notin mapTx \/ via[h] # "message"

\* The orphans never exceed their limit, whatever arrives.
OrphansBounded == Cardinality(mapOrphanTransactions) <= MaxOrphans

\* Every transaction of the mempool is announced to all peers in the end, or
\* leaves the mempool before.  The wallet's own are even when a reorganization or
\* a restart has put them back without relay; those of others then are not.
EventuallyAnnounced ==
  \A t \in Good : (t \in mapTx) ~> \/ t \in announced
                                  \/ t \notin mapTx
                                  \/ (t \notin Local /\ via[t] = "back")

=============================================================================
