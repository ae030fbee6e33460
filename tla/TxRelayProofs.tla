---------------------------- MODULE TxRelayProofs ----------------------------
(***************************************************************************)
(* Proofs about TxRelay for every set of transactions and peers.           *)
(***************************************************************************)
EXTENDS TxRelay, FiniteSetTheorems, TLAPS

\* The set the work queue accepts holds the new transaction, takes only
\* orphans that are good and not known yet, and leaves out none that has all
\* its inputs after it.
LEMMA AcceptedFacts ==
  ASSUME TypeOK, NEW t \in Good, t \notin Known
  PROVE  LET A == AcceptedWith(t)
         IN  /\ t \in A
             /\ A \subseteq Tx
             /\ A \subseteq {t} \cup mapOrphanTransactions
             /\ A \cap Known = {}
             /\ \A o \in mapOrphanTransactions \cap Good :
                  o \notin Known /\ Parents[o] \subseteq Known \cup A /\ Parents[o] \cap A # {}
                  => o \in A
<1> DEFINE A == AcceptedWith(t)
           U == {t} \cup mapOrphanTransactions
           closed(S) == \A o \in mapOrphanTransactions \cap Good :
                          o \notin Known /\ Parents[o] \subseteq Known \cup S /\ Parents[o] \cap S # {}
                          => o \in S
<1>1. A = {u \in U : \A S \in SUBSET U : t \in S /\ closed(S) => u \in S}
  BY DEF AcceptedWith
<1> HIDE DEF A
<1>2. t \in A /\ A \subseteq U
  BY <1>1
<1>3. U \subseteq Tx
  BY RelayAssumption DEF TypeOK
<1>4. A \cap Known = {}
  <2> DEFINE S == {u \in U : u \notin Known}
  <2>1. S \in SUBSET U /\ t \in S /\ closed(S)
    OBVIOUS
  <2> HIDE DEF S, closed
  <2>2. A \subseteq S
    BY <1>1, <2>1
  <2> QED
    BY <2>2 DEF S
<1>5. closed(A)
  <2> SUFFICES ASSUME NEW o \in mapOrphanTransactions \cap Good,
                      o \notin Known, Parents[o] \subseteq Known \cup A, Parents[o] \cap A # {},
                      NEW S \in SUBSET U, t \in S, closed(S)
               PROVE  o \in S
    BY <1>1
  <2>1. A \subseteq S
    <3> HIDE DEF closed
    <3> QED BY <1>1
  <2> QED
    BY <2>1
<1> QED
  BY <1>2, <1>3, <1>4, <1>5 DEF A

-----------------------------------------------------------------------------
\* What Enter says of a transaction that is in the mempool afterwards: how it
\* came in is kept, and "back" is given up only for the stem phase or an
\* announcement.
LEMMA Entered ==
  ASSUME TypeOK, NEW T, NEW v \in Via, Enter(T, v)
  PROVE  /\ via' \in [Tx -> Via]
         /\ \A t \in Tx : t \in mapTx' =>
              LET now == IF t \in T THEN v ELSE via[t]
              IN  /\ now = "back" => via'[t] = "back" \/ t \in announced' \cup mapStemTxs'
                  /\ now # "message" => via'[t] # "message"
  BY DEF Enter, TypeOK, Via

-----------------------------------------------------------------------------
\* Types of the variables, under any sequence of messages, relays, embargoes
\* and clock ticks.
LEMMA TypeStep == TypeOK /\ [Next]_vars => TypeOK'
<1> SUFFICES ASSUME TypeOK, [Next]_vars PROVE TypeOK'
  OBVIOUS
<1> USE RelayAssumption DEF TypeOK
<1>1. ASSUME NEW t \in Tx \ Local, ReceiveTx(t) PROVE TypeOK'
  <2>1. CASE AcceptTx(t)
    <3> DEFINE A == AcceptedWith(t)
    <3>1. A \subseteq Tx
      BY <1>1, <2>1, AcceptedFacts DEF AcceptTx, ReceiveTx
    <3>2. RelayAccepted(A) /\ mapTx' = mapTx \cup A
          /\ mapOrphanTransactions' = mapOrphanTransactions \ Erased(A)
      BY <2>1 DEF AcceptTx
    <3> HIDE DEF A
    <3>3. UNCHANGED <<confirmed, relayVars, vEmbargoed>> /\ mapWallet' \subseteq Tx
      BY <1>1, <2>1 DEF ReceiveTx, AcceptTx
    <3>5. via' \in [Tx -> Via]
      BY <2>1, Entered DEF AcceptTx, Via
    <3>4. /\ mapStemTxs' \subseteq Tx /\ setFluffedTxs' \subseteq Tx /\ announced' \subseteq Tx
          /\ vStemPeers' \subseteq Peer /\ epochAge' \in 0 .. EpochTicks
          /\ stemAge' \in [Tx -> 0 .. EmbargoTicks]
      BY <3>1, <3>2 DEF RelayAccepted, MaybeRotateEpoch, SelectStemPeers
    <3> QED
      BY <3>1, <3>2, <3>3, <3>4, <3>5 DEF relayVars
  <2>2. CASE KeepOrphanTx(t)
    BY <1>1, <2>2 DEF KeepOrphanTx, ReceiveTx, routerVars, relayVars
  <2> QED
    BY <1>1, <2>1, <2>2 DEF ReceiveTx
<1>2. ASSUME NEW t \in Tx, CommitTransaction(t) PROVE TypeOK'
  <2>1. via' \in [Tx -> Via]
    BY <1>2, Entered DEF CommitTransaction, Via
  <2> QED
    BY <1>2, <2>1 DEF CommitTransaction, RelayWalletTransaction, Support, routerVars
<1>3. ASSUME NEW t \in Tx, ResendWalletTransaction(t) PROVE TypeOK'
  BY <1>3 DEF ResendWalletTransaction, RelayWalletTransaction, Support, routerVars
<1>4. CASE RelayPrevious
  BY <1>4 DEF RelayPrevious, routerVars, poolVars
<1>5. CASE AddLocalTx
  <2>1. via' \in [Tx -> Via]
    BY <1>5, Entered DEF AddLocalTx, Via
  <2> QED
    BY <1>5, <2>1 DEF AddLocalTx, MaybeRotateEpoch, SelectStemPeers, EnterStem, poolVars
<1>6. CASE RelayPhase
  BY <1>6 DEF RelayPhase, routerVars, poolVars
<1>7. CASE RelayToStemPeer
  BY <1>7 DEF RelayToStemPeer, Relayed, MaybeRotateEpoch, SelectStemPeers, MarkFluffed, poolVars
<1>8. CASE RelayToAll
  <2>1. via' \in [Tx -> Via]
    BY <1>8, Entered DEF RelayToAll, Via
  <2> QED
    BY <1>8, <2>1 DEF RelayToAll, Relayed, routerVars, poolVars
<1>9. CASE GetEmbargoedTxs
  BY <1>9 DEF GetEmbargoedTxs, Expired, routerVars, poolVars, relayVars
<1>10. ASSUME NEW t \in Tx, FluffEmbargoed(t) PROVE TypeOK'
  <2>1. via' \in [Tx -> Via]
    BY <1>10, Entered DEF FluffEmbargoed, Via
  <2> QED
    BY <1>10, <2>1 DEF FluffEmbargoed, MarkFluffed, poolVars, relayVars
<1>11. ASSUME NEW t \in Tx, Confirm(t) PROVE TypeOK'
  <2>1. via' \in [Tx -> Via]
    BY <1>11, Entered DEF Confirm, Via
  <2> QED
    BY <1>11, <2>1 DEF Confirm, routerVars, relayVars
<1>12. ASSUME NEW D, NEW C, Reorganize(D, C) PROVE TypeOK'
  <2>1. via' \in [Tx -> Via]
    BY <1>12, Entered DEF Reorganize, Via
  <2> QED
    BY <1>12, <2>1 DEF Reorganize, routerVars, relayVars
<1>13. CASE Tick
  BY <1>13 DEF Tick, poolVars, relayVars
<1>14. CASE UNCHANGED vars
  BY <1>14 DEF vars, routerVars, poolVars, relayVars
<1>15. ASSUME NEW t \in Tx, SendRawTransaction(t) PROVE TypeOK'
  <2>1. via' \in [Tx -> Via]
    BY <1>15, Entered DEF SendRawTransaction, Via
  <2> QED
    BY <1>15, <2>1 DEF SendRawTransaction, MaybeRotateEpoch, SelectStemPeers, MarkFluffed, relayVars
<1>16. CASE Restart
  <2>1. via' \in [Tx -> Via]
    BY <1>16, Entered DEF Restart, Via
  <2> QED
    BY <1>16, <2>1 DEF Restart
<1>17. ASSUME NEW t \in Tx, ReacceptWalletTransaction(t) PROVE TypeOK'
  <2>1. via' \in [Tx -> Via]
    BY <1>17, Entered DEF ReacceptWalletTransaction, Via
  <2>2. Reaccepted(t) \subseteq Tx
    BY DEF Reaccepted
  <2> QED
    BY <1>17, <2>1, <2>2 DEF ReacceptWalletTransaction, routerVars, relayVars
<1> QED
  BY <1>1, <1>2, <1>3, <1>4, <1>5, <1>6, <1>7, <1>8, <1>9, <1>10, <1>11, <1>12, <1>13, <1>14,
     <1>15, <1>16, <1>17
  DEF Next, RelayStep, EmbargoStep

\* TypeOK is an invariant of the relay.
THEOREM RelayTypeCorrect == Spec => []TypeOK
<1>1. Init => TypeOK
  BY RelayAssumption DEF Init, TypeOK, Via
<1> QED
  BY <1>1, TypeStep, PTL DEF Spec

-----------------------------------------------------------------------------
(* The phases.                                                              *)

\* What RelayAccounted rests on: a relay that is past its look at the phase
\* has a transaction in its hands that is in the stem phase, or that the
\* embargo loop has announced in between.
PeerInv ==
  relayPc = "peer" /\ relayTx \in mapTx => relayTx \in announced \cup mapStemTxs

PhaseInv == PhasesDisjoint /\ RelayAccounted /\ PeerInv

\* Every step of the handler, the wallet and the embargo loop keeps PhaseInv.
LEMMA PhaseStep == TypeOK /\ PhaseInv /\ [Next]_vars => PhaseInv'
<1> SUFFICES ASSUME TypeOK, PhaseInv, [Next]_vars PROVE PhaseInv'
  OBVIOUS
<1> USE RelayAssumption DEF PhaseInv, PhasesDisjoint, RelayAccounted, PeerInv
<1>0. mapTx \subseteq Tx /\ via \in [Tx -> Via]
  BY DEF TypeOK
<1>1. ASSUME NEW t \in Tx \ Local, ReceiveTx(t) PROVE PhaseInv'
  <2>1. CASE AcceptTx(t)
    <3> DEFINE A == AcceptedWith(t)
    <3>1. A \subseteq Tx
      BY <1>1, <2>1, AcceptedFacts DEF AcceptTx, ReceiveTx
    <3>2. RelayAccepted(A) /\ mapTx' = mapTx \cup A
      BY <2>1 DEF AcceptTx
    <3> HIDE DEF A
    <3>3. relayPc' = "none" /\ UNCHANGED <<relayOwn, relayTx>>
      BY <1>1 DEF ReceiveTx, relayVars
    <3>a. PICK F \in SUBSET A :
            LET stem == IF vStemPeers' = {} THEN {} ELSE A \ (F \cup setFluffedTxs)
            IN  /\ mapStemTxs' = (mapStemTxs \ (A \ stem)) \cup stem
                /\ setFluffedTxs' = setFluffedTxs \cup (A \ stem)
                /\ announced' = announced \cup (A \ stem)
      BY ONLY <3>2, Zenon DEF RelayAccepted
    <3> DEFINE stem == IF vStemPeers' = {} THEN {} ELSE A \ (F \cup setFluffedTxs)
    <3>b. stem \subseteq A /\ stem \cap setFluffedTxs = {}
      BY ONLY TRUE
    <3>4. /\ mapStemTxs' = (mapStemTxs \ (A \ stem)) \cup stem
          /\ setFluffedTxs' = setFluffedTxs \cup (A \ stem)
          /\ announced' = announced \cup (A \ stem)
      BY ONLY <3>a
    <3> HIDE DEF stem
    <3>5. \A u \in Tx : u \in mapTx' /\ u \notin A /\ via[u] = "back"
                        => via'[u] = "back" \/ u \in announced' \cup mapStemTxs'
      BY <2>1, Entered DEF AcceptTx, Via, A
    <3> QED
      BY <1>0, <3>1, <3>2, <3>3, <3>b, <3>4, <3>5
  <2>2. CASE KeepOrphanTx(t)
    BY <1>1, <2>2 DEF KeepOrphanTx, ReceiveTx, routerVars, relayVars
  <2> QED
    BY <1>1, <2>1, <2>2 DEF ReceiveTx
<1>2. ASSUME NEW t \in Tx, CommitTransaction(t) PROVE PhaseInv'
  <2>1. \A u \in Tx : u \in mapTx' /\ (u # t /\ via[u] = "back")
                    => via'[u] = "back" \/ u \in announced' \cup mapStemTxs'
    BY <1>2, Entered DEF CommitTransaction, Via
  <2> QED
    BY <1>0, <1>2, <2>1 DEF CommitTransaction, RelayWalletTransaction, routerVars, TypeOK
<1>3. ASSUME NEW t \in Tx, ResendWalletTransaction(t) PROVE PhaseInv'
  BY <1>0, <1>3 DEF ResendWalletTransaction, RelayWalletTransaction, routerVars, TypeOK
<1>4. CASE RelayPrevious
  BY <1>0, <1>4 DEF RelayPrevious, routerVars, poolVars, TypeOK
<1>5. CASE AddLocalTx
  <2>1. \A u \in Tx : u \in mapTx' /\ via[u] = "back"
                    => via'[u] = "back" \/ u \in announced' \cup mapStemTxs'
    BY <1>5, Entered DEF AddLocalTx, Via
  <2> QED
    BY <1>0, <1>5, <2>1 DEF AddLocalTx, EnterStem, poolVars, TypeOK
<1>6. CASE RelayPhase
  BY <1>6 DEF RelayPhase, IsStemPhase, routerVars, poolVars
<1>7. CASE RelayToStemPeer
  BY <1>7 DEF RelayToStemPeer, Relayed, MarkFluffed, poolVars, TypeOK
<1>8. CASE RelayToAll
  <2>1. \A u \in Tx : u \in mapTx' /\ via[u] = "back"
                    => via'[u] = "back" \/ u \in announced' \cup mapStemTxs'
    BY <1>8, Entered DEF RelayToAll, Via
  <2> QED
    BY <1>0, <1>8, <2>1 DEF RelayToAll, Relayed, routerVars, poolVars, TypeOK
<1>9. CASE GetEmbargoedTxs
  BY <1>9 DEF GetEmbargoedTxs, routerVars, poolVars, relayVars
<1>10. ASSUME NEW t \in Tx, FluffEmbargoed(t) PROVE PhaseInv'
  <2>1. \A u \in Tx : u \in mapTx' /\ via[u] = "back"
                    => via'[u] = "back" \/ u \in announced' \cup mapStemTxs'
    BY <1>10, Entered DEF FluffEmbargoed, Via
  <2> QED
    BY <1>0, <1>10, <2>1 DEF FluffEmbargoed, MarkFluffed, poolVars, relayVars
<1>11. ASSUME NEW t \in Tx, Confirm(t) PROVE PhaseInv'
  <2>1. \A u \in Tx : u \in mapTx' /\ via[u] = "back"
                    => via'[u] = "back" \/ u \in announced' \cup mapStemTxs'
    BY <1>11, Entered DEF Confirm, Via
  <2> QED
    BY <1>0, <1>11, <2>1 DEF Confirm, routerVars, relayVars
<1>12. ASSUME NEW D, NEW C, Reorganize(D, C) PROVE PhaseInv'
  <2>1. \A u \in Tx : u \in mapTx' /\ (u \in D \/ via[u] = "back")
                    => via'[u] = "back" \/ u \in announced' \cup mapStemTxs'
    BY <1>12, Entered DEF Reorganize, Via
  <2> QED
    BY <1>0, <1>12, <2>1 DEF Reorganize, routerVars, relayVars, TypeOK
<1>13. CASE Tick
  BY <1>13 DEF Tick, poolVars, relayVars
<1>14. CASE UNCHANGED vars
  BY <1>14 DEF vars, routerVars, poolVars, relayVars
<1>15. ASSUME NEW t \in Tx, SendRawTransaction(t) PROVE PhaseInv'
  <2>1. \A u \in Tx : u \in mapTx' /\ (u # t /\ via[u] = "back")
                    => via'[u] = "back" \/ u \in announced' \cup mapStemTxs'
    BY <1>15, Entered DEF SendRawTransaction, Via
  <2> QED
    BY <1>0, <1>15, <2>1 DEF SendRawTransaction, IsStemPhase, MarkFluffed, relayVars, TypeOK
<1>16. CASE Restart
  BY <1>16 DEF Restart
<1>17. ASSUME NEW t \in Tx, ReacceptWalletTransaction(t) PROVE PhaseInv'
  <2>1. \A u \in Tx : u \in mapTx' /\ (u \in Reaccepted(t) \/ via[u] = "back")
                    => via'[u] = "back" \/ u \in announced' \cup mapStemTxs'
    BY <1>17, Entered DEF ReacceptWalletTransaction, Via
  <2>2. Reaccepted(t) \subseteq Tx
    BY DEF Reaccepted
  <2> QED
    BY <1>0, <1>17, <2>1, <2>2 DEF ReacceptWalletTransaction, routerVars, relayVars
<1> QED
  BY <1>1, <1>2, <1>3, <1>4, <1>5, <1>6, <1>7, <1>8, <1>9, <1>10, <1>11, <1>12, <1>13, <1>14,
     <1>15, <1>16, <1>17
  DEF Next, RelayStep, EmbargoStep

\* PhaseInv holds in every behaviour of the relay.
LEMMA PhaseInvariant == Spec => []PhaseInv
<1>1. Init => PhaseInv
  BY DEF Init, PhaseInv, PhasesDisjoint, RelayAccounted, PeerInv
<1> QED
  BY <1>1, PhaseStep, RelayTypeCorrect, PTL DEF Spec

\* No transaction goes back from the fluff phase into the stem phase.
THEOREM PhasesStayDisjoint == Spec => []PhasesDisjoint
<1>1. PhaseInv => PhasesDisjoint
  BY DEF PhaseInv
<1> QED
  BY <1>1, PhaseInvariant, PTL

\* Between the handler, the wallet and the embargo loop no transaction of the
\* mempool is lost: each is announced, in the stem phase or being relayed, or
\* was put back by Reorganize or ReacceptWalletTransactions and not relayed yet.
THEOREM NoTransactionForgotten == Spec => []RelayAccounted
<1>1. PhaseInv => RelayAccounted
  BY DEF PhaseInv
<1> QED
  BY <1>1, PhaseInvariant, PTL

-----------------------------------------------------------------------------
(* The orphans.                                                             *)

\* What NoAcceptableOrphan rests on: an orphan has inputs, and what is
\* confirmed is not in the mempool.
OrphanInv ==
  /\ NoAcceptableOrphan
  /\ mapTx \cap confirmed = {}
  /\ \A o \in mapOrphanTransactions : Parents[o] # {}

\* Every step keeps OrphanInv; the "tx" handler does by AcceptedFacts.
LEMMA OrphanStep == TypeOK /\ OrphanInv /\ [Next]_vars => OrphanInv'
<1> SUFFICES ASSUME TypeOK, OrphanInv, [Next]_vars PROVE OrphanInv'
  OBVIOUS
<1> USE RelayAssumption DEF OrphanInv, NoAcceptableOrphan
<1>0. mapTx \subseteq Tx /\ Parents \in [Tx -> SUBSET Tx] /\ mapOrphanTransactions \subseteq Tx
  BY DEF TypeOK
<1>1. ASSUME NEW t \in Tx \ Local, ReceiveTx(t) PROVE OrphanInv'
  <2>1. CASE AcceptTx(t)
    <3> DEFINE A == AcceptedWith(t)
    <3>1. /\ A \cap Known = {}
          /\ \A o \in mapOrphanTransactions \cap Good :
               o \notin Known /\ Parents[o] \subseteq Known \cup A /\ Parents[o] \cap A # {}
               => o \in A
      BY <1>1, <2>1, AcceptedFacts DEF AcceptTx, ReceiveTx
    <3>2. /\ mapTx' = mapTx \cup A
          /\ mapOrphanTransactions' = mapOrphanTransactions \ Erased(A)
          /\ confirmed' = confirmed
      BY <1>1, <2>1 DEF AcceptTx, ReceiveTx
    <3> HIDE DEF A
    <3>4. \A u \in Tx : u \in mapTx' /\ u \notin A /\ via[u] # "message" => via'[u] # "message"
      BY <2>1, Entered DEF AcceptTx, Via, A
    <3>3. ASSUME NEW o \in (mapOrphanTransactions' \cap Good) \ mapTx'
          PROVE  \E h \in Parents[o] : h \notin mapTx' \/ via'[h] # "message"
      <4> SUFFICES ASSUME \A h \in Parents[o] : h \in mapTx \cup A /\ (h \notin A => via[h] = "message")
                   PROVE  FALSE
        <5>1. \A h \in Parents[o] : h \in Tx
          OBVIOUS
        <5> QED
          BY <3>2, <3>4, <5>1
      <4>1. Parents[o] \cap A # {}
        BY <3>2
      <4>2. Parents[o] \subseteq Known \cup A
        BY DEF Known
      <4>3. o \in mapOrphanTransactions /\ o \notin A /\ o \notin Erased(A)
        BY <3>2
      <4> QED
        BY <3>1, <4>1, <4>2, <4>3 DEF Erased
    <3> QED
      BY <3>1, <3>2, <3>3 DEF Known
  <2>2. CASE KeepOrphanTx(t)
    BY <1>1, <2>2 DEF KeepOrphanTx, ReceiveTx, Known
  <2> QED
    BY <1>1, <2>1, <2>2 DEF ReceiveTx
<1>2. ASSUME NEW t \in Tx, CommitTransaction(t) PROVE OrphanInv'
  <2>1. \A u \in Tx : u \in mapTx' /\ (u = t \/ via[u] # "message") => via'[u] # "message"
    BY <1>2, Entered DEF CommitTransaction, Via
  <2> QED
    BY <1>0, <1>2, <2>1 DEF CommitTransaction, RelayWalletTransaction, Known
<1>3. ASSUME NEW t \in Tx, ResendWalletTransaction(t) PROVE OrphanInv'
  BY <1>3 DEF ResendWalletTransaction, RelayWalletTransaction
<1>4. ASSUME UNCHANGED <<mapTx, confirmed, mapOrphanTransactions>>,
             \A u \in Tx : u \in mapTx' /\ via[u] # "message" => via'[u] # "message"
      PROVE  OrphanInv'
  BY <1>0, <1>4
<1>5. CASE RelayStep \/ EmbargoStep
  <2>1. UNCHANGED <<mapTx, confirmed, mapOrphanTransactions>>
    BY <1>5 DEF RelayStep, RelayPrevious, AddLocalTx, RelayPhase, RelayToStemPeer, RelayToAll,
                EmbargoStep, GetEmbargoedTxs, FluffEmbargoed, poolVars
  <2>2. via' = via \/ Enter({}, "message")
    BY <1>5 DEF RelayStep, RelayPrevious, AddLocalTx, RelayPhase, RelayToStemPeer, RelayToAll,
                EmbargoStep, GetEmbargoedTxs, FluffEmbargoed
  <2>3. \A u \in Tx : u \in mapTx' /\ via[u] # "message" => via'[u] # "message"
    BY <2>2, Entered DEF Via
  <2> QED
    BY <1>4, <2>1, <2>3
<1>6. ASSUME NEW t \in Tx, Confirm(t) PROVE OrphanInv'
  <2>1. \A u \in Tx : u \in mapTx' /\ ( via[u] # "message") => via'[u] # "message"
    BY <1>6, Entered DEF Confirm, Via
  <2> QED
    BY <1>0, <1>6, <2>1 DEF Confirm
<1>7. ASSUME NEW D, NEW C, Reorganize(D, C) PROVE OrphanInv'
  <2>1. \A u \in Tx : u \in mapTx' /\ (u \in D \/ via[u] # "message") => via'[u] # "message"
    BY <1>7, Entered DEF Reorganize, Via
  <2> QED
    BY <1>0, <1>7, <2>1 DEF Reorganize
<1>8. CASE Tick
  BY <1>8 DEF Tick, poolVars
<1>9. CASE UNCHANGED vars
  BY <1>9 DEF vars, poolVars
<1>10. ASSUME NEW t \in Tx, SendRawTransaction(t) PROVE OrphanInv'
  <2>1. \A u \in Tx : u \in mapTx' /\ (u \in {t} \ mapTx \/ via[u] # "message") => via'[u] # "message"
    BY <1>10, Entered DEF SendRawTransaction, Via
  <2> QED
    BY <1>0, <1>10, <2>1 DEF SendRawTransaction
<1>11. CASE Restart
  BY <1>11 DEF Restart
<1>12. ASSUME NEW t \in Tx, ReacceptWalletTransaction(t) PROVE OrphanInv'
  <2>1. \A u \in Tx : u \in mapTx' /\ (u \in Reaccepted(t) \/ via[u] # "message") => via'[u] # "message"
    BY <1>12, Entered DEF ReacceptWalletTransaction, Via
  <2> QED
    BY <1>0, <1>12, <2>1 DEF ReacceptWalletTransaction, Reaccepted, Known
<1> QED
  BY <1>1, <1>2, <1>3, <1>5, <1>6, <1>7, <1>8, <1>9, <1>10, <1>11, <1>12 DEF Next

\* The work queue of the "tx" handler is complete: no good orphan is left
\* whose inputs all came in by "tx" messages.
THEOREM OrphansAllTried == Spec => []NoAcceptableOrphan
<1>1. Init => OrphanInv
  BY DEF Init, OrphanInv, NoAcceptableOrphan
<1>2. OrphanInv => NoAcceptableOrphan
  BY DEF OrphanInv
<1> QED
  BY <1>1, <1>2, OrphanStep, RelayTypeCorrect, PTL DEF Spec

-----------------------------------------------------------------------------
\* One "tx" message adds at most one orphan, and LimitOrphanTxSize takes one
\* away when the limit is exceeded.
LEMMA BoundStep == TypeOK /\ OrphansBounded /\ [Next]_vars => OrphansBounded'
<1> SUFFICES ASSUME TypeOK, OrphansBounded, [Next]_vars PROVE OrphansBounded'
  OBVIOUS
<1>1. IsFiniteSet(mapOrphanTransactions)
  BY RelayAssumption, FS_Subset DEF TypeOK
<1>2. CASE mapOrphanTransactions' \subseteq mapOrphanTransactions
  <2>1. /\ IsFiniteSet(mapOrphanTransactions')
        /\ Cardinality(mapOrphanTransactions') <= Cardinality(mapOrphanTransactions)
    BY <1>1, <1>2, FS_Subset
  <2>2. Cardinality(mapOrphanTransactions) \in Nat /\ Cardinality(mapOrphanTransactions') \in Nat
    BY <1>1, <2>1, FS_CardinalityType
  <2> QED
    BY <2>1, <2>2, RelayAssumption DEF OrphansBounded
<1>3. ASSUME NEW t \in Tx, KeepOrphanTx(t) PROVE OrphansBounded'
  <2> DEFINE all == mapOrphanTransactions \cup {t}
  <2>1. CASE Cardinality(all) <= MaxOrphans
    BY <1>3, <2>1 DEF KeepOrphanTx, OrphansBounded
  <2>2. CASE ~(Cardinality(all) <= MaxOrphans)
    <3>1. PICK o \in all : mapOrphanTransactions' = all \ {o}
      BY <1>3, <2>2 DEF KeepOrphanTx
    <3>2. IsFiniteSet(all) /\ Cardinality(all) = Cardinality(mapOrphanTransactions) + 1
      BY <1>1, <1>3, FS_AddElement DEF KeepOrphanTx
    <3>3. Cardinality(all \ {o}) = Cardinality(all) - 1
      BY <3>2, FS_RemoveElement
    <3>4. Cardinality(mapOrphanTransactions) \in Nat
      BY <1>1, FS_CardinalityType
    <3> HIDE DEF all
    <3> QED
      BY <3>1, <3>2, <3>3, <3>4 DEF OrphansBounded
  <2> QED
    BY <2>1, <2>2
<1>4. (\E t \in Tx : KeepOrphanTx(t)) \/ mapOrphanTransactions' \subseteq mapOrphanTransactions
  <2>1. ASSUME NEW t \in Tx, ReceiveTx(t)
        PROVE  KeepOrphanTx(t) \/ mapOrphanTransactions' \subseteq mapOrphanTransactions
    BY <2>1 DEF ReceiveTx, AcceptTx
  <2>2. CASE \E t \in Tx : \/ CommitTransaction(t) \/ ResendWalletTransaction(t) \/ SendRawTransaction(t)
                         \/ Confirm(t) \/ ReacceptWalletTransaction(t)
    BY <2>2 DEF CommitTransaction, ResendWalletTransaction, RelayWalletTransaction, Confirm,
                SendRawTransaction, ReacceptWalletTransaction
  <2>3. CASE RelayStep \/ EmbargoStep
    BY <2>3 DEF RelayStep, RelayPrevious, AddLocalTx, RelayPhase, RelayToStemPeer, RelayToAll,
                EmbargoStep, GetEmbargoedTxs, FluffEmbargoed, poolVars
  <2>4. CASE (\E D, C : Reorganize(D, C)) \/ Restart \/ Tick \/ UNCHANGED vars
    BY <2>4 DEF Reorganize, Restart, Tick, vars, poolVars
  <2> QED
    BY <2>1, <2>2, <2>3, <2>4 DEF Next
<1> QED
  BY <1>2, <1>3, <1>4

\* LimitOrphanTxSize evicts one orphan for each one too many, so the limit
\* holds however many arrive.
THEOREM OrphanLimit == Spec => []OrphansBounded
<1>1. Init => OrphansBounded
  BY FS_EmptySet, RelayAssumption DEF Init, OrphansBounded
<1> QED
  BY <1>1, BoundStep, RelayTypeCorrect, PTL DEF Spec

=============================================================================
