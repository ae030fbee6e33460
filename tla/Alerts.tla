-------------------------------- MODULE Alerts --------------------------------
(***************************************************************************)
(* Signed alerts (CAlert, mapAlerts) as they spread over connected nodes:  *)
(* ProcessAlert cancels and expires what a node holds, RelayTo sends an    *)
(* alert at most once over a connection, the version handshake sends what  *)
(* is held.  The messages of a connection arrive in order; what is under   *)
(* way when it closes is lost, and with it what the ends knew of each      *)
(* other (setKnown).  Alerts are kept in memory only.                      *)
(***************************************************************************)
EXTENDS Integers, Sequences, FiniteSets, SequencesExt

CONSTANTS
  Node,           \* the nodes
  Links,          \* the pairs <<n, m>> where n keeps up a connection to m
  Alert,          \* the alerts with a valid signature
  nID, nCancel,   \* [Alert -> Int]
  setCancel,      \* [Alert -> SUBSET Int]
  nExpiration,    \* [Alert -> Nat]
  nRelayUntil,    \* [Alert -> Nat]
  Scope,          \* [Alert -> SUBSET Node], by version and subversion
  WellFormed,     \* alerts that pass the check for the number MaxInt
  MaxInt,         \* nID of the last alert
  MaxTime,        \* bound on the time
  MaxFaults       \* bound on closed connections and restarts

ASSUME AlertAssumption ==
  /\ Links \subseteq Node \X Node
  /\ \A l \in Links : l[1] # l[2] /\ <<l[2], l[1]>> \notin Links
  /\ nID \in [Alert -> Int] /\ nCancel \in [Alert -> Int]
  /\ setCancel \in [Alert -> SUBSET Int]
  /\ nExpiration \in [Alert -> Nat] /\ nRelayUntil \in [Alert -> Nat]
  /\ Scope \in [Alert -> SUBSET Node]
  /\ WellFormed \subseteq Alert /\ \A a \in Alert : nID[a] # MaxInt => a \in WellFormed
  /\ "version" \notin Alert /\ MaxTime \in Nat /\ MaxFaults \in Nat

VARIABLES
  now,           \* GetAdjustedTime(), the same everywhere
  issued,        \* alerts that have been sent from some node
  mapAlerts,     \* [Node -> SUBSET Alert]
  open,          \* the connections that are up
  met,           \* [Node -> SUBSET Node], peers with nVersion # 0
  setKnown,      \* [Node -> [Node -> SUBSET Alert]], of the CNode of a peer
  nMisbehavior,  \* [Node -> [Node -> Nat]], of the CNode of a peer
  wire,          \* [Node -> [Node -> Seq]], messages under way to a peer
  dropped,       \* history: alerts read before the version of their sender
  faults

alertVars == <<now, issued, mapAlerts, open, met, setKnown, nMisbehavior, wire, dropped, faults>>

Peers(n) == {m \in Node : <<n, m>> \in open \/ <<m, n>> \in open}

-----------------------------------------------------------------------------
(* CAlert                                                                   *)

IsInEffect(a) == now < nExpiration[a]

Overrides(a, x) == nID[x] <= nCancel[a] \/ nID[x] \in setCancel[a]

Cancels(a, x) == IsInEffect(a) /\ Overrides(a, x)

AppliesTo(a, n) == IsInEffect(a) /\ n \in Scope[a]

\* What a node keeps of M when it looks at the alert a.
Kept(M, a) == {x \in M : ~Cancels(a, x) /\ IsInEffect(x)}

\* CheckSignature, IsInEffect and the rule for the last alert.
Eligible(a) == IsInEffect(a) /\ a \in WellFormed

\* The alert is taken without a look at those that cancel it.
MutRefused(M, a) == ~Eligible(a)

\* ProcessAlert returns false.
Refused(M, a) == ~Eligible(a) \/ \E x \in Kept(M, a) : Cancels(x, a)

\* mapAlerts after ProcessAlert.  An alert that is refused because it has been
\* cancelled has done its own cancelling before.
Processed(M, a) ==
  IF ~Eligible(a) THEN M
  ELSE Kept(M, a) \cup (IF Refused(M, a) THEN {} ELSE {a})

\* RelayTo by n, called for each of S: what is pushed to the peer m.
Relay(n, m, S) ==
  SetToSeq({a \in S \ setKnown[n][m] : /\ IsInEffect(a)
                                      /\ \/ AppliesTo(a, m) \/ AppliesTo(a, n)
                                         \/ now < nRelayUntil[a]})

-----------------------------------------------------------------------------

AlertInit ==
  /\ now = 0 /\ issued = {} /\ dropped = {} /\ faults = 0
  /\ mapAlerts = [n \in Node |-> {}]
  /\ open = {}
  /\ met = [n \in Node |-> {}]
  /\ setKnown = [n \in Node |-> [m \in Node |-> {}]]
  /\ nMisbehavior = [n \in Node |-> [m \in Node |-> 0]]
  /\ wire = [n \in Node |-> [m \in Node |-> << >>]]

\* The node n gives the alert to its peers, all but src, which it has it from.
\* A peer whose version has not been read yet is in vNodes too.
Spread(n, src, a, sent) ==
  /\ setKnown' = [setKnown EXCEPT ![n] = [m \in Node |->
                    IF m \in Peers(n) /\ IsInEffect(a) THEN @[m] \cup {a} ELSE @[m]]]
  /\ wire' = [sent EXCEPT ![n] = [m \in Node |->
                IF m \in Peers(n) \ {src} THEN @[m] \o Relay(n, m, {a}) ELSE @[m]]]

\* The alert a is sent from the node n (sendalert).
Issue(n, a) ==
  /\ a \notin issued
  /\ issued' = issued \cup {a}
  /\ mapAlerts' = [mapAlerts EXCEPT ![n] = Processed(@, a)]
  /\ IF Refused(mapAlerts[n], a) THEN UNCHANGED <<setKnown, wire>> ELSE Spread(n, n, a, wire)
  /\ UNCHANGED <<now, open, met, nMisbehavior, dropped, faults>>

\* The node n reads the version of its peer m and sends what it holds.  The end
\* that has been called answers with its own version first.
ReadVersion(n, m, rest) ==
  /\ met' = [met EXCEPT ![n] = @ \cup {m}]
  /\ setKnown' = [setKnown EXCEPT ![n][m] = @ \cup {a \in mapAlerts[n] : IsInEffect(a)}]
  /\ wire' = [rest EXCEPT ![n][m] =
                @ \o (IF <<m, n>> \in open THEN <<"version">> ELSE << >>)
                  \o Relay(n, m, mapAlerts[n])]
  /\ UNCHANGED <<mapAlerts, nMisbehavior, dropped>>

\* An alert is read from a peer with nVersion = 0.
ReadEarly(n, m, a, rest) ==
  /\ nMisbehavior' = [nMisbehavior EXCEPT ![n][m] = @ + 1]
  /\ wire' = rest
  /\ dropped' = dropped \cup {a}
  /\ UNCHANGED <<mapAlerts, met, setKnown>>

\* An alert is taken and not passed on.
MutReadAlert(n, m, a, rest) ==
  /\ mapAlerts' = [mapAlerts EXCEPT ![n] = Processed(@, a)]
  /\ wire' = rest
  /\ setKnown' = [setKnown EXCEPT ![n][m] = @ \cup {a}]
  /\ UNCHANGED <<met, nMisbehavior, dropped>>

\* The message alert.
ReadAlert(n, m, a, rest) ==
  /\ IF a \in setKnown[n][m]
     THEN wire' = rest /\ UNCHANGED <<mapAlerts, setKnown, nMisbehavior>>
     ELSE /\ mapAlerts' = [mapAlerts EXCEPT ![n] = Processed(@, a)]
          /\ IF Refused(mapAlerts[n], a)
             THEN /\ nMisbehavior' = [nMisbehavior EXCEPT ![n][m] = @ + 10]
                  /\ wire' = rest /\ UNCHANGED setKnown
             ELSE Spread(n, m, a, rest) /\ UNCHANGED nMisbehavior
  /\ UNCHANGED <<met, dropped>>

\* The node n reads a message of its peer m.
Receive(n, m) ==
  /\ m \in Peers(n) /\ wire[m][n] # << >>
  /\ LET msg  == Head(wire[m][n])
         rest == [wire EXCEPT ![m][n] = Tail(@)]
     IN  \/ msg = "version" /\ ReadVersion(n, m, rest)
         \/ msg # "version" /\ m \notin met[n] /\ ReadEarly(n, m, msg, rest)
         \/ msg # "version" /\ m \in met[n] /\ ReadAlert(n, m, msg, rest)
  /\ UNCHANGED <<now, issued, open, faults>>

\* The node n calls m: two new CNode objects, and the version of n is sent.
Connect(n, m) ==
  /\ <<n, m>> \in Links \ open
  /\ open' = open \cup {<<n, m>>}
  /\ wire' = [wire EXCEPT ![n][m] = <<"version">>]
  /\ UNCHANGED <<now, issued, mapAlerts, met, setKnown, nMisbehavior, dropped, faults>>

\* The connections L are closed: their CNode objects and the messages under way
\* are gone.
Close(L) ==
  LET gone(n, m) == <<n, m>> \in L \/ <<m, n>> \in L
      clear(f, v) == [n \in Node |-> [m \in Node |-> IF gone(n, m) THEN v ELSE f[n][m]]]
  IN  /\ faults < MaxFaults /\ faults' = faults + 1
      /\ open' = open \ L
      /\ met' = [n \in Node |-> {m \in met[n] : ~gone(n, m)}]
      /\ setKnown' = clear(setKnown, {})
      /\ nMisbehavior' = clear(nMisbehavior, 0)
      /\ wire' = clear(wire, << >>)

Disconnect(n, m) ==
  /\ <<n, m>> \in open
  /\ Close({<<n, m>>})
  /\ UNCHANGED <<now, issued, mapAlerts, dropped>>

\* A restarted node holds no alert.
Restart(n) ==
  /\ Close({l \in open : n \in {l[1], l[2]}})
  /\ mapAlerts' = [mapAlerts EXCEPT ![n] = {}]
  /\ UNCHANGED <<now, issued, dropped>>

Tick ==
  /\ now < MaxTime /\ now' = now + 1
  /\ UNCHANGED <<issued, mapAlerts, open, met, setKnown, nMisbehavior, wire, dropped, faults>>

AlertNext ==
  \/ \E n \in Node, a \in Alert : Issue(n, a)
  \/ \E n, m \in Node : Receive(n, m) \/ Connect(n, m) \/ Disconnect(n, m)
  \/ \E n \in Node : Restart(n)
  \/ Tick

\* The message thread reads what has arrived, and the threads that open
\* connections call a peer again when its connection is lost.
AlertFairness ==
  \A n, m \in Node : WF_alertVars(Receive(n, m)) /\ WF_alertVars(Connect(n, m))

AlertSpec == AlertInit /\ [][AlertNext]_alertVars /\ AlertFairness

-----------------------------------------------------------------------------
(* Properties                                                               *)

\* ProcessAlert: no node holds an alert together with one in effect that
\* cancels it, in whatever order the two have reached it.
CancelledGone ==
  \A n \in Node : \A x, y \in mapAlerts[n] : x # y => ~Cancels(x, y)

\* An alert for every node that stays in effect, that no other overrides and
\* that some node holds for good.
Standing(a) ==
  /\ Scope[a] = Node /\ IsInEffect(a) /\ a \notin dropped
  /\ \A x \in issued : ~Overrides(x, a)
  /\ \E n \in Node : a \in mapAlerts[n]

\* RelayTo, the alert message and the handshake: such an alert is held by every
\* node in the end, over whatever detours, restarts and lost connections it
\* comes, unless it was read before the version of its sender.
AlertsSettle ==
  \A a \in Alert :
    <>[]Standing(a) => <>[](\A n \in Node : a \in mapAlerts[n])

=============================================================================
