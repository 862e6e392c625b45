----------------------------- MODULE MeshProofs -----------------------------
(***************************************************************************)
(* Mesh implements Broadcast for any devices, links, items and contents,   *)
(* however many datagrams are lost and whatever fails; what Transfer puts  *)
(* together is intact, for any senders, encodings and limits; and the safe *)
(* part of Ipc, for any clients, calls and permits.                        *)
(***************************************************************************)
EXTENDS Mesh, Transfer, Ipc, SequenceTheorems, TLAPS

-----------------------------------------------------------------------------

\* An event may reach a device other than the one that copied it, or that one too
\* when the same content was copied elsewhere.
Due(n, e) == OriginOf[e] = n => Promised!CopiedAgain(e)

MeshTypes ==
    /\ linked \subseteq Pairs /\ paired \subseteq Pairs
    /\ todo \subseteq Events /\ sent \subseteq Events
    /\ meshSeen \in [Nodes -> SUBSET Events]
    /\ inflight \in [Nodes -> [Hashes -> [ev : Events, to : SUBSET Nodes, tries : Nat]]]
    /\ sending \in [Nodes -> [ev : Events \cup {None}, to : SUBSET Nodes]]
    /\ inbox \in [Nodes -> Seq(Events)]
    /\ log \in [Nodes -> Seq(Events)]

\* What is on the way, being sent or waiting for an acknowledgement was copied, and
\* is due where it goes.
NetDue ==
    \A m \in net :
        \/ m.kind = "item" /\ m.to \in Nodes /\ m.from \in Nodes /\ m.body \in sent /\ Due(m.to, m.body)
        \/ m.kind = "ack" /\ m.to \in Nodes /\ m.body \in Hashes

SendingDue ==
    \A n \in Nodes : Busy(n) =>
        sending[n].ev \in sent /\ \A p \in sending[n].to : Due(p, sending[n].ev)

InflightDue ==
    \A n \in Nodes : \A h \in Hashes : \A p \in inflight[n][h].to :
        /\ inflight[n][h].ev \in sent /\ HashOf[inflight[n][h].ev] = h
        /\ Due(p, inflight[n][h].ev)

\* A device has seen what it queued and what it handed on, and queues nothing twice.
QueueDue ==
    \A n \in Nodes :
        /\ \A i \in DOMAIN inbox[n] :
              /\ inbox[n][i] \in meshSeen[n] \cap sent /\ Due(n, inbox[n][i])
              /\ \A j \in DOMAIN inbox[n] : i # j => inbox[n][i] # inbox[n][j]
              /\ \A j \in DOMAIN log[n] : inbox[n][i] # log[n][j]
        /\ \A i \in DOMAIN log[n] : log[n][i] \in meshSeen[n]

MeshInv == MeshTypes /\ NetDue /\ SendingDue /\ InflightDue /\ QueueDue

-----------------------------------------------------------------------------

\* A copied event is due at every peer of the device that copied it.
LEMMA PeersAreOthers ==
    ASSUME linked \subseteq Pairs, NEW n \in Nodes PROVE  n \notin Peers(n) /\ Peers(n) \subseteq Nodes
    BY DEF Peers, Pairs

\* Tracking an event that is due at its targets: the peers still owing an older
\* event owe one with the same content.
LEMMA TrackDue ==
    ASSUME MeshTypes, InflightDue, NEW n \in Nodes, NEW e \in Events, e \in sent,
           NEW targets \in SUBSET Nodes, \A p \in targets : Due(p, e),
           inflight' = Track(n, e, targets), sent \subseteq sent'
    PROVE  /\ inflight' \in [Nodes -> [Hashes -> [ev : Events, to : SUBSET Nodes, tries : Nat]]]
           /\ InflightDue'
<1> DEFINE g == HashOf[e]
           old == inflight[n][g]
           new == [ev |-> e, to |-> old.to \cup targets, tries |-> 0]
<1>1. g \in Hashes
    BY DEF Hashes
<1>2. old \in [ev : Events, to : SUBSET Nodes, tries : Nat]
    BY <1>1 DEF MeshTypes
<1>3. new \in [ev : Events, to : SUBSET Nodes, tries : Nat]
    BY <1>2
<1>4. inflight' = [inflight EXCEPT ![n][g] = new]
    BY DEF Track
<1> HIDE DEF new
<1>5. inflight' \in [Nodes -> [Hashes -> [ev : Events, to : SUBSET Nodes, tries : Nat]]]
    BY <1>1, <1>3, <1>4 DEF MeshTypes
<1>6. \A m \in Nodes : \A h \in Hashes :
          inflight'[m][h] = IF m = n /\ h = g THEN new ELSE inflight[m][h]
    BY <1>1, <1>4 DEF MeshTypes
<1>7. ASSUME NEW p \in new.to PROVE  Due(p, e)
  <2>1. CASE p \in targets
      BY <2>1
  <2>2. CASE p \in old.to
    <3>1. HashOf[old.ev] = g /\ Due(p, old.ev) /\ old.ev \in Events
        BY <1>1, <1>2, <2>2 DEF InflightDue
    <3>2. CASE old.ev = e
        BY <3>1, <3>2
    <3>3. CASE old.ev # e
        BY <3>1, <3>3 DEF Due, Promised!CopiedAgain
    <3> QED BY <3>2, <3>3
  <2> QED BY <1>7, <2>1, <2>2 DEF new
<1>8. InflightDue'
  <2> SUFFICES ASSUME NEW m \in Nodes, NEW h \in Hashes, NEW p \in inflight'[m][h].to
               PROVE  /\ inflight'[m][h].ev \in sent' /\ HashOf[inflight'[m][h].ev] = h
                      /\ Due(p, inflight'[m][h].ev)
      BY DEF InflightDue, Due, Promised!CopiedAgain
  <2>1. CASE m = n /\ h = g
    <3>1. inflight'[m][h] = new
        BY <1>6, <2>1
    <3>2. new.ev = e
        BY DEF new
    <3> QED BY <1>7, <2>1, <3>1, <3>2
  <2>2. CASE ~(m = n /\ h = g)
    <3>1. inflight'[m][h] = inflight[m][h]
        BY <1>6, <2>2
    <3> QED BY <3>1 DEF InflightDue
  <2> QED BY <2>1, <2>2
<1> QED BY <1>5, <1>8

\* Fewer peers owe, and nothing else changes.
LEMMA FewerOwe ==
    ASSUME MeshTypes, InflightDue, sent' = sent,
           inflight' \in [Nodes -> [Hashes -> [ev : Events, to : SUBSET Nodes, tries : Nat]]],
           \A n \in Nodes : \A h \in Hashes :
               /\ inflight'[n][h].to \subseteq inflight[n][h].to
               /\ inflight'[n][h].to # {} => inflight'[n][h].ev = inflight[n][h].ev
    PROVE  InflightDue'
    BY DEF InflightDue, Due, Promised!CopiedAgain

LEMMA IdleTyped == \A h \in Hashes : Idle \in [ev : Events, to : SUBSET Nodes, tries : Nat]
<1> SUFFICES ASSUME NEW h \in Hashes PROVE  Idle \in [ev : Events, to : SUBSET Nodes, tries : Nat]
    OBVIOUS
<1>1. \E e \in Events : TRUE
    BY DEF Hashes
<1>2. (CHOOSE e \in Events : TRUE) \in Events
    BY <1>1
<1> QED BY <1>2 DEF Idle

\* Datagrams that were there, fewer of them.
LEMMA FewerOnTheWay == ASSUME NetDue, net' \subseteq net, sent \subseteq sent' PROVE  NetDue'
    BY DEF NetDue, Due, Promised!CopiedAgain

LEMMA ItemsDue ==
    ASSUME NEW n \in Nodes, NEW targets, NEW e \in sent, linked \subseteq Pairs,
           \A p \in targets : Due(p, e)
    PROVE  \A m \in Items(n, targets, e) :
               m.kind = "item" /\ m.to \in Nodes /\ m.from \in Nodes /\ m.body \in sent /\ Due(m.to, m.body)
    BY PeersAreOthers DEF Items, Item

-----------------------------------------------------------------------------
\* Every step keeps the invariant.

\* What an appended sequence holds.
LEMMA Appended ==
    ASSUME NEW S, NEW q \in Seq(S), NEW x \in S
    PROVE  \A i \in DOMAIN Append(q, x) :
               \/ Append(q, x)[i] = x /\ i = Len(q) + 1
               \/ i \in DOMAIN q /\ Append(q, x)[i] = q[i]
<1> DEFINE k == Len(q)
<1> DEFINE r == Append(q, x)
<1>1. k \in Nat /\ DOMAIN q = 1 .. k /\ DOMAIN r = 1 .. (k + 1)
    OBVIOUS
<1>2. r[k + 1] = x /\ \A i \in 1 .. k : r[i] = q[i]
    OBVIOUS
<1> HIDE DEF k, r
<1>3. \A i \in 1 .. (k + 1) : i = k + 1 \/ i \in 1 .. k
    BY <1>1
<1>4. \A i \in DOMAIN r : (r[i] = x /\ i = k + 1) \/ (i \in DOMAIN q /\ r[i] = q[i])
  <2> SUFFICES ASSUME NEW i \in 1 .. (k + 1)
               PROVE  (r[i] = x /\ i = k + 1) \/ (i \in DOMAIN q /\ r[i] = q[i])
      BY <1>1, Zenon
  <2>1. ASSUME i = k + 1 PROVE  r[i] = x
    <3>1. r[i] = r[k + 1]
        BY <2>1, Zenon
    <3> QED BY <1>2, <3>1, Zenon
  <2>2. CASE i \in 1 .. k
      BY <1>1, <1>2, <2>2, Zenon
  <2>3. i = k + 1 \/ i \in 1 .. k
      BY <1>3
  <2> QED BY <2>1, <2>2, <2>3, Zenon
<1> QED BY <1>4 DEF k, r

LEMMA MeshStep == MeshInv /\ [MeshNext]_meshVars => MeshInv'
<1> SUFFICES ASSUME MeshInv, [MeshNext]_meshVars PROVE  MeshInv'
    OBVIOUS
<1>0. MeshTypes /\ NetDue /\ SendingDue /\ InflightDue /\ QueueDue
    BY DEF MeshInv
<1> DEFINE InfType == [Nodes -> [Hashes -> [ev : Events, to : SUBSET Nodes, tries : Nat]]]
<1>s. ASSUME sending' = sending, sent' = sent PROVE  SendingDue'
    BY <1>0, <1>s DEF SendingDue, Busy, Due, Promised!CopiedAgain
<1>i. ASSUME inflight' = inflight, sent' = sent PROVE  InflightDue'
    BY <1>0, <1>i DEF InflightDue, Due, Promised!CopiedAgain
<1>q. ASSUME inbox' = inbox, log' = log, meshSeen' = meshSeen, sent' = sent PROVE  QueueDue'
    BY <1>0, <1>q DEF QueueDue, Due, Promised!CopiedAgain
<1>1. CASE UNCHANGED meshVars
  <2> USE <1>1 DEF meshVars, mesh, core
  <2>1. MeshTypes'
      BY <1>0 DEF MeshTypes
  <2>2. NetDue'
      BY <1>0, FewerOnTheWay
  <2> QED BY <2>1, <2>2, <1>s, <1>i, <1>q DEF MeshInv
<1>2. ASSUME NEW e \in Events, Copy(e) PROVE  MeshInv'
  <2> DEFINE n == OriginOf[e]
             targets == Peers(n) \cap Verified(n)
  <2>0. n \in Nodes /\ e \in sent' /\ sent \subseteq sent' /\ sent' \subseteq Events /\ todo' \subseteq Events
        /\ linked' = linked
      BY <1>0, <1>2, MeshAssumption DEF Copy, MeshTypes, mesh
  <2>1. targets \subseteq Nodes /\ \A p \in targets : Due(p, e)
      BY <1>0, <2>0, PeersAreOthers DEF MeshTypes, Due
  <2> HIDE DEF targets
  <2>2. CASE UNCHANGED <<net, sending>>
    <3>1. MeshTypes'
        BY <1>0, <1>2, <2>0, <2>2 DEF Copy, MeshTypes, mesh
    <3>2. NetDue'
        BY <1>0, <2>0, <2>2, FewerOnTheWay
    <3>3. SendingDue'
        BY <1>0, <2>0, <2>2 DEF SendingDue, Busy, Due, Promised!CopiedAgain
    <3>4. InflightDue' /\ QueueDue'
        BY <1>0, <1>2, <2>0 DEF Copy, InflightDue, QueueDue, Due, Promised!CopiedAgain
    <3> QED BY <3>1, <3>2, <3>3, <3>4 DEF MeshInv
  <2>3. CASE /\ net' = net \cup Items(n, targets, e)
             /\ sending' = [sending EXCEPT ![n] = [ev |-> e, to |-> targets]]
    <3>1. MeshTypes'
        BY <1>0, <1>2, <2>0, <2>1, <2>3 DEF Copy, MeshTypes, mesh
    <3>2. NetDue'
      <4>1. \A m \in Items(n, targets, e) :
                m.kind = "item" /\ m.to \in Nodes /\ m.from \in Nodes /\ m.body = e /\ Due(m.to, m.body)
          BY <1>0, <2>0, <2>1, PeersAreOthers DEF Items, Item, MeshTypes
      <4> QED BY <1>0, <2>0, <2>3, <4>1 DEF NetDue, Due, Promised!CopiedAgain
    <3>3. SendingDue'
      <4>1. \A m \in Nodes : sending'[m] = IF m = n THEN [ev |-> e, to |-> targets] ELSE sending[m]
          BY <1>0, <2>0, <2>3 DEF MeshTypes
      <4> QED BY <1>0, <2>0, <2>1, <4>1 DEF SendingDue, Busy, Due, Promised!CopiedAgain
    <3>4. InflightDue' /\ QueueDue'
        BY <1>0, <1>2, <2>0 DEF Copy, InflightDue, QueueDue, Due, Promised!CopiedAgain
    <3> QED BY <3>1, <3>2, <3>3, <3>4 DEF MeshInv
  <2> QED BY <1>2, <2>2, <2>3 DEF Copy, targets
<1>3. ASSUME NEW n \in Nodes, TrackSent(n) PROVE  MeshInv'
  <2>1. /\ sending[n].ev \in sent /\ sending[n].ev \in Events /\ sending[n].to \in SUBSET Nodes
        /\ \A p \in sending[n].to : Due(p, sending[n].ev)
      BY <1>0, <1>3 DEF TrackSent, SendingDue, MeshTypes
  <2>2. inflight' \in InfType /\ InflightDue'
      BY <1>0, <1>3, <2>1, TrackDue DEF TrackSent
  <2>3. MeshTypes'
      BY <1>0, <1>3, <2>2 DEF TrackSent, MeshTypes, mesh, core, Sent
  <2>4. NetDue'
      BY <1>0, <1>3, FewerOnTheWay DEF TrackSent
  <2>5. SendingDue'
      BY <1>0, <1>3 DEF TrackSent, SendingDue, MeshTypes, Busy, Due, Promised!CopiedAgain
  <2> QED BY <1>3, <1>q, <2>2, <2>3, <2>4, <2>5 DEF TrackSent, MeshInv, core
<1>4. ASSUME NEW m \in net, RecvItem(m) PROVE  MeshInv'
  <2> DEFINE n == m.to
             e == m.body
             targets == IF n \in blocks THEN {} ELSE ForwardTo(n, m.from, e)
             acked == (net \ {m}) \cup {Ack(n, m.from, HashOf[e])}
  <2>0. /\ n \in Nodes /\ m.from \in Nodes /\ e \in sent /\ e \in Events /\ Due(n, e)
        /\ HashOf[e] \in Hashes
      BY <1>0, <1>4 DEF RecvItem, NetDue, MeshTypes, Hashes
  <2>1. targets \in SUBSET Nodes /\ \A p \in targets : Due(p, e)
      BY <1>0, <2>0, PeersAreOthers DEF MeshTypes, Due, ForwardTo
  <2>2. /\ UNCHANGED mesh /\ todo' = todo /\ sent' = sent /\ sending' = sending /\ log' = log
      BY <1>4 DEF RecvItem
  <2> HIDE DEF targets
  <2>3. SendingDue'
      BY <2>2, <1>s
  <2>4. \A x \in {Ack(n, m.from, HashOf[e])} :
            x.kind = "ack" /\ x.to \in Nodes /\ x.body \in Hashes
      BY <2>0 DEF Ack
  <2>5. CASE net' = net \ {m} /\ UNCHANGED <<meshSeen, inflight, inbox>>
    <3>1. MeshTypes'
        BY <1>0, <2>2, <2>5 DEF MeshTypes, mesh
    <3>2. NetDue'
        BY <1>0, <2>2, <2>5, FewerOnTheWay
    <3> QED BY <2>2, <2>3, <2>5, <3>1, <3>2, <1>i, <1>q DEF MeshInv
  <2>6. CASE net' = acked /\ UNCHANGED <<meshSeen, inflight, inbox>>
    <3>1. MeshTypes'
        BY <1>0, <2>2, <2>6 DEF MeshTypes, mesh
    <3>2. NetDue'
        BY <1>0, <2>2, <2>4, <2>6 DEF NetDue, Due, Promised!CopiedAgain
    <3> QED BY <2>2, <2>3, <2>6, <3>1, <3>2, <1>i, <1>q DEF MeshInv
  <2>7. CASE /\ FirstSight(n, e)
             /\ meshSeen' = [meshSeen EXCEPT ![n] = @ \cup {e}]
             /\ net' = acked \cup Items(n, targets, e)
             /\ inflight' = IF targets = {} THEN inflight ELSE Track(n, e, targets)
             /\ IF Len(inbox[n]) < InboxCap
                THEN inbox' = [inbox EXCEPT ![n] = Append(@, e)]
                ELSE UNCHANGED inbox
    <3>1. inflight' \in InfType /\ InflightDue'
      <4>1. CASE targets = {}
          BY <1>0, <1>i, <2>2, <2>7, <4>1 DEF MeshTypes
      <4>2. CASE targets # {}
          BY <1>0, <2>0, <2>1, <2>2, <2>7, <4>2, TrackDue
      <4> QED BY <4>1, <4>2
    <3>2. \A k \in Nodes : meshSeen'[k] = IF k = n THEN meshSeen[n] \cup {e} ELSE meshSeen[k]
        BY <1>0, <2>7 DEF MeshTypes
    <3>3. inbox' \in [Nodes -> Seq(Events)]
      <4>1. inbox[n] \in Seq(Events) /\ inbox \in [Nodes -> Seq(Events)]
          BY <1>0, <2>0 DEF MeshTypes
      <4>2. Append(inbox[n], e) \in Seq(Events)
          BY <2>0, <4>1
      <4>3. inbox' = inbox \/ inbox' = [inbox EXCEPT ![n] = Append(inbox[n], e)]
          BY <2>7
      <4> HIDE DEF e
      <4> QED BY <4>1, <4>2, <4>3
    <3>4. MeshTypes'
      <4>1. meshSeen' \in [Nodes -> SUBSET Events]
          BY <1>0, <2>0, <2>7 DEF MeshTypes
      <4> QED BY <1>0, <2>2, <3>1, <3>3, <4>1 DEF MeshTypes, mesh
    <3>5. NetDue'
      <4>1. \A x \in Items(n, targets, e) :
                x.kind = "item" /\ x.to \in Nodes /\ x.from \in Nodes /\ x.body \in sent /\ Due(x.to, x.body)
          BY <1>0, <2>0, <2>1, ItemsDue DEF MeshTypes
      <4> QED BY <1>0, <2>2, <2>4, <2>7, <4>1 DEF NetDue, Due, Promised!CopiedAgain
    <3>6. QueueDue'
      <4>1. \A i \in DOMAIN inbox[n] : inbox[n][i] # e
          BY <1>0, <2>0, <2>7 DEF FirstSight, QueueDue
      <4>2. \A i \in DOMAIN log[n] : log[n][i] # e
          BY <1>0, <2>0, <2>7 DEF FirstSight, QueueDue
      <4>3. CASE inbox' = inbox
          BY <1>0, <2>2, <3>2, <4>3 DEF QueueDue, Due, Promised!CopiedAgain
      <4>4. CASE inbox' = [inbox EXCEPT ![n] = Append(@, e)]
        <5>1. /\ \A k \in Nodes : k # n => inbox'[k] = inbox[k]
              /\ DOMAIN inbox'[n] = 1 .. (Len(inbox[n]) + 1)
              /\ DOMAIN inbox[n] = 1 .. Len(inbox[n]) /\ Len(inbox[n]) \in Nat
              /\ \A i \in DOMAIN inbox[n] : inbox'[n][i] = inbox[n][i]
              /\ inbox'[n][Len(inbox[n]) + 1] = e
            BY <1>0, <2>0, <4>4 DEF MeshTypes
        <5>2. \A i \in DOMAIN inbox'[n] : i \in DOMAIN inbox[n] \/ (inbox'[n][i] = e /\ i = Len(inbox[n]) + 1)
          <6>1. inbox[n] \in Seq(Events) /\ inbox'[n] = Append(inbox[n], e)
              BY <1>0, <2>0, <4>4 DEF MeshTypes
          <6> HIDE DEF e
          <6>2. \A i \in DOMAIN Append(inbox[n], e) :
                   \/ Append(inbox[n], e)[i] = e /\ i = Len(inbox[n]) + 1
                   \/ i \in DOMAIN inbox[n] /\ Append(inbox[n], e)[i] = inbox[n][i]
              BY <2>0, <6>1, Appended
          <6> QED BY <6>1, <6>2, Zenon
        <5>3. ASSUME NEW i \in DOMAIN inbox'[n]
              PROVE  /\ inbox'[n][i] \in meshSeen'[n] \cap sent' /\ Due(n, inbox'[n][i])
                     /\ \A j \in DOMAIN inbox'[n] : i # j => inbox'[n][i] # inbox'[n][j]
                     /\ \A j \in DOMAIN log'[n] : inbox'[n][i] # log'[n][j]
            BY <1>0, <2>0, <2>2, <3>2, <4>1, <4>2, <5>1, <5>2 DEF QueueDue
        <5> QED BY <1>0, <2>0, <2>2, <3>2, <5>1, <5>3 DEF QueueDue, Due, Promised!CopiedAgain
      <4> QED BY <2>7, <4>3, <4>4
    <3> QED BY <2>3, <3>1, <3>4, <3>5, <3>6 DEF MeshInv
  <2> QED BY <1>4, <2>5, <2>6, <2>7 DEF RecvItem, targets
<1>5. ASSUME NEW m \in net, RecvAck(m) PROVE  MeshInv'
  <2>0. m.to \in Nodes /\ m.body \in Hashes
      BY <1>0, <1>5 DEF RecvAck, NetDue
  <2> DEFINE new == [inflight[m.to][m.body] EXCEPT !.to = @ \ {m.from}]
  <2>a. new \in [ev : Events, to : SUBSET Nodes, tries : Nat]
    <3> DEFINE old == inflight[m.to][m.body]
    <3>1. old \in [ev : Events, to : SUBSET Nodes, tries : Nat]
        BY <1>0, <2>0 DEF MeshTypes
    <3> HIDE DEF old
    <3>2. [old EXCEPT !.to = @ \ {m.from}] \in [ev : Events, to : SUBSET Nodes, tries : Nat]
        BY <3>1
    <3> QED BY <3>2 DEF old
  <2>b. inflight' = [inflight EXCEPT ![m.to][m.body] = new]
      BY <1>5 DEF RecvAck
  <2>1. inflight' \in InfType
    <3> HIDE DEF new
    <3> QED BY <1>0, <2>0, <2>a, <2>b DEF MeshTypes
  <2>2. \A n \in Nodes : \A h \in Hashes :
               /\ inflight'[n][h].to \subseteq inflight[n][h].to
               /\ inflight'[n][h].ev = inflight[n][h].ev
      BY <1>0, <1>5, <2>0 DEF RecvAck, MeshTypes
  <2>3. MeshTypes'
      BY <1>0, <1>5, <2>1 DEF RecvAck, MeshTypes, mesh, core
  <2>4. NetDue'
      BY <1>0, <1>5, FewerOnTheWay DEF RecvAck
  <2>5. InflightDue'
      BY <1>0, <1>5, <2>1, <2>2, FewerOwe DEF RecvAck
  <2> QED BY <1>5, <1>s, <1>q, <2>3, <2>4, <2>5 DEF RecvAck, MeshInv, core
<1>6. ASSUME NEW n \in Nodes, NEW h \in Hashes, Retransmit(n, h) PROVE  MeshInv'
  <2> DEFINE inf == inflight[n][h]
  <2>0. /\ inf \in [ev : Events, to : SUBSET Nodes, tries : Nat]
        /\ inf.ev \in sent /\ \A p \in inf.to : Due(p, inf.ev)
      BY <1>0, <1>6 DEF Retransmit, InflightDue, MeshTypes
  <2> DEFINE new == IF inf.tries < MaxAttempts THEN [inf EXCEPT !.tries = @ + 1] ELSE Idle
  <2>a. inflight' = [inflight EXCEPT ![n][h] = new]
      BY <1>6 DEF Retransmit
  <2>b. /\ new \in [ev : Events, to : SUBSET Nodes, tries : Nat]
        /\ new.to \subseteq inf.to /\ (new.to # {} => new.ev = inf.ev)
    <3>1. Idle.to = {}
        BY DEF Idle
    <3> QED BY <2>0, <3>1, IdleTyped
  <2> HIDE DEF new
  <2>1. inflight' \in InfType
      BY <1>0, <2>a, <2>b DEF MeshTypes
  <2>2. \A k \in Nodes : \A g \in Hashes :
               /\ inflight'[k][g].to \subseteq inflight[k][g].to
               /\ inflight'[k][g].to # {} => inflight'[k][g].ev = inflight[k][g].ev
      BY <1>0, <2>a, <2>b DEF MeshTypes
  <2>3. MeshTypes'
      BY <1>0, <1>6, <2>1 DEF Retransmit, MeshTypes, mesh, core
  <2>4. NetDue'
    <3>1. \A x \in Items(n, inf.to, inf.ev) :
              x.kind = "item" /\ x.to \in Nodes /\ x.from \in Nodes /\ x.body \in sent /\ Due(x.to, x.body)
        BY <1>0, <2>0, ItemsDue DEF MeshTypes
    <3>2. net' \subseteq net \cup Items(n, inf.to, inf.ev) /\ sent' = sent
        BY <1>6 DEF Retransmit
    <3> QED BY <1>0, <3>1, <3>2 DEF NetDue, Due, Promised!CopiedAgain
  <2>5. InflightDue'
      BY <1>0, <1>6, <2>1, <2>2, FewerOwe DEF Retransmit
  <2> QED BY <1>6, <1>s, <1>q, <2>3, <2>4, <2>5 DEF Retransmit, MeshInv, core
<1>7. ASSUME NEW n \in Nodes, Apply(n) PROVE  MeshInv'
  <2> DEFINE e == Head(inbox[n])
  <2>1. /\ \A k \in Nodes : k # n => inbox'[k] = inbox[k]
        /\ inbox' \in [Nodes -> Seq(Events)] /\ Len(inbox[n]) \in Nat \ {0}
        /\ DOMAIN inbox[n] = 1 .. Len(inbox[n])
        /\ DOMAIN inbox'[n] = 1 .. (Len(inbox[n]) - 1)
        /\ \A i \in DOMAIN inbox'[n] : inbox'[n][i] = inbox[n][i + 1]
        /\ e = inbox[n][1] /\ e \in Events
      BY <1>0, <1>7 DEF Apply, MeshTypes
  <2>2. log' = log \/ log' = [log EXCEPT ![n] = Append(@, e)]
      BY <1>7 DEF Apply
  <2>a. log \in [Nodes -> Seq(Events)] /\ log[n] \in Seq(Events) /\ e \in Events
      BY <1>0, <2>1 DEF MeshTypes
  <2>b. Append(log[n], e) \in Seq(Events)
      BY <2>a
  <2>d. \A i \in DOMAIN Append(log[n], e) :
            Append(log[n], e)[i] = e \/ (i \in DOMAIN log[n] /\ Append(log[n], e)[i] = log[n][i])
    <3> HIDE DEF e
    <3>1. \A i \in DOMAIN Append(log[n], e) :
             \/ Append(log[n], e)[i] = e /\ i = Len(log[n]) + 1
             \/ i \in DOMAIN log[n] /\ Append(log[n], e)[i] = log[n][i]
        BY <2>a, Appended
    <3> QED BY <3>1, Zenon
  <2> DEFINE longer == Append(log[n], e)
  <2>e. log' = log \/ log' = [log EXCEPT ![n] = longer]
      BY <2>2
  <2>f. longer \in Seq(Events) /\ \A i \in DOMAIN longer : longer[i] = e \/ (i \in DOMAIN log[n] /\ longer[i] = log[n][i])
      BY <2>b, <2>d
  <2> HIDE DEF longer, e
  <2>3. log' \in [Nodes -> Seq(Events)]
      BY <2>a, <2>e, <2>f
  <2>4. /\ \A k \in Nodes : k # n => log'[k] = log[k]
        /\ \A i \in DOMAIN log'[n] : log'[n][i] = e \/ (i \in DOMAIN log[n] /\ log'[n][i] = log[n][i])
      BY <2>a, <2>e, <2>f
  <2> USE DEF e
  <2>5. sent' = sent /\ meshSeen' = meshSeen /\ net' = net /\ inflight' = inflight /\ sending' = sending
        /\ UNCHANGED mesh /\ todo' = todo
      BY <1>7 DEF Apply
  <2>6. e \in meshSeen[n] /\ \A i \in DOMAIN inbox'[n] : i + 1 \in DOMAIN inbox[n] /\ inbox'[n][i] # e
      BY <1>0, <2>1 DEF QueueDue
  <2> HIDE DEF e
  <2>7. QueueDue'
    <3>1. ASSUME NEW i \in DOMAIN inbox'[n]
          PROVE  /\ inbox'[n][i] \in meshSeen[n] \cap sent /\ Due(n, inbox'[n][i])
                 /\ \A j \in DOMAIN inbox'[n] : i # j => inbox'[n][i] # inbox'[n][j]
                 /\ \A j \in DOMAIN log'[n] : inbox'[n][i] # log'[n][j]
      <4>1. /\ i + 1 \in DOMAIN inbox[n] /\ inbox'[n][i] = inbox[n][i + 1] /\ i \in Nat
          BY <2>1, <2>6
      <4>2. /\ inbox[n][i + 1] \in meshSeen[n] \cap sent /\ Due(n, inbox[n][i + 1])
            /\ \A j \in DOMAIN inbox[n] : i + 1 # j => inbox[n][i + 1] # inbox[n][j]
            /\ \A j \in DOMAIN log[n] : inbox[n][i + 1] # log[n][j]
          BY <1>0, <4>1 DEF QueueDue
      <4>3. ASSUME NEW j \in DOMAIN inbox'[n], i # j PROVE  inbox'[n][i] # inbox'[n][j]
          BY <2>1, <2>6, <4>1, <4>2, <4>3
      <4>4. \A j \in DOMAIN log'[n] : inbox'[n][i] # log'[n][j]
          BY <2>4, <2>6, <4>1, <4>2
      <4> QED BY <4>1, <4>2, <4>3, <4>4
    <3>2. \A i \in DOMAIN log'[n] : log'[n][i] \in meshSeen[n]
        BY <1>0, <2>4, <2>6 DEF QueueDue
    <3>3. ASSUME NEW k \in Nodes, k # n
          PROVE  inbox'[k] = inbox[k] /\ log'[k] = log[k] /\ meshSeen'[k] = meshSeen[k]
        BY <2>1, <2>4, <2>5, <3>3
    <3>4. meshSeen'[n] = meshSeen[n] /\ sent' = sent
        BY <2>5
    <3> QED BY <1>0, <3>1, <3>2, <3>3, <3>4 DEF QueueDue, Due, Promised!CopiedAgain
  <2>8. MeshTypes'
      BY <1>0, <2>1, <2>3, <2>5 DEF MeshTypes, mesh
  <2>9. NetDue'
      BY <1>0, <2>5, FewerOnTheWay
  <2> QED BY <1>s, <1>i, <2>5, <2>7, <2>8, <2>9 DEF MeshInv
<1>8. ASSUME NEW m \in net, Lose(m) PROVE  MeshInv'
  <2> USE <1>8 DEF Lose, mesh, core
  <2>1. MeshTypes'
      BY <1>0 DEF MeshTypes
  <2>2. NetDue'
      BY <1>0, FewerOnTheWay
  <2> QED BY <2>1, <2>2, <1>s, <1>i, <1>q DEF MeshInv
<1>9. ASSUME NEW n \in Nodes, NEW p \in Nodes, LinkDown(n, p) PROVE  MeshInv'
  <2> USE <1>9 DEF LinkDown, core
  <2>1. MeshTypes'
      BY <1>0 DEF MeshTypes
  <2>2. NetDue'
      BY <1>0, FewerOnTheWay
  <2> QED BY <2>1, <2>2, <1>s, <1>i, <1>q DEF MeshInv
<1>10. ASSUME NEW n \in Nodes, NEW p \in Nodes, LinkUp(n, p) PROVE  MeshInv'
  <2> USE <1>10 DEF LinkUp, core
  <2>1. MeshTypes'
      BY <1>0 DEF MeshTypes, Pairs
  <2>2. NetDue'
      BY <1>0, FewerOnTheWay
  <2> QED BY <2>1, <2>2, <1>s, <1>i, <1>q DEF MeshInv
<1>11. ASSUME NEW n \in Nodes, Restarted(n) PROVE  MeshInv'
  <2>1. inflight' \in InfType
      BY <1>0, <1>11, IdleTyped DEF Restarted, MeshTypes
  <2>2. MeshTypes'
      BY <1>0, <1>11, <2>1 DEF Restarted, MeshTypes, Sent
  <2>3. NetDue'
      BY <1>0, <1>11, FewerOnTheWay DEF Restarted
  <2>4. SendingDue'
      BY <1>0, <1>11 DEF Restarted, MeshTypes, SendingDue, Busy, Due, Promised!CopiedAgain
  <2>5. InflightDue'
    <3>1. \A k \in Nodes : \A h \in Hashes :
              inflight'[k][h] = IF k = n THEN Idle ELSE inflight[k][h]
        BY <1>0, <1>11 DEF Restarted, MeshTypes
    <3>2. Idle.to = {}
        BY DEF Idle
    <3> QED BY <1>0, <1>11, <2>1, <3>1, <3>2, FewerOwe DEF Restarted
  <2>6. QueueDue'
    <3>1. \A k \in Nodes :
              IF k = n THEN inbox'[k] = <<>> /\ log'[k] = <<>>
              ELSE inbox'[k] = inbox[k] /\ log'[k] = log[k] /\ meshSeen'[k] = meshSeen[k]
        BY <1>0, <1>11 DEF Restarted, MeshTypes
    <3>2. sent' = sent
        BY <1>11 DEF Restarted
    <3> QED BY <1>0, <3>1, <3>2 DEF QueueDue, Due, Promised!CopiedAgain
  <2> QED BY <2>2, <2>3, <2>4, <2>5, <2>6 DEF MeshInv
<1>12. ASSUME NEW n \in Nodes, NEW p \in Nodes, Repair(n, p) PROVE  MeshInv'
  <2>1. \A k \in Nodes : \A h \in Hashes :
            inflight'[k][h] = IF k = n THEN [inflight[n][h] EXCEPT !.to = @ \ {p}] ELSE inflight[k][h]
    <3>1. inflight' = [inflight EXCEPT ![n] = [h \in Hashes |-> [inflight[n][h] EXCEPT !.to = @ \ {p}]]]
        BY <1>12 DEF Repair
    <3> QED BY <1>0, <3>1 DEF MeshTypes
  <2>2. \A k \in Nodes : \A h \in Hashes :
            inflight[k][h] \in [ev : Events, to : SUBSET Nodes, tries : Nat]
      BY <1>0 DEF MeshTypes
  <2>3. ASSUME NEW k \in Nodes, NEW h \in Hashes
        PROVE
            /\ inflight'[k][h] \in [ev : Events, to : SUBSET Nodes, tries : Nat]
            /\ inflight'[k][h].to \subseteq inflight[k][h].to
            /\ inflight'[k][h].ev = inflight[k][h].ev
    <3> DEFINE old == inflight[k][h]
    <3>1. old \in [ev : Events, to : SUBSET Nodes, tries : Nat]
        BY <2>2
    <3>2. inflight'[k][h] = IF k = n THEN [old EXCEPT !.to = @ \ {p}] ELSE old
        BY <2>1
    <3> HIDE DEF old
    <3>3. LET new == [old EXCEPT !.to = @ \ {p}]
          IN  /\ new \in [ev : Events, to : SUBSET Nodes, tries : Nat]
              /\ new.to \subseteq old.to /\ new.ev = old.ev
        BY <3>1
    <3>4. /\ inflight'[k][h] \in [ev : Events, to : SUBSET Nodes, tries : Nat]
          /\ inflight'[k][h].to \subseteq old.to /\ inflight'[k][h].ev = old.ev
        BY <3>1, <3>2, <3>3
    <3> QED BY <3>4 DEF old
  <2>4. inflight' \in InfType
    <3>1. inflight' = [inflight EXCEPT ![n] = [h \in Hashes |-> [inflight[n][h] EXCEPT !.to = @ \ {p}]]]
        BY <1>12 DEF Repair
    <3>2. [h \in Hashes |-> [inflight[n][h] EXCEPT !.to = @ \ {p}]]
             \in [Hashes -> [ev : Events, to : SUBSET Nodes, tries : Nat]]
        BY <2>2
    <3> QED BY <1>0, <3>1, <3>2 DEF MeshTypes
  <2>5. MeshTypes'
      BY <1>0, <1>12, <2>4 DEF Repair, MeshTypes, core
  <2>6. NetDue'
      BY <1>0, <1>12, FewerOnTheWay DEF Repair
  <2>7. InflightDue'
      BY <1>0, <1>12, <2>3, <2>4, FewerOwe DEF Repair
  <2> QED BY <1>12, <1>s, <1>q, <2>5, <2>6, <2>7 DEF Repair, MeshInv, core
<1>13. ASSUME NEW n \in Nodes, NEW p \in Nodes, Confirm(n, p) PROVE  MeshInv'
  <2> USE <1>13 DEF Confirm, core
  <2>1. MeshTypes'
      BY <1>0 DEF MeshTypes
  <2>2. NetDue'
      BY <1>0, FewerOnTheWay
  <2> QED BY <2>1, <2>2, <1>s, <1>i, <1>q DEF MeshInv
<1>14. ASSUME NEW n \in Nodes, SetFirewall(n) PROVE  MeshInv'
  <2> USE <1>14 DEF SetFirewall, core
  <2>1. MeshTypes'
      BY <1>0 DEF MeshTypes
  <2>2. NetDue'
      BY <1>0, FewerOnTheWay
  <2> QED BY <2>1, <2>2, <1>s, <1>i, <1>q DEF MeshInv
<1> QED BY <1>1, <1>2, <1>3, <1>4, <1>5, <1>6, <1>7, <1>8, <1>9, <1>10, <1>11, <1>12, <1>13, <1>14
       DEF MeshNext, Recv

LEMMA MeshStart == MeshInit => MeshInv
<1> SUFFICES ASSUME MeshInit PROVE  MeshInv
    OBVIOUS
<1>1. linked \subseteq Pairs /\ paired \subseteq Pairs /\ todo \subseteq Events
    BY MeshAssumption DEF MeshInit
<1>2. inflight \in [Nodes -> [Hashes -> [ev : Events, to : SUBSET Nodes, tries : Nat]]]
    BY IdleTyped DEF MeshInit
<1>3. MeshTypes
    BY <1>1, <1>2 DEF MeshInit, MeshTypes, Sent
<1>4. NetDue /\ SendingDue /\ QueueDue
    BY DEF MeshInit, NetDue, SendingDue, QueueDue, Busy
<1>5. InflightDue
    BY DEF MeshInit, InflightDue, Idle
<1> QED BY <1>3, <1>4, <1>5 DEF MeshInv

\* Every step of the mesh is a step of the broadcast, or none of its own: copying
\* sends, applying delivers, a restart forgets what was delivered.
LEMMA MeshRefines ==
    MeshInv /\ [MeshNext]_meshVars => [Promised!BNext]_(<<sent, log>>)
<1> SUFFICES ASSUME MeshInv, [MeshNext]_meshVars PROVE  [Promised!BNext]_(<<sent, log>>)
    OBVIOUS
<1>1. ASSUME NEW e \in Events, Copy(e) PROVE  Promised!Send(e)
    BY <1>1 DEF Copy, Promised!Send
<1>2. ASSUME NEW n \in Nodes, Restarted(n) PROVE  Promised!Restart(n)
    BY <1>2 DEF Restarted, Promised!Restart
<1>3. ASSUME NEW n \in Nodes, Apply(n), log' # log PROVE  \E e \in Events : Promised!Deliver(n, e)
  <2> DEFINE e == Head(inbox[n])
  <2>1. log' = [log EXCEPT ![n] = Append(@, e)] /\ sent' = sent
      BY <1>3 DEF Apply
  <2>2. 1 \in DOMAIN inbox[n] /\ e = inbox[n][1] /\ e \in Events
      BY <1>3 DEF Apply, MeshInv, MeshTypes
  <2>3. /\ e \in sent /\ Due(n, e) /\ \A j \in DOMAIN log[n] : e # log[n][j]
      BY <2>2 DEF MeshInv, QueueDue
  <2> HIDE DEF e
  <2>4. Promised!Deliver(n, e)
      BY <2>1, <2>3 DEF Promised!Deliver, Due, Promised!Range
  <2> QED BY <2>2, <2>4
<1>6. ASSUME NEW n \in Nodes, Apply(n), log' = log PROVE  UNCHANGED <<sent, log>>
    BY <1>6 DEF Apply
<1>4. CASE \/ \E m \in net : Recv(m) \/ Lose(m)
           \/ \E n \in Nodes :
                 \/ TrackSent(n) \/ SetFirewall(n) \/ \E h \in Hashes : Retransmit(n, h)
                 \/ \E p \in Nodes : LinkDown(n, p) \/ LinkUp(n, p) \/ Repair(n, p) \/ Confirm(n, p)
  <2>1. UNCHANGED <<sent, log>>
      BY <1>4 DEF Recv, RecvItem, RecvAck, Lose, TrackSent, SetFirewall, Retransmit, LinkDown, LinkUp,
         Repair, Confirm, core
  <2> QED BY <2>1
<1>5. CASE UNCHANGED meshVars
    BY <1>5 DEF meshVars, core
<1> QED BY <1>1, <1>2, <1>3, <1>4, <1>5, <1>6 DEF MeshNext, Promised!BNext

\* The mesh implements the broadcast: whatever is lost, sent again, relayed in
\* circles or delivered over two paths, a daemon hands an event to its clipboard at
\* most once while it runs, and only if some device copied it (SendItem,
\* forward_frames, SeenSet).
THEOREM MeshImplementsBroadcast == MeshSpec => MeshIsBroadcast
<1>1. MeshInit => Promised!BInit
    BY DEF MeshInit, Promised!BInit
<1> QED BY <1>1, MeshStart, MeshStep, MeshRefines, PTL DEF MeshSpec, MeshIsBroadcast, Promised!BSpec

\* What the broadcast promises.
LEMMA DeliveredOnce ==
    ASSUME NEW n \in Nodes, NEW e \in Events, log \in [Nodes -> Seq(Events)],
           Promised!Deliver(n, e), Promised!AtMostOnce, Promised!OnlyCopied
    PROVE  Promised!AtMostOnce' /\ Promised!OnlyCopied'
<1>1. /\ e \in sent /\ sent' = sent /\ \A i \in DOMAIN log[n] : log[n][i] # e
      /\ log' = [log EXCEPT ![n] = Append(log[n], e)]
    BY DEF Promised!Deliver, Promised!Range
<1>2. \A m \in Nodes : m # n => log'[m] = log[m]
    BY <1>1
<1>3. /\ log'[n] = Append(log[n], e) /\ log[n] \in Seq(Events)
      /\ DOMAIN log'[n] = 1 .. (Len(log[n]) + 1) /\ DOMAIN log[n] = 1 .. Len(log[n])
      /\ Len(log[n]) \in Nat
      /\ log'[n][Len(log[n]) + 1] = e
      /\ \A i \in DOMAIN log[n] : log'[n][i] = log[n][i]
    BY <1>1
<1>4. Promised!AtMostOnce'
  <2>1. ASSUME NEW i \in DOMAIN log'[n], NEW j \in DOMAIN log'[n], log'[n][i] = log'[n][j]
        PROVE  i = j
    <3>1. /\ i \in DOMAIN log[n] \/ i = Len(log[n]) + 1
          /\ j \in DOMAIN log[n] \/ j = Len(log[n]) + 1
        BY <1>3, <2>1
    <3>2. CASE i \in DOMAIN log[n] /\ j \in DOMAIN log[n]
      <4>1. log[n][i] = log[n][j]
          BY <1>3, <2>1, <3>2
      <4> QED BY <3>2, <4>1 DEF Promised!AtMostOnce
    <3> QED BY <1>1, <1>3, <2>1, <3>1, <3>2
  <2> QED BY <1>2, <2>1 DEF Promised!AtMostOnce
<1>5. Promised!OnlyCopied'
  <2>1. \A i \in DOMAIN log'[n] : log'[n][i] \in sent
      BY <1>1, <1>3 DEF Promised!OnlyCopied, Promised!Range
  <2> QED BY <1>1, <1>2, <2>1 DEF Promised!OnlyCopied, Promised!Range
<1> QED BY <1>4, <1>5

\* A daemon hands an event to its clipboard at most once while it runs, and only
\* one that some device copied (SeenSet, DedupRing, the relay of forward_frames).
THEOREM AppliedOnceAndCopied == MeshSpec => [](Promised!AtMostOnce /\ Promised!OnlyCopied)
<1> DEFINE Kept == Promised!AtMostOnce /\ Promised!OnlyCopied
<1>1. MeshInit => Kept
    BY DEF MeshInit, Promised!AtMostOnce, Promised!OnlyCopied, Promised!Range
<1>2. MeshInv /\ Kept /\ [Promised!BNext]_(<<sent, log>>) => Kept'
  <2> SUFFICES ASSUME MeshInv, Kept, [Promised!BNext]_(<<sent, log>>) PROVE  Kept'
      OBVIOUS
  <2>0. log \in [Nodes -> Seq(Events)]
      BY DEF MeshInv, MeshTypes
  <2>1. ASSUME NEW e \in Events, Promised!Send(e) PROVE  Kept'
      BY <2>1 DEF Promised!Send, Promised!AtMostOnce, Promised!OnlyCopied
  <2>2. ASSUME NEW n \in Nodes, Promised!Restart(n) PROVE  Kept'
    <3>1. \A m \in Nodes : log'[m] \in {log[m], <<>>} /\ sent' = sent
        BY <2>0, <2>2 DEF Promised!Restart
    <3> QED BY <3>1 DEF Promised!AtMostOnce, Promised!OnlyCopied, Promised!Range
  <2>3. ASSUME NEW n \in Nodes, NEW e \in Events, Promised!Deliver(n, e) PROVE  Kept'
      BY <2>0, <2>3, DeliveredOnce
  <2>4. CASE UNCHANGED <<sent, log>>
      BY <2>4 DEF Promised!AtMostOnce, Promised!OnlyCopied, Promised!Range
  <2> QED BY <2>1, <2>2, <2>3, <2>4 DEF Promised!BNext
<1> HIDE DEF Kept
<1>3. MeshSpec => []Kept
    BY <1>1, <1>2, MeshStart, MeshStep, MeshRefines, PTL DEF MeshSpec
<1> QED BY <1>3 DEF Kept

-----------------------------------------------------------------------------
\* The chunked transfer.

\* Whoever has a frame on the way or owes an item began to send one.
FromStarted ==
    /\ outgoing \in [Senders -> [ver : Nat, owed : BOOLEAN, tries : Nat, rounds : Nat]]
    /\ \A s \in Senders : outgoing[s].owed => s \in started
    /\ started \subseteq Senders
    /\ \A m \in wire : IF FromSender(m) THEN m.from \in started ELSE m.to \in Senders

AcceptedFromStarted == \A a \in accepted : a[1] \in started

\* An acknowledgement on the way was earned: its addressee sent a payload that was
\* verified and taken.
AcksEarned == \A m \in wire : ~FromSender(m) /\ m.kind = "ack" => HoldsIntact(m.to)

TransferInv == FromStarted /\ AcceptedFromStarted /\ AcksEarned

LEMMA FramesAreOwn ==
    ASSUME NEW s, NEW v
    PROVE  \A m \in Frames(s, v) : m.from = s /\ FromSender(m)
BY DEF Frames, Head_, Chunk, FromSender

\* Receiving adds an acknowledgement to the datagrams, together with a payload of the
\* sender of the frame that passed the verification.
LEMMA ReceiveKeeps ==
    ASSUME TransferInv, NEW m \in wire, FromSender(m), NEW p, Receive(m, p),
           outgoing' = outgoing, started' = started
    PROVE  TransferInv'
<1>1. /\ wire' = (wire \ {m}) \cup Acknowledges(m.from, p)
      /\ \/ Acknowledges(m.from, p) = {} /\ accepted' = accepted
         \/ /\ Acknowledges(m.from, p) = {AckOf(m.from)} /\ Verify(p.chunks)
            /\ accepted' = accepted \cup {<<m.from, p.chunks>>}
    BY DEF Receive, Acknowledges
<1>2. ~FromSender(AckOf(m.from)) /\ AckOf(m.from).to = m.from /\ m.from \in started
    BY DEF FromSender, AckOf, TransferInv, FromStarted
<1>3. FromStarted'
    BY <1>1, <1>2 DEF TransferInv, FromStarted
<1>4. AcksEarned'
  <2>1. accepted \subseteq accepted'
      BY <1>1
  <2>2. Acknowledges(m.from, p) # {} => HoldsIntact(m.from)'
    <3> DEFINE a == <<m.from, p.chunks>>
    <3>1. a[1] = m.from /\ a[2] = p.chunks
        OBVIOUS
    <3>2. Acknowledges(m.from, p) # {} => a \in accepted' /\ Verify(a[2])
        BY <1>1, <3>1
    <3> HIDE DEF a
    <3>3. Acknowledges(m.from, p) # {} => \E x \in accepted' : x[1] = m.from /\ Verify(x[2])
        BY <3>1, <3>2
    <3> QED BY <3>3 DEF HoldsIntact, Verify
  <2>3. SUFFICES ASSUME NEW k \in wire', ~FromSender(k), k.kind = "ack"
                 PROVE  HoldsIntact(k.to)'
      BY DEF AcksEarned, FromSender
  <2>4. CASE k \in wire
      BY <2>1, <2>3, <2>4 DEF TransferInv, AcksEarned, HoldsIntact, Verify
  <2>5. CASE k \in Acknowledges(m.from, p)
      BY <1>1, <1>2, <2>2, <2>5
  <2> QED BY <1>1, <2>3, <2>4, <2>5
<1>5. AcceptedFromStarted'
    BY <1>1, <1>2 DEF TransferInv, AcceptedFromStarted
<1> QED BY <1>3, <1>4, <1>5 DEF TransferInv

LEMMA TransferStep == TransferInv /\ [TransferNext]_transferVars => TransferInv'
<1> SUFFICES ASSUME TransferInv, [TransferNext]_transferVars PROVE  TransferInv'
    OBVIOUS
<1>1. FromStarted /\ AcceptedFromStarted /\ AcksEarned
    BY DEF TransferInv
<1> DEFINE K == [ver : Nat, owed : BOOLEAN, tries : Nat, rounds : Nat]
<1>2. outgoing \in [Senders -> K] /\ \A s \in Senders : outgoing[s].owed => s \in started
    BY <1>1 DEF FromStarted
<1>3. NotOwed \in K /\ ~NotOwed.owed
    BY DEF NotOwed
<1>4. \A s \in Senders :
        /\ [outgoing[s] EXCEPT !.tries = @ + 1] \in K /\ [outgoing[s] EXCEPT !.rounds = @ + 1] \in K
        /\ [outgoing[s] EXCEPT !.tries = @ + 1].owed = outgoing[s].owed
        /\ [outgoing[s] EXCEPT !.rounds = @ + 1].owed = outgoing[s].owed
    BY <1>2
<1> HIDE DEF K
\* What a step that accepts nothing has to show.
<1>5. ASSUME accepted' = accepted, started \subseteq started', started' \subseteq Senders,
             \/ outgoing' = outgoing
             \/ \E s \in Senders : \E r \in K :
                   outgoing' = [outgoing EXCEPT ![s] = r] /\ (r.owed => s \in started'),
             \A m \in wire' : \/ m \in wire
                              \/ FromSender(m) /\ m.from \in started'
                              \/ ~FromSender(m) /\ m.to \in Senders /\ m.kind # "ack"
      PROVE  TransferInv'
  <2>1. outgoing' \in [Senders -> K] /\ \A s \in Senders : outgoing'[s].owed => s \in started'
      BY <1>2, <1>5
  <2>2. \A m \in wire' : IF FromSender(m) THEN m.from \in started' ELSE m.to \in Senders
      BY <1>1, <1>5 DEF FromStarted
  <2>3. FromStarted'
      BY <1>5, <2>1, <2>2 DEF FromStarted, K
  <2>4. AcksEarned'
      BY <1>1, <1>5 DEF AcksEarned, HoldsIntact, Verify
  <2> QED BY <1>1, <1>5, <2>3, <2>4 DEF TransferInv, AcceptedFromStarted
<1>6. started \subseteq Senders /\ \A m \in wire : ~FromSender(m) => m.to \in Senders
    BY <1>1 DEF FromStarted
<1>7. CASE UNCHANGED transferVars
    BY <1>5, <1>6, <1>7 DEF transferVars
<1>8. ASSUME NEW m \in wire, RecvHead(m) \/ RecvChunk(m) PROVE  TransferInv'
    BY <1>8, ReceiveKeeps DEF RecvHead, RecvChunk, FromSender
<1>9. ASSUME NEW m \in wire, RecvNak(m) PROVE  TransferInv'
  <2> DEFINE s == m.to
  <2>1. s \in Senders
      BY <1>6, <1>9 DEF RecvNak, FromSender
  <2>2. \A k \in Answer(s, m) : k.from = s /\ FromSender(k) /\ outgoing[s].owed
      BY DEF Answer, Head_, Chunk, FromSender
  <2>3. accepted' = accepted /\ started' = started /\ wire' = (wire \ {m}) \cup Answer(s, m)
      BY <1>9 DEF RecvNak
  <2>4. \/ outgoing' = outgoing
        \/ outgoing' = [outgoing EXCEPT ![s] = [outgoing[s] EXCEPT !.rounds = @ + 1]]
    <3>1. \/ outgoing' = outgoing
          \/ outgoing' = [outgoing EXCEPT ![s].rounds = @ + 1]
        BY <1>9 DEF RecvNak
    <3> QED BY <3>1
  <2> HIDE DEF s
  <2> QED BY <1>2, <1>4, <1>5, <1>6, <2>1, <2>2, <2>3, <2>4
<1>10. ASSUME NEW m \in wire, RecvAckOf(m) PROVE  TransferInv'
  <2>1. m.to \in Senders
      BY <1>6, <1>10 DEF RecvAckOf, FromSender
  <2> QED BY <1>3, <1>5, <1>6, <1>10, <2>1 DEF RecvAckOf
<1>11. ASSUME NEW m \in wire, Vanish(m) PROVE  TransferInv'
    BY <1>5, <1>6, <1>11 DEF Vanish
<1>12. ASSUME NEW s \in Senders, SendNak(s) PROVE  TransferInv'
  <2>1. \A h, x : /\ ~FromSender(Nak(s, h, x)) /\ Nak(s, h, x).to = s
                   /\ Nak(s, h, x).kind # "ack"
      BY DEF Nak, FromSender
  <2> QED BY <1>5, <1>6, <1>12, <2>1 DEF SendNak
<1>13. ASSUME NEW s \in Senders, SendAgain(s) PROVE  TransferInv'
  <2>1. outgoing[s].owed /\ s \in started /\ accepted' = accepted /\ started' = started
      BY <1>2, <1>13 DEF SendAgain
  <2>2. \A k \in Frames(s, outgoing[s].ver) : k.from = s /\ FromSender(k)
      BY FramesAreOwn
  <2>3. wire' \subseteq wire \cup Frames(s, outgoing[s].ver)
      BY <1>13 DEF SendAgain
  <2>4. \/ outgoing' = [outgoing EXCEPT ![s] = [outgoing[s] EXCEPT !.tries = @ + 1]]
        \/ outgoing' = [outgoing EXCEPT ![s] = NotOwed]
    <3>1. \/ outgoing' = [outgoing EXCEPT ![s].tries = @ + 1]
          \/ outgoing' = [outgoing EXCEPT ![s] = NotOwed]
        BY <1>13 DEF SendAgain
    <3> QED BY <3>1
  <2> QED BY <1>3, <1>4, <1>5, <1>6, <2>1, <2>2, <2>3, <2>4
<1>14. ASSUME NEW s \in Senders, CleanUp(s) PROVE  TransferInv'
    BY <1>5, <1>6, <1>14 DEF CleanUp
<1>15. ASSUME NEW s \in Senders, NEW v \in Versions, StartTransfer(s, v) PROVE  TransferInv'
  <2> DEFINE r == [ver |-> v, owed |-> TRUE, tries |-> 0, rounds |-> 0]
  <2>1. r \in K
      BY TransferAssumption DEF K
  <2>2. \A k \in Frames(s, v) : k.from = s /\ FromSender(k)
      BY FramesAreOwn
  <2>3. /\ accepted' = accepted /\ started' = started \cup {s} /\ wire' = wire \cup Frames(s, v)
        /\ outgoing' = [outgoing EXCEPT ![s] = r]
      BY <1>15 DEF StartTransfer
  <2> HIDE DEF r
  <2> QED BY <1>5, <1>6, <2>1, <2>2, <2>3
<1> QED BY <1>7, <1>8, <1>9, <1>10, <1>11, <1>12, <1>13, <1>14, <1>15 DEF TransferNext, Deliver_

\* What a step strikes off was given up by the retransmit tick, or acknowledged.
LEMMA SettleStep ==
    ASSUME TransferInv, [TransferNext]_transferVars, NEW s \in Senders,
           outgoing[s].owed, ~outgoing'[s].owed
    PROVE  GaveUp(s) \/ HoldsIntact(s)
<1>1. outgoing \in [Senders -> [ver : Nat, owed : BOOLEAN, tries : Nat, rounds : Nat]]
    BY DEF TransferInv, FromStarted
<1>2. \A m \in wire : ~FromSender(m) => m.to \in Senders
    BY DEF TransferInv, FromStarted
<1>3. ASSUME NEW m \in wire, RecvAckOf(m) PROVE  HoldsIntact(s)
  <2>1. ~FromSender(m) /\ m.kind = "ack" /\ m.to = s
      BY <1>1, <1>2, <1>3 DEF RecvAckOf, FromSender
  <2> QED BY <2>1 DEF TransferInv, AcksEarned
<1>4. ASSUME NEW m \in wire, RecvNak(m) PROVE  FALSE
    BY <1>1, <1>2, <1>4 DEF RecvNak, FromSender
<1>5. ASSUME NEW t \in Senders, SendAgain(t) PROVE  GaveUp(s)
  <2>1. \/ /\ outgoing[t].tries < MaxTries /\ outgoing[t].rounds < MaxRounds
           /\ outgoing' = [outgoing EXCEPT ![t].tries = @ + 1]
        \/ ~(outgoing[t].tries < MaxTries /\ outgoing[t].rounds < MaxRounds)
           /\ outgoing' = [outgoing EXCEPT ![t] = NotOwed] /\ Between_(t) = {}
      BY <1>5 DEF SendAgain
  <2>2. s = t
      BY <1>1, <2>1
  <2> QED BY TransferAssumption, <1>1, <2>1, <2>2 DEF GaveUp
<1>6. ASSUME NEW t \in Senders, NEW v \in Versions, StartTransfer(t, v) PROVE  FALSE
    BY <1>1, <1>6 DEF StartTransfer
<1>7. outgoing' # outgoing
    OBVIOUS
<1> QED
    BY <1>3, <1>4, <1>5, <1>6, <1>7
    DEF TransferNext, Deliver_, transferVars, RecvHead, RecvChunk, Vanish, SendNak, CleanUp

\* A sender strikes an item off, short of its retransmissions, only when the other end
\* verified and took a payload of it (inbound.rs, the Ack arm, the retransmit tick and
\* complete_reassembled_item).
THEOREM SettledMeansDelivered == TransferSpec => SettledIsDelivered
<1> DEFINE Settles == \A s \in Senders :
        outgoing[s].owed /\ ~outgoing'[s].owed => GaveUp(s) \/ HoldsIntact(s)
<1>1. TransferInit => TransferInv
    BY DEF TransferInit, TransferInv, FromStarted, AcceptedFromStarted, AcksEarned, NotOwed
<1>2. TransferInv /\ [TransferNext]_transferVars => [Settles]_transferVars
    BY SettleStep
<1> HIDE DEF Settles
<1>3. TransferSpec => [][Settles]_transferVars
    BY <1>1, <1>2, TransferStep, PTL DEF TransferSpec
<1> QED BY <1>3 DEF Settles, SettledIsDelivered

-----------------------------------------------------------------------------
\* The local socket.

Ops == {"change", "shutdown", "malformed"}
Conn ==
    [kind : {"probe", "cmd", "state"}, open : BOOLEAN, request : Ops \cup {"none"},
     task : {"backlog", "opening", "reading", "waiting", "replying", "watching", "telling", "ended"},
     seen : Nat, unread : Nat]
Cmd == [conn : Nat, op : Ops]

IpcTypes ==
    /\ conns \in Seq(Conn) /\ cmds \in Seq(Cmd)
    /\ version \in Nat /\ shown \in Nat
    /\ subscriber \in {0} \cup DOMAIN conns

\* The tasks that wait for a reply are those with a request in the queue, one each.
WaitersAreQueued ==
    /\ \A i \in DOMAIN cmds :
          cmds[i].conn \in DOMAIN conns /\ conns[cmds[i].conn].task = "waiting"
    /\ \A i, j \in DOMAIN cmds : cmds[i].conn = cmds[j].conn => i = j
    /\ \A k \in DOMAIN conns : conns[k].task = "waiting" => \E i \in DOMAIN cmds : cmds[i].conn = k

Published ==
    /\ shown <= version
    /\ \A k \in DOMAIN conns : conns[k].seen <= version /\ conns[k].unread <= version

\* The line that is not read, and the next one, are no older than what is shown.
AheadOfScreen(r) ==
    /\ r.unread # 0 => shown <= r.unread
    /\ r.task \in {"telling", "watching"} => shown <= r.seen /\ r.unread <= r.seen

LinesAhead == subscriber # 0 => AheadOfScreen(conns[subscriber])

BackMeansExited == caller = "back" => Exited

IpcInv == IpcTypes /\ WaitersAreQueued /\ Published /\ LinesAhead /\ BackMeansExited

\* One connection changes, and neither the queue nor who waits for it.
LEMMA OneConn ==
    ASSUME IpcInv, NEW k \in DOMAIN conns, NEW r \in Conn, conns' = [conns EXCEPT ![k] = r],
           cmds' = cmds, version' = version, subscriber' = subscriber, shown' = shown,
           r.task = "waiting" <=> conns[k].task = "waiting",
           r.seen <= version, r.unread <= version,
           k = subscriber => AheadOfScreen(r),
           caller' = caller, looping' = looping, accepting' = accepting,
           ~accepting /\ conns[k].task \in {"backlog", "ended"} => r.task \in {"backlog", "ended"}
    PROVE  IpcInv'
<1>1. /\ DOMAIN conns' = DOMAIN conns /\ conns'[k] = r /\ conns' \in Seq(Conn)
      /\ \A j \in DOMAIN conns : j # k => conns'[j] = conns[j]
    BY ExceptSeq DEF IpcInv, IpcTypes
<1>2. IpcTypes'
    BY <1>1 DEF IpcInv, IpcTypes
<1>3. WaitersAreQueued'
    BY <1>1 DEF IpcInv, WaitersAreQueued
<1>4. Published'
    BY <1>1 DEF IpcInv, Published
<1>5. LinesAhead'
    BY <1>1 DEF IpcInv, IpcTypes, LinesAhead, AheadOfScreen
<1>6. BackMeansExited'
  <2>1. ~accepting => Serving' \subseteq Serving
      BY <1>1 DEF Serving
  <2> QED BY <2>1 DEF IpcInv, BackMeansExited, Exited
<1> QED BY <1>2, <1>3, <1>4, <1>5, <1>6 DEF IpcInv

\* A new connection waits in the backlog.
LEMMA NewConn ==
    ASSUME IpcInv, NEW kind \in {"probe", "cmd", "state"}, NEW request \in Ops \cup {"none"},
           conns' = Connected(kind, request), cmds' = cmds, version' = version, shown' = shown,
           subscriber' \in {subscriber, Len(conns) + 1},
           caller' = "back" => caller = "back", looping' = looping, accepting' = accepting
    PROVE  IpcInv'
<1> DEFINE r == [kind |-> kind, open |-> kind # "probe", request |-> request,
                 task |-> "backlog", seen |-> 0, unread |-> 0]
           n == Len(conns) + 1
<1>1. r \in Conn /\ conns \in Seq(Conn) /\ conns' = Append(conns, r) /\ DOMAIN conns = 1 .. Len(conns)
    BY DEF Conn, Connected, IpcInv, IpcTypes
<1>2. /\ conns' \in Seq(Conn) /\ DOMAIN conns' = DOMAIN conns \cup {n} /\ n \notin DOMAIN conns
      /\ n \in Nat \ {0} /\ conns'[n] = r
      /\ \A j \in DOMAIN conns : conns'[j] = conns[j]
  <2> HIDE DEF r
  <2>1. /\ conns' \in Seq(Conn) /\ Len(conns') = n /\ conns'[n] = r
        /\ \A j \in 1 .. Len(conns) : conns'[j] = conns[j]
      BY <1>1, AppendProperties
  <2> QED BY <1>1, <2>1
<1>3. r.task = "backlog" /\ r.seen = 0 /\ r.unread = 0
    OBVIOUS
<1> HIDE DEF r, n
<1>4. IpcTypes'
    BY <1>2 DEF IpcInv, IpcTypes, n
<1>5. WaitersAreQueued'
    BY <1>2, <1>3 DEF IpcInv, WaitersAreQueued
<1>6. Published'
    BY <1>2, <1>3 DEF IpcInv, Published, IpcTypes
<1>7. LinesAhead'
    BY <1>2, <1>3 DEF IpcInv, IpcTypes, LinesAhead, AheadOfScreen, n
<1>8. BackMeansExited'
    BY <1>2, <1>3 DEF IpcInv, BackMeansExited, Exited, Serving
<1> QED BY <1>4, <1>5, <1>6, <1>7, <1>8 DEF IpcInv

LEMMA ServeKeeps ==
    ASSUME IpcInv, NEW k \in DOMAIN conns, ServeClient(k) \/ CallTimesOut(k) PROVE  IpcInv'
<1> DEFINE s == conns[k]
<1>0. /\ s \in Conn /\ version \in Nat /\ shown \in Nat /\ shown <= version
      /\ s.seen <= version /\ s.unread <= version
      /\ k = subscriber => AheadOfScreen(s)
      /\ conns \in Seq(Conn) /\ cmds \in Seq(Cmd) /\ k \in Nat \ {0}
    BY DEF IpcInv, IpcTypes, Published, LinesAhead
<1>1. CASE ReadRequest(k) /\ s.request # "malformed"
  <2> DEFINE r == [s EXCEPT !.request = "none", !.task = "waiting"]
             e == [conn |-> k, op |-> s.request]
             n == Len(cmds) + 1
  <2>1. /\ r \in Conn /\ r.task = "waiting" /\ r.seen = s.seen /\ r.unread = s.unread
        /\ e \in Cmd /\ e.conn = k /\ s.task = "reading"
      BY <1>0, <1>1 DEF Conn, Cmd, ReadRequest
  <2>2. conns' = [conns EXCEPT ![k] = r] /\ cmds' = Append(cmds, e)
    <3>1. /\ conns' = [conns EXCEPT ![k].request = "none", ![k].task = "waiting"]
          /\ cmds' = Append(cmds, e)
        BY <1>1 DEF ReadRequest
    <3> QED BY <3>1
  <2> HIDE DEF r, e
  <2>3. /\ DOMAIN conns' = DOMAIN conns /\ conns'[k] = r /\ conns' \in Seq(Conn)
        /\ \A j \in DOMAIN conns : j # k => conns'[j] = conns[j]
      BY <1>0, <2>1, <2>2, ExceptSeq
  <2>4. /\ cmds' \in Seq(Cmd) /\ DOMAIN cmds' = DOMAIN cmds \cup {n} /\ n \notin DOMAIN cmds
        /\ cmds'[n] = e /\ \A j \in DOMAIN cmds : cmds'[j] = cmds[j]
      BY <1>0, <2>1, <2>2, AppendProperties
  <2>5. UNCHANGED <<version, shown, subscriber, looping, accepting, caller>>
      BY <1>1 DEF ReadRequest
  <2> HIDE DEF n, s
  <2>6. IpcTypes'
      BY <2>3, <2>4, <2>5 DEF IpcInv, IpcTypes
  <2>7. WaitersAreQueued'
    <3>1. \A i \in DOMAIN cmds : cmds[i].conn # k
        BY <2>1 DEF IpcInv, WaitersAreQueued, s
    <3>2. \A i \in DOMAIN cmds' :
             cmds'[i].conn \in DOMAIN conns' /\ conns'[cmds'[i].conn].task = "waiting"
        BY <2>1, <2>3, <2>4, <3>1 DEF IpcInv, WaitersAreQueued
    <3>3. \A i, j \in DOMAIN cmds' : cmds'[i].conn = cmds'[j].conn => i = j
        BY <2>1, <2>4, <3>1 DEF IpcInv, WaitersAreQueued
    <3>4. \A m \in DOMAIN conns' : conns'[m].task = "waiting" => \E i \in DOMAIN cmds' : cmds'[i].conn = m
        BY <2>1, <2>3, <2>4 DEF IpcInv, WaitersAreQueued
    <3> QED BY <3>2, <3>3, <3>4 DEF WaitersAreQueued
  <2>8. Published' /\ LinesAhead'
      BY <1>0, <2>1, <2>3, <2>5 DEF IpcInv, IpcTypes, Published, LinesAhead, AheadOfScreen
  <2>9. BackMeansExited'
      BY <2>1, <2>3, <2>5 DEF IpcInv, BackMeansExited, Exited, Serving, s
  <2> QED BY <2>6, <2>7, <2>8, <2>9 DEF IpcInv
<1>2. CASE ~(ReadRequest(k) /\ s.request # "malformed")
  <2>1. PICK r :
          /\ conns' = [conns EXCEPT ![k] = r] /\ r \in Conn
          /\ r.task # "waiting" \/ r.task = s.task
          /\ s.task # "waiting" \/ r.task = "waiting"
          /\ r.seen \in {0, s.seen, version} /\ r.unread \in {s.unread, s.seen}
          /\ k = subscriber => AheadOfScreen(r)
          /\ s.task \in {"backlog", "ended"} => r.task = s.task \/ accepting
          /\ UNCHANGED <<cmds, version, subscriber, shown, caller, looping, accepting>>
    <3>1. CASE CallTimesOut(k)
      <4>1. conns' = [conns EXCEPT ![k] = [s EXCEPT !.open = FALSE]]
        <5>1. conns' = [conns EXCEPT ![k].open = FALSE]
            BY <3>1 DEF CallTimesOut
        <5> QED BY <5>1
      <4> QED BY <1>0, <3>1, <4>1 DEF CallTimesOut, Conn, AheadOfScreen
    <3>2. CASE Accept(k)
      <4>1. conns' = [conns EXCEPT ![k] = [s EXCEPT !.task = "opening"]]
        <5>1. conns' = [conns EXCEPT ![k].task = "opening"]
            BY <3>2 DEF Accept
        <5> QED BY <5>1
      <4> QED BY <1>0, <3>2, <4>1 DEF Accept, Conn, AheadOfScreen
    <3> DEFINE gone == [s EXCEPT !.task = "ended", !.request = "none", !.seen = 0]
    <3>e. Ended(k) = [conns EXCEPT ![k] = gone] /\ gone \in Conn
        BY <1>0 DEF Ended, Conn
    <3>3. CASE ReadOpening(k)
      <4>1. \/ conns' = Ended(k)
            \/ conns' = [conns EXCEPT ![k] = [s EXCEPT !.task = "reading"]]
            \/ conns' = [conns EXCEPT ![k] = [s EXCEPT !.task = "telling", !.seen = version]]
        <5>1. \/ conns' = Ended(k)
              \/ conns' = [conns EXCEPT ![k].task = "reading"]
              \/ conns' = [conns EXCEPT ![k].task = "telling", ![k].seen = version]
            BY <1>0, <3>3 DEF ReadOpening, Conn
        <5> QED BY <5>1
      <4> QED BY <1>0, <3>3, <3>e, <4>1 DEF ReadOpening, Conn, AheadOfScreen
    <3>4. CASE ReadRequest(k)
      <4>1. conns' = [conns EXCEPT ![k] = [s EXCEPT !.request = "none", !.task = "replying"]]
        <5>1. conns' = [conns EXCEPT ![k].request = "none", ![k].task = "replying"]
            BY <1>2, <3>4 DEF ReadRequest
        <5> QED BY <5>1
      <4> QED BY <1>0, <1>2, <3>4, <4>1 DEF ReadRequest, Conn, AheadOfScreen
    <3>5. CASE Reply(k)
      <4>1. \/ conns' = Ended(k)
            \/ conns' = [conns EXCEPT ![k] = [s EXCEPT !.task = "reading", !.open = FALSE]]
        <5>1. \/ conns' = Ended(k)
              \/ conns' = [conns EXCEPT ![k].task = "reading", ![k].open = FALSE]
            BY <3>5 DEF Reply
        <5> QED BY <5>1
      <4> QED BY <1>0, <3>5, <3>e, <4>1 DEF Reply, Conn, AheadOfScreen
    <3>6. CASE ReadEof(k) \/ Cancelled(k)
        BY <1>0, <3>6, <3>e DEF ReadEof, Cancelled, Conn, AheadOfScreen
    <3>7. CASE Tell(k)
      <4>1. conns' = [conns EXCEPT ![k] = [s EXCEPT !.task = "telling", !.seen = version]]
        <5>1. conns' = [conns EXCEPT ![k].task = "telling", ![k].seen = version]
            BY <3>7 DEF Tell
        <5> QED BY <5>1
      <4> QED BY <1>0, <3>7, <4>1 DEF Tell, Conn, AheadOfScreen
    <3>8. CASE Told(k)
      <4>1. \/ conns' = Ended(k)
            \/ conns' = [conns EXCEPT ![k] = [s EXCEPT !.task = "watching", !.unread = s.seen]]
        <5>1. \/ conns' = Ended(k)
              \/ conns' = [conns EXCEPT ![k].task = "watching", ![k].unread = conns[k].seen]
            BY <3>8 DEF Told
        <5> QED BY <5>1
      <4>2. /\ s.task = "telling" /\ s.seen \in Nat /\ s.unread \in Nat
            /\ UNCHANGED <<cmds, version, subscriber, shown, caller, looping, accepting>>
          BY <1>0, <3>8 DEF Told, Conn
      <4>3. CASE conns' = Ended(k)
        <5>1. gone.task = "ended" /\ gone.seen = 0 /\ gone.unread = s.unread
            BY <1>0 DEF Conn
        <5>2. k = subscriber => AheadOfScreen(gone)
            BY <1>0, <5>1 DEF AheadOfScreen
        <5> HIDE DEF gone
        <5> QED BY <3>e, <4>2, <4>3, <5>1, <5>2
      <4>4. CASE conns' = [conns EXCEPT ![k] = [s EXCEPT !.task = "watching", !.unread = s.seen]]
        <5> DEFINE r == [s EXCEPT !.task = "watching", !.unread = s.seen]
        <5>1. r \in Conn /\ r.task = "watching" /\ r.seen = s.seen /\ r.unread = s.seen
            BY <1>0, <4>2 DEF Conn
        <5>2. k = subscriber => AheadOfScreen(r)
            BY <1>0, <4>2, <5>1 DEF AheadOfScreen
        <5>3. conns' = [conns EXCEPT ![k] = r]
            BY <4>4
        <5> HIDE DEF r
        <5> QED BY <4>2, <5>1, <5>2, <5>3
      <4> QED BY <4>1, <4>3, <4>4
    <3> QED BY <3>1, <3>2, <3>3, <3>4, <3>5, <3>6, <3>7, <3>8 DEF ServeClient
  <2>2. r.seen <= version /\ r.unread <= version
    <3> HIDE DEF s
    <3> QED BY <1>0, <2>1
  <2> QED BY <2>1, <2>2, OneConn
<1> QED BY <1>1, <1>2

LEMMA IpcStep == IpcInv /\ [IpcNext]_ipcVars => IpcInv' /\ shown <= shown'
<1> SUFFICES ASSUME IpcInv, [IpcNext]_ipcVars PROVE  IpcInv' /\ shown <= shown'
    OBVIOUS
<1>0. /\ conns \in Seq(Conn) /\ cmds \in Seq(Cmd) /\ version \in Nat /\ shown \in Nat
      /\ subscriber \in {0} \cup DOMAIN conns
    BY DEF IpcInv, IpcTypes
<1>c. \A k \in DOMAIN conns :
         /\ conns[k] \in Conn
         /\ conns[k].seen \in Nat /\ conns[k].unread \in Nat
  <2>1. \A k \in DOMAIN conns : conns[k] \in Conn
      BY <1>0
  <2>2. \A q \in Conn : q.seen \in Nat /\ q.unread \in Nat
      BY DEF Conn
  <2> QED BY <2>1, <2>2
<1>1. ASSUME Stop \/ JoinReturns \/ Signal \/ AcceptLoopBreaks \/ LoopBreaks \/ UNCHANGED ipcVars
      PROVE  IpcInv' /\ shown <= shown'
  <2>1. UNCHANGED <<conns, cmds, version, shown, subscriber>>
      BY <1>1 DEF Stop, JoinReturns, Signal, AcceptLoopBreaks, LoopBreaks, ipcVars
  <2>2. BackMeansExited'
      BY <1>1, <2>1 DEF IpcInv, BackMeansExited, Exited, Serving,
         Stop, JoinReturns, Signal, AcceptLoopBreaks, LoopBreaks, ipcVars
  <2> QED BY <1>0, <2>1, <2>2 DEF IpcInv, IpcTypes, WaitersAreQueued, Published, LinesAhead, AheadOfScreen
<1>2. ASSUME Publish PROVE  IpcInv' /\ shown <= shown'
  <2>1. /\ UNCHANGED <<conns, cmds, shown, subscriber, looping, accepting, caller>>
        /\ version' \in Nat /\ version <= version'
      BY <1>0, <1>2 DEF Publish
  <2>3. Published'
      BY <1>0, <1>c, <2>1 DEF IpcInv, Published
  <2> QED BY <1>0, <2>1, <2>3
          DEF IpcInv, IpcTypes, WaitersAreQueued, LinesAhead, AheadOfScreen, BackMeansExited, Exited, Serving
<1>3. ASSUME Ready \/ Subscribe \/ \E op \in Ops : Call(op) PROVE  IpcInv' /\ shown <= shown'
  <2>1. /\ \E kind \in {"probe", "cmd", "state"}, request \in Ops \cup {"none"} :
              conns' = Connected(kind, request)
        /\ subscriber' \in {subscriber, Len(conns) + 1}
        /\ UNCHANGED <<cmds, version, shown, looping, accepting>>
        /\ caller' = "back" => caller = "back"
      BY <1>3 DEF Ready, Subscribe, Call
  <2> QED BY <1>0, <2>1, NewConn
<1>4. ASSUME Show PROVE  IpcInv' /\ shown <= shown'
  <2> DEFINE r == [conns[subscriber] EXCEPT !.unread = 0]
  <2>1. /\ subscriber \in DOMAIN conns /\ conns[subscriber] \in Conn
        /\ conns[subscriber].unread # 0 /\ shown' = conns[subscriber].unread
        /\ UNCHANGED <<cmds, version, subscriber, looping, accepting, caller>>
      BY <1>0, <1>4 DEF Show
  <2>2. conns' = [conns EXCEPT ![subscriber] = r]
    <3>1. conns' = [conns EXCEPT ![subscriber].unread = 0]
        BY <1>4 DEF Show
    <3> QED BY <3>1
  <2>3. /\ r \in Conn /\ r.task = conns[subscriber].task /\ r.seen = conns[subscriber].seen
        /\ r.unread = 0
      BY <2>1 DEF Conn
  <2> HIDE DEF r
  <2>4. /\ DOMAIN conns' = DOMAIN conns /\ conns'[subscriber] = r /\ conns' \in Seq(Conn)
        /\ \A j \in DOMAIN conns : j # subscriber => conns'[j] = conns[j]
      BY <1>0, <2>1, <2>2, <2>3, ExceptSeq
  <2>5. /\ shown <= conns[subscriber].unread /\ conns[subscriber].unread <= version
        /\ conns[subscriber].unread \in Nat /\ conns[subscriber].seen \in Nat
        /\ conns[subscriber].task \in {"telling", "watching"} =>
              conns[subscriber].unread <= conns[subscriber].seen
      BY <1>0, <2>1 DEF IpcInv, Published, LinesAhead, AheadOfScreen, Conn
  <2>6. IpcTypes'
      BY <1>0, <2>1, <2>4, <2>5 DEF IpcTypes
  <2>7. WaitersAreQueued'
      BY <2>1, <2>3, <2>4 DEF IpcInv, WaitersAreQueued
  <2>8. Published'
    <3>1. version' = version /\ shown' <= version'
        BY <2>1, <2>5
    <3>2. \A k \in DOMAIN conns : conns[k].seen <= version /\ conns[k].unread <= version
        BY DEF IpcInv, Published
    <3>3. conns'[subscriber].seen <= version' /\ conns'[subscriber].unread <= version'
        BY <1>0, <2>1, <2>3, <2>4, <3>1, <3>2
    <3> QED BY <2>4, <3>1, <3>2, <3>3 DEF Published
  <2>9. LinesAhead'
      BY <2>1, <2>3, <2>4, <2>5 DEF LinesAhead, AheadOfScreen
  <2>10. BackMeansExited'
      BY <2>1, <2>3, <2>4 DEF IpcInv, BackMeansExited, Exited, Serving
  <2> QED BY <2>1, <2>5, <2>6, <2>7, <2>8, <2>9, <2>10 DEF IpcInv
<1>5. ASSUME Unsubscribe PROVE  IpcInv' /\ shown <= shown'
  <2> DEFINE r == [conns[subscriber] EXCEPT !.open = FALSE, !.unread = 0]
  <2>1. /\ subscriber \in DOMAIN conns /\ conns[subscriber] \in Conn
        /\ UNCHANGED <<cmds, version, shown, subscriber, looping, accepting, caller>>
      BY <1>0, <1>5 DEF Unsubscribe
  <2>2. conns' = [conns EXCEPT ![subscriber] = r]
    <3>1. conns' = [conns EXCEPT ![subscriber].open = FALSE, ![subscriber].unread = 0]
        BY <1>5 DEF Unsubscribe
    <3> QED BY <3>1
  <2>3. /\ r \in Conn /\ r.task = conns[subscriber].task /\ r.seen = conns[subscriber].seen
        /\ r.unread = 0
      BY <2>1 DEF Conn
  <2> HIDE DEF r
  <2>4. conns[subscriber].seen \in Nat /\ conns[subscriber].seen <= version /\ AheadOfScreen(conns[subscriber])
      BY <1>0, <2>1 DEF IpcInv, Published, LinesAhead, Conn
  <2>5. AheadOfScreen(r)
      BY <2>3, <2>4 DEF AheadOfScreen
  <2>6. r.seen <= version /\ r.unread <= version /\ shown <= shown'
      BY <1>0, <2>1, <2>3, <2>4
  <2> QED BY <2>1, <2>2, <2>3, <2>5, <2>6, OneConn
<1>6. ASSUME Run PROVE  IpcInv' /\ shown <= shown'
  <2> DEFINE k == Head(cmds).conn
             r == [conns[k] EXCEPT !.task = "replying"]
  <2>1. /\ cmds # <<>> /\ cmds' = Tail(cmds) /\ looping
        /\ UNCHANGED <<shown, subscriber, looping, accepting, caller>>
        /\ conns' = [conns EXCEPT ![k].task = "replying"]
      BY <1>6 DEF Run
  <2>2. version' \in Nat /\ version <= version'
      BY <1>0, <1>6 DEF Run
  <2>3. /\ 1 \in DOMAIN cmds /\ Head(cmds) = cmds[1]
        /\ cmds' \in Seq(Cmd) /\ DOMAIN cmds' = 1 .. Len(cmds) - 1
        /\ \A i \in DOMAIN cmds' : cmds'[i] = cmds[i + 1] /\ i + 1 \in DOMAIN cmds /\ i + 1 # 1
        /\ \A i \in DOMAIN cmds : i # 1 => i - 1 \in DOMAIN cmds' /\ cmds'[i - 1] = cmds[i]
        /\ DOMAIN cmds = 1 .. Len(cmds) /\ Len(cmds) \in Nat
    <3>1. Len(Tail(cmds)) = Len(cmds) - 1 /\ \A i \in 1 .. Len(Tail(cmds)) : Tail(cmds)[i] = cmds[i + 1]
        BY <1>0, <2>1, HeadTailProperties
    <3> QED BY <1>0, <2>1, <3>1
  <2>4. k \in DOMAIN conns /\ conns[k] \in Conn /\ conns[k].task = "waiting"
    <3>1. k = cmds[1].conn /\ 1 \in DOMAIN cmds
        BY <2>3
    <3> HIDE DEF k
    <3> QED BY <1>c, <3>1 DEF IpcInv, WaitersAreQueued
  <2>5. conns' = [conns EXCEPT ![k] = r]
      BY <2>1
  <2>6. /\ r \in Conn /\ r.task = "replying" /\ r.seen = conns[k].seen /\ r.unread = conns[k].unread
      BY <2>4 DEF Conn
  <2>k. k = cmds[1].conn
      BY <2>3
  <2> HIDE DEF k, r
  <2>7. /\ DOMAIN conns' = DOMAIN conns /\ conns'[k] = r /\ conns' \in Seq(Conn)
        /\ \A j \in DOMAIN conns : j # k => conns'[j] = conns[j]
      BY <1>0, <2>4, <2>5, <2>6, ExceptSeq
  <2>8. IpcTypes'
      BY <1>0, <2>1, <2>2, <2>3, <2>7 DEF IpcTypes
  <2>9. WaitersAreQueued'
    <3>1. \A i, j \in DOMAIN cmds : cmds[i].conn = cmds[j].conn => i = j
        BY DEF IpcInv, WaitersAreQueued
    <3>2. \A i \in DOMAIN cmds' : cmds'[i].conn # k
      <4>1. ASSUME NEW i \in DOMAIN cmds', cmds[i + 1].conn = k PROVE  FALSE
          BY <2>3, <2>k, <3>1, <4>1
      <4>2. \A i \in DOMAIN cmds' : cmds'[i] = cmds[i + 1]
          BY <2>3
      <4> QED BY <4>1, <4>2
    <3>3. \A i \in DOMAIN cmds' :
             cmds'[i].conn \in DOMAIN conns' /\ conns'[cmds'[i].conn].task = "waiting"
        BY <2>3, <2>7, <3>2 DEF IpcInv, WaitersAreQueued
    <3>4. ASSUME NEW i \in DOMAIN cmds', NEW j \in DOMAIN cmds', cmds'[i].conn = cmds'[j].conn
          PROVE  i = j
      <4>1. i + 1 = j + 1
          BY <2>3, <3>1, <3>4
      <4> QED BY <2>3, <4>1
    <3>5. ASSUME NEW m \in DOMAIN conns', conns'[m].task = "waiting"
          PROVE  \E i \in DOMAIN cmds' : cmds'[i].conn = m
      <4>1. m \in DOMAIN conns /\ m # k /\ conns[m].task = "waiting"
          BY <2>6, <2>7, <3>5
      <4>2. PICK i \in DOMAIN cmds : cmds[i].conn = m
          BY <4>1 DEF IpcInv, WaitersAreQueued
      <4> QED BY <2>3, <2>k, <4>1, <4>2
    <3> QED BY <3>3, <3>4, <3>5 DEF WaitersAreQueued
  <2>10. Published'
    <3>1. \A j \in DOMAIN conns : /\ conns[j].seen \in Nat /\ conns[j].unread \in Nat
                                  /\ conns[j].seen <= version /\ conns[j].unread <= version
        BY <1>c DEF IpcInv, Published
    <3>2. \A j \in DOMAIN conns : conns'[j].seen = conns[j].seen /\ conns'[j].unread = conns[j].unread
        BY <2>6, <2>7
    <3>3. shown <= version
        BY DEF IpcInv, Published
    <3> QED BY <1>0, <2>1, <2>2, <2>7, <3>1, <3>2, <3>3 DEF Published
  <2>11. LinesAhead'
      BY <1>0, <2>1, <2>6, <2>7 DEF IpcInv, LinesAhead, AheadOfScreen
  <2>12. BackMeansExited'
      BY <2>1 DEF IpcInv, BackMeansExited, Exited
  <2> QED BY <1>0, <2>1, <2>8, <2>9, <2>10, <2>11, <2>12 DEF IpcInv
<1>7. ASSUME NEW k \in DOMAIN conns, ServeClient(k) \/ CallTimesOut(k) PROVE  IpcInv' /\ shown <= shown'
  <2>1. shown' = shown
      BY <1>7 DEF ServeClient, CallTimesOut, Accept, ReadOpening, ReadRequest, Reply, ReadEof, Tell, Told, Cancelled
  <2> QED BY <1>0, <1>7, <2>1, ServeKeeps
<1> QED BY <1>1, <1>2, <1>3, <1>4, <1>5, <1>6, <1>7 DEF IpcNext, MainLoop, Ops

LEMMA IpcStart == IpcInit => IpcInv
    BY DEF IpcInit, IpcInv, IpcTypes, WaitersAreQueued, Published, LinesAhead, BackMeansExited

\* A task waits for a reply exactly while its request is in the queue, once: as long as
\* the main loop runs nobody is forgotten, and a request is answered to the one who made
\* it (handle_ipc_client, handle_driver_cmd).
THEOREM RequestsAreQueuedOnce == IpcSpec => []WaitersAreQueued
<1>1. IpcInv => WaitersAreQueued
    BY DEF IpcInv
<1> QED BY <1>1, IpcStart, IpcStep, PTL DEF IpcSpec

\* The screen never goes back to an older state, however often the subscriber connects
\* again and however a publication meets the writing of a line (borrow_and_update,
\* state_subscriber_loop).
THEOREM ScreenMovesOn == IpcSpec => [][shown <= shown']_ipcVars
<1>1. IpcInv /\ [IpcNext]_ipcVars => [shown <= shown']_ipcVars
    BY IpcStep
<1> QED BY <1>1, IpcStart, IpcStep, PTL DEF IpcSpec

\* When stop() has returned, the loops have ended and no client is served again
\* (stop in fluxsync-mobile-ffi lib.rs, ipc_accept_loop).
THEOREM StoppedStaysDown == IpcSpec => []BackMeansExited
<1>1. IpcInv => BackMeansExited
    BY DEF IpcInv
<1> QED BY <1>1, IpcStart, IpcStep, PTL DEF IpcSpec
=============================================================================
