---------------------------- MODULE LinksProofs ----------------------------
(***************************************************************************)
(* The links of one daemon: every session is greeted, and the state        *)
(* machine shows no link that is not there, for any devices, any capacity  *)
(* of the queue and any number of faults.                                  *)
(***************************************************************************)
EXTENDS Links, SequenceTheorems, TLAPS

Events == [kind : {"PeerSeen", "HandshakeOk", "PeerLost", "PrimaryFailover", "PeerRevoked",
                   "GhostTimeout"},
           peer : Peers \cup {None}]

LinkTypes ==
    /\ phase \in Phases /\ seen \in Peers \cup {None} /\ named \in BOOLEAN
    /\ primary \in Peers /\ live \in BOOLEAN
    /\ second \in [Peers -> {"absent", "empty", "live"}]
    /\ greeted \subseteq Peers /\ trusted \subseteq Peers
    /\ dialling \in Peers \cup {None} /\ queue \in Seq(Events)
    /\ lost \in BOOLEAN /\ late \in BOOLEAN /\ hidden \in BOOLEAN

\* A device has one slot, unless an install gave the primary slot its name.
SlotsApart == ~hidden => second[primary] # "live"

\* A session without our Hello has the event in the queue that will send it.
GreetingDue == ~lost /\ ~hidden => Linked \subseteq greeted \/ Queued("HandshakeOk")

Closing(i) == queue[i].kind \in {"PeerLost", "GhostTimeout"}
Brings(i) == queue[i].kind \in {"PeerSeen", "PrimaryFailover"} /\ queue[i].peer = primary
LostAfter(i) == \E j \in 1 .. Len(queue) : j > i /\ queue[j].kind = "PeerLost"

\* Without a session, what shows the primary's device as being linked, and each event
\* that will, is followed by a PeerLost.
LossFollows ==
    ~lost /\ ~late /\ primary \notin Linked =>
        /\ phase \in {"handshaking", "linked"} /\ seen = primary => Queued("PeerLost")
        /\ \A i \in 1 .. Len(queue) : Brings(i) => LostAfter(i)

\* A live primary session was not announced behind an event that will close it.
ClosesFirst ==
    ~lost /\ ~late =>
        \A i, j \in 1 .. Len(queue) : i < j /\ Closing(i) /\ Brings(j) => ~live

LinkInv == LinkTypes /\ SlotsApart /\ GreetingDue /\ LossFollows /\ ClosesFirst

-----------------------------------------------------------------------------
\* The queue.

LEMMA PostType ==
    ASSUME LinkTypes, NEW evs \in Seq(Events), Post(evs)
    PROVE  /\ queue' \in Seq(Events) /\ lost' \in BOOLEAN
           /\ lost => lost'
           /\ ~lost' => queue' = queue \o evs
<1> DEFINE n == QueueCap - Len(queue)
           cut == SubSeq(evs, 1, n)
           fits == IF Len(queue) + Len(evs) <= QueueCap THEN evs ELSE cut
           K == Events
<1>1. queue \in Seq(K) /\ evs \in Seq(K) /\ QueueCap \in Nat /\ lost \in BOOLEAN
    BY LinkAssumption DEF LinkTypes
<1>2. queue' = queue \o fits /\ lost' = (lost \/ fits # evs)
    BY DEF Post
<1> HIDE DEF K
<1>3. fits \in Seq(K)
  <2>1. CASE Len(queue) + Len(evs) <= QueueCap
      BY <1>1, <2>1
  <2>2. CASE ~(Len(queue) + Len(evs) <= QueueCap)
    <3>1. n \in Int /\ n < Len(evs)
        BY <1>1, <2>2
    <3>2. \A i \in 1 .. n : evs[i] \in K
        BY <1>1, <3>1
    <3> HIDE DEF n
    <3>3. cut \in Seq(K)
        BY <3>1, <3>2, SubSeqProperties
    <3> QED BY <2>2, <3>3
  <2> QED BY <2>1, <2>2
<1> HIDE DEF fits
<1>4. queue' \in Seq(K)
    BY <1>1, <1>2, <1>3
<1>5. lost' \in BOOLEAN /\ (lost => lost') /\ (~lost' => fits = evs)
    BY <1>2
<1> QED BY <1>2, <1>4, <1>5 DEF K

LEMMA Posted ==
    ASSUME LinkTypes, NEW evs \in Seq(Events), queue' = queue \o evs
    PROVE  /\ Len(queue') = Len(queue) + Len(evs)
           /\ \A i \in 1 .. Len(queue) : queue'[i] = queue[i]
           /\ \A k \in 1 .. Len(evs) : queue'[Len(queue) + k] = evs[k]
           /\ \A i \in 1 .. Len(queue') :
                  i \in 1 .. Len(queue) \/ \E k \in 1 .. Len(evs) : i = Len(queue) + k
<1> DEFINE K == Events
<1>1. queue \in Seq(K) /\ evs \in Seq(K)
    BY DEF LinkTypes
<1> HIDE DEF K
<1>2. /\ Len(queue') = Len(queue) + Len(evs)
      /\ \A i \in 1 .. Len(queue) + Len(evs) :
             queue'[i] = IF i <= Len(queue) THEN queue[i] ELSE evs[i - Len(queue)]
    BY <1>1, ConcatProperties
<1>3. Len(queue) \in Nat /\ Len(evs) \in Nat
    BY <1>1
<1>4. \A i \in 1 .. Len(queue) : queue'[i] = queue[i]
    BY <1>2, <1>3
<1>5. \A k \in 1 .. Len(evs) : queue'[Len(queue) + k] = evs[k]
  <2> SUFFICES ASSUME NEW k \in 1 .. Len(evs) PROVE  queue'[Len(queue) + k] = evs[k]
      OBVIOUS
  <2>1. /\ Len(queue) + k \in 1 .. Len(queue) + Len(evs) /\ ~(Len(queue) + k <= Len(queue))
        /\ Len(queue) + k - Len(queue) = k
      BY <1>3
  <2> QED BY <1>2, <2>1
<1>6. \A i \in 1 .. Len(queue') :
          i \in 1 .. Len(queue) \/ \E k \in 1 .. Len(evs) : i = Len(queue) + k
  <2> SUFFICES ASSUME NEW i \in 1 .. Len(queue'), i \notin 1 .. Len(queue)
               PROVE  \E k \in 1 .. Len(evs) : i = Len(queue) + k
      OBVIOUS
  <2>1. i - Len(queue) \in 1 .. Len(evs) /\ i = Len(queue) + (i - Len(queue))
      BY <1>2, <1>3
  <2> QED BY <2>1
<1> QED BY <1>2, <1>4, <1>5, <1>6

\* What an action adds to the queue, as a set.
Among(evs) == {evs[k] : k \in 1 .. Len(evs)}

LEMMA Tuples ==
    /\ <<>> \in Seq(Events) /\ Among(<<>>) = {}
    /\ \A e \in Events : <<e>> \in Seq(Events) /\ Among(<<e>>) = {e}
    /\ \A e, f \in Events : <<e, f>> \in Seq(Events) /\ Among(<<e, f>>) = {e, f}
<1> DEFINE K == Events
<1> HIDE DEF K
<1>1. <<>> \in Seq(K) /\ Among(<<>>) = {}
    BY DEF Among
<1>2. ASSUME NEW e \in K PROVE  <<e>> \in Seq(K) /\ Among(<<e>>) = {e}
  <2> DEFINE s == <<e>>
  <2>1. s \in Seq(K) /\ Len(s) = 1 /\ s[1] = e
      OBVIOUS
  <2> HIDE DEF s
  <2>2. 1 .. Len(s) = {1}
      BY <2>1
  <2>3. Among(s) = {e}
      BY <2>1, <2>2 DEF Among
  <2> QED BY <2>1, <2>3 DEF s
<1>3. ASSUME NEW e \in K, NEW f \in K PROVE  <<e, f>> \in Seq(K) /\ Among(<<e, f>>) = {e, f}
  <2> DEFINE s == <<e, f>>
  <2>1. s \in Seq(K) /\ Len(s) = 2 /\ s[1] = e /\ s[2] = f
      OBVIOUS
  <2> HIDE DEF s
  <2>2. 1 .. Len(s) = {1, 2}
      BY <2>1
  <2>3. Among(s) = {e, f}
      BY <2>1, <2>2 DEF Among
  <2> QED BY <2>1, <2>3 DEF s
<1> QED BY <1>1, <1>2, <1>3 DEF K

LEMMA Events_ ==
    /\ \A k \in {"PeerSeen", "HandshakeOk", "PeerLost", "PrimaryFailover", "PeerRevoked",
                 "GhostTimeout"}, p \in Peers \cup {None} : Event(k, p) \in Events
    /\ \A k, p : Event(k, p).kind = k /\ Event(k, p).peer = p
BY DEF Event, Events

-----------------------------------------------------------------------------
\* What every action but Handle does to the invariant: it adds events to the queue,
\* and a session that appears or goes is among them.

Showing == phase \in {"handshaking", "linked"} /\ seen = primary

Remembers == (lost => lost') /\ (late => late') /\ (hidden => hidden')

Greets(evs) ==
    ~hidden' => \/ Linked' \subseteq Linked /\ greeted \cap Linked' \subseteq greeted'
                \/ \E e \in Among(evs) : e.kind = "HandshakeOk"
                \/ Linked' \subseteq greeted'

Tells(evs) ==
    ~late' /\ primary' \notin Linked' =>
        \/ /\ \E e \in Among(evs) : e.kind = "PeerLost"
           /\ \A e \in Among(evs) : e.kind \notin {"PeerSeen", "PrimaryFailover"}
        \/ /\ primary \notin Linked /\ primary' = primary /\ (Showing' => Showing)
           /\ \A e \in Among(evs) : e.kind \notin {"PeerSeen", "PrimaryFailover"}
        \/ queue = <<>> /\ evs = <<>> /\ ~Showing'

Waits(evs) ==
    ~late' /\ live' =>
        \/ /\ live /\ primary' = primary
           /\ \A e \in Among(evs) : e.kind \in {"PeerSeen", "PrimaryFailover"} => e.peer # primary
        \/ /\ ~Queued("PeerLost") /\ ~Queued("GhostTimeout")
           /\ \A e \in Among(evs) : e.kind \notin {"PeerLost", "GhostTimeout"}

Effect(evs) ==
    /\ evs \in Seq(Events) /\ (lost' \/ queue' = queue \o evs) /\ Remembers
    /\ Greets(evs) /\ Tells(evs) /\ Waits(evs)

LEMMA EffectKeeps ==
    ASSUME LinkInv, LinkTypes', NEW evs, Effect(evs)
    PROVE  GreetingDue' /\ LossFollows' /\ ClosesFirst'
<1> SUFFICES ASSUME ~lost' PROVE  GreetingDue' /\ LossFollows' /\ ClosesFirst'
    BY DEF GreetingDue, LossFollows, ClosesFirst
<1>0. ~lost /\ evs \in Seq(Events) /\ queue' = queue \o evs
    BY Zenon DEF Effect, Remembers
<1> DEFINE n == Len(queue)
<1>1. /\ Len(queue') = n + Len(evs) /\ n \in Nat /\ Len(evs) \in Nat
      /\ \A i \in 1 .. n : queue'[i] = queue[i]
      /\ \A k \in 1 .. Len(evs) : queue'[n + k] = evs[k]
      /\ \A i \in 1 .. Len(queue') : i \in 1 .. n \/ \E k \in 1 .. Len(evs) : i = n + k
  <2>1. n \in Nat /\ Len(evs) \in Nat
    <3> DEFINE K == Events
    <3>1. queue \in Seq(K) /\ evs \in Seq(K)
        BY <1>0 DEF LinkInv, LinkTypes
    <3> HIDE DEF K
    <3> QED BY <3>1
  <2>2. LinkTypes
      BY DEF LinkInv
  <2> QED BY <1>0, <2>1, <2>2, Posted
<1>2. \A k \in 1 .. Len(evs) : evs[k] \in Among(evs)
    BY DEF Among
<1>3. \A e \in Among(evs) : \E k \in 1 .. Len(evs) : evs[k] = e
    BY DEF Among
<1>4. \A i \in 1 .. n : i \in 1 .. Len(queue')
    BY <1>1
<1>5. \A k \in 1 .. Len(evs) : n + k \in 1 .. Len(queue')
    BY <1>1
<1>6. \A kind : Queued(kind) => Queued(kind)'
    BY <1>1, <1>4 DEF Queued
<1>7. \A e \in Among(evs) : Queued(e.kind)'
  <2> SUFFICES ASSUME NEW e \in Among(evs) PROVE  \E i \in 1 .. Len(queue') : queue'[i].kind = e.kind
      BY DEF Queued
  <2>1. PICK k \in 1 .. Len(evs) : evs[k] = e
      BY <1>3
  <2> QED BY <1>1, <1>5, <2>1
<1>8. GreetingDue'
  <2> SUFFICES ASSUME ~hidden' PROVE  Linked' \subseteq greeted' \/ Queued("HandshakeOk")'
      BY DEF GreetingDue
  <2>1. CASE Linked' \subseteq Linked /\ greeted \cap Linked' \subseteq greeted'
    <3>1. Linked \subseteq greeted \/ Queued("HandshakeOk")
        BY <1>0 DEF LinkInv, GreetingDue, Effect, Remembers
    <3> QED BY <1>6, <2>1, <3>1
  <2>2. CASE \E e \in Among(evs) : e.kind = "HandshakeOk"
      BY <1>7, <2>2
  <2> QED BY <2>1, <2>2 DEF Effect, Greets
<1>9. LossFollows'
  <2> SUFFICES ASSUME ~late', primary' \notin Linked'
               PROVE  /\ Showing' => Queued("PeerLost")'
                      /\ \A i \in 1 .. Len(queue') :
                             queue'[i].kind \in {"PeerSeen", "PrimaryFailover"}
                                 /\ queue'[i].peer = primary' =>
                             \E j \in 1 .. Len(queue') : j > i /\ queue'[j].kind = "PeerLost"
      BY DEF LossFollows, Showing, Brings, LostAfter
  <2>1. CASE /\ \E e \in Among(evs) : e.kind = "PeerLost"
             /\ \A e \in Among(evs) : e.kind \notin {"PeerSeen", "PrimaryFailover"}
    <3>1. PICK k \in 1 .. Len(evs) : evs[k].kind = "PeerLost"
        BY <1>3, <2>1
    <3>2. n + k \in 1 .. Len(queue') /\ queue'[n + k].kind = "PeerLost"
        BY <1>1, <1>5, <3>1
    <3>3. ASSUME NEW i \in 1 .. Len(queue'), queue'[i].kind \in {"PeerSeen", "PrimaryFailover"}
          PROVE  n + k > i
      <4>1. i \in 1 .. n
          BY <1>1, <1>2, <2>1, <3>3
      <4> QED BY <1>1, <4>1
    <3> QED BY <3>2, <3>3 DEF Queued
  <2>2. CASE /\ primary \notin Linked /\ primary' = primary /\ (Showing' => Showing)
             /\ \A e \in Among(evs) : e.kind \notin {"PeerSeen", "PrimaryFailover"}
    <3>1. /\ Showing => Queued("PeerLost")
          /\ \A i \in 1 .. n : Brings(i) => LostAfter(i)
        BY <1>0, <2>2 DEF LinkInv, LossFollows, Effect, Remembers, Showing
    <3>2. ASSUME NEW i \in 1 .. Len(queue'), queue'[i].kind \in {"PeerSeen", "PrimaryFailover"},
                 queue'[i].peer = primary'
          PROVE  \E j \in 1 .. Len(queue') : j > i /\ queue'[j].kind = "PeerLost"
      <4>1. i \in 1 .. n
          BY <1>1, <1>2, <2>2, <3>2
      <4>2. Brings(i)
          BY <1>1, <2>2, <3>2, <4>1 DEF Brings
      <4>3. PICK j \in 1 .. n : j > i /\ queue[j].kind = "PeerLost"
          BY <3>1, <4>1, <4>2 DEF LostAfter
      <4> QED BY <1>1, <1>4, <4>3
    <3> QED BY <1>6, <2>2, <3>1, <3>2
  <2>3. CASE queue = <<>> /\ evs = <<>> /\ ~Showing'
    <3>1. 1 .. Len(queue') = {}
        BY <1>1, <2>3
    <3> QED BY <2>3, <3>1
  <2> QED BY <2>1, <2>2, <2>3 DEF Effect, Tells
<1>10. ClosesFirst'
  <2> SUFFICES ASSUME ~late', live',
                      NEW i \in 1 .. Len(queue'), NEW j \in 1 .. Len(queue'), i < j,
                      queue'[i].kind \in {"PeerLost", "GhostTimeout"},
                      queue'[j].kind \in {"PeerSeen", "PrimaryFailover"}, queue'[j].peer = primary'
               PROVE  FALSE
      BY DEF ClosesFirst, Closing, Brings
  <2>1. CASE /\ live /\ primary' = primary
             /\ \A e \in Among(evs) : e.kind \in {"PeerSeen", "PrimaryFailover"} => e.peer # primary
    <3>1. j \in 1 .. n
        BY <1>1, <1>2, <2>1
    <3>2. i \in 1 .. n
        BY <1>1, <3>1
    <3>3. Closing(i) /\ Brings(j)
        BY <1>1, <2>1, <3>1, <3>2 DEF Closing, Brings
    <3> QED BY <1>0, <2>1, <3>1, <3>2, <3>3 DEF LinkInv, ClosesFirst, Effect, Remembers
  <2>2. CASE /\ ~Queued("PeerLost") /\ ~Queued("GhostTimeout")
             /\ \A e \in Among(evs) : e.kind \notin {"PeerLost", "GhostTimeout"}
    <3>1. CASE i \in 1 .. n
        BY <1>1, <2>2, <3>1 DEF Queued
    <3>2. CASE i \notin 1 .. n
        BY <1>1, <1>2, <2>2, <3>2
    <3> QED BY <3>1, <3>2
  <2> QED BY <2>1, <2>2 DEF Effect, Waits
<1> QED BY <1>8, <1>9, <1>10

Effective == LinkTypes' /\ SlotsApart' /\ \E evs : Effect(evs)

\* run_responder's install into whichever slot it is: the two events go to the queue
\* behind it.
LEMMA RespondsEffect ==
    ASSUME LinkInv, NEW p \in Peers, Responds(p), UNCHANGED <<fsm, trusted, dialling>>
    PROVE  Effective
<1> DEFINE seenP == Event("PeerSeen", p)
           okP == Event("HandshakeOk", p)
           evs == IF primary = p /\ live THEN <<okP>> ELSE <<seenP, okP>>
<1>0. LinkTypes /\ SlotsApart
    BY DEF LinkInv
<1>1. /\ greeted' = greeted \ {p} /\ Post(evs)
      /\ \/ /\ primary = p \/ (second[p] = "absent" /\ ~live)
            /\ primary' = p /\ live' = TRUE /\ second' = second
            /\ late' = (late \/ Queued("PeerLost") \/ Queued("GhostTimeout"))
            /\ hidden' = (hidden \/ second[p] = "live")
         \/ /\ primary # p /\ second' = [second EXCEPT ![p] = "live"]
            /\ primary' = IF live THEN primary ELSE p
            /\ hidden' = (hidden \/ ~live)
            /\ UNCHANGED <<live, late>>
         \/ /\ primary # p /\ live /\ second' = [second EXCEPT ![p] = "live"]
            /\ UNCHANGED <<primary, live, late, hidden>>
    BY DEF Responds, Fresh, LandPrimary, LandSecond, Landed, closes
<1>2. /\ seenP \in Events /\ okP \in Events /\ seenP.kind = "PeerSeen" /\ seenP.peer = p
      /\ okP.kind = "HandshakeOk"
    BY Events_
<1> HIDE DEF seenP, okP
<1>3. evs \in Seq(Events) /\ okP \in Among(evs) /\ Among(evs) \subseteq {seenP, okP}
      /\ (primary = p /\ live => Among(evs) = {okP})
    BY <1>2, Tuples
<1> HIDE DEF evs
<1>4. /\ queue' \in Seq(Events) /\ lost' \in BOOLEAN
      /\ (lost => lost') /\ (~lost' => queue' = queue \o evs)
    BY <1>0, <1>1, <1>3, PostType
<1>5. LinkTypes'
    BY <1>0, <1>1, <1>4 DEF LinkTypes, fsm
<1>6. SlotsApart'
  <2> SUFFICES ASSUME ~hidden' PROVE  second'[primary'] # "live"
      BY DEF SlotsApart
  <2>1. ~hidden /\ second[primary] # "live"
    <3>1. ~hidden
        BY <1>0, <1>1, Zenon
    <3> QED BY <1>0, <3>1 DEF SlotsApart
  <2>2. /\ primary \in Peers /\ live \in BOOLEAN
        /\ second \in [Peers -> {"absent", "empty", "live"}]
      BY <1>0 DEF LinkTypes
  <2>3. CASE primary' = p /\ second' = second /\ hidden' = (hidden \/ second[p] = "live")
    <3>1. second[p] # "live"
        BY <2>3, Zenon
    <3> QED BY <2>3, <3>1
  <2>4. CASE /\ primary # p /\ second' = [second EXCEPT ![p] = "live"]
             /\ primary' = (IF live THEN primary ELSE p) /\ hidden' = (hidden \/ ~live)
    <3>1. live
        BY <2>4, Zenon
    <3> QED BY <2>1, <2>2, <2>4, <3>1
  <2>5. CASE primary # p /\ second' = [second EXCEPT ![p] = "live"] /\ UNCHANGED primary
      BY <2>1, <2>2, <2>5
  <2> QED BY <1>1, <2>3, <2>4, <2>5
<1>7. Greets(evs)
    BY <1>2, <1>3 DEF Greets
<1>8. Tells(evs)
  <2>1. primary' \in Linked'
      BY <1>0, <1>1 DEF Linked, LinkTypes
  <2> QED BY <2>1 DEF Tells
<1>9. Waits(evs)
  <2> SUFFICES ASSUME ~late', live'
               PROVE  \/ /\ live /\ primary' = primary
                         /\ \A e \in Among(evs) : e.kind \in {"PeerSeen", "PrimaryFailover"} => e.peer # primary
                      \/ /\ ~Queued("PeerLost") /\ ~Queued("GhostTimeout")
                         /\ \A e \in Among(evs) : e.kind \notin {"PeerLost", "GhostTimeout"}
      BY DEF Waits
  <2>1. \A e \in Among(evs) : e.kind \notin {"PeerLost", "GhostTimeout", "PrimaryFailover"}
                              /\ (e.kind = "PeerSeen" => e.peer = p)
      BY <1>2, <1>3
  <2>2. CASE late' = (late \/ Queued("PeerLost") \/ Queued("GhostTimeout"))
      BY <2>1, <2>2, Zenon
  <2>3. CASE primary # p /\ live /\ primary' = primary
      BY <2>1, <2>3
  <2> QED BY <1>1, <2>2, <2>3
<1>10. Remembers
    BY <1>0, <1>1, <1>4 DEF Remembers, LinkTypes
<1> QED BY <1>3, <1>4, <1>5, <1>6, <1>7, <1>8, <1>9, <1>10 DEF Effect, Effective

\* try_primary_failover: a promoted session comes with an event, and so does the loss.
LEMMA FailoverEffect ==
    ASSUME LinkInv, NEW held \in BOOLEAN, held => live, FailoverOrLost(primary, held),
           UNCHANGED <<fsm, greeted, trusted, dialling, hidden>>
    PROVE  Effective
<1>0. LinkTypes /\ SlotsApart
    BY DEF LinkInv
<1>1. ASSUME NEW q \in Peers, second[q] = "live", Promoted(q), Landed,
             Post(<<Event("PrimaryFailover", q)>>)
      PROVE  Effective
  <2> DEFINE e == Event("PrimaryFailover", q)
             evs == <<e>>
  <2>1. e \in Events /\ e.kind = "PrimaryFailover"
      BY Events_
  <2>2. /\ primary' = q /\ live' = TRUE /\ second' = [second EXCEPT ![q] = "absent"]
        /\ late' = (late \/ Queued("PeerLost") \/ Queued("GhostTimeout")) /\ Post(evs)
      BY <1>1 DEF Promoted, Landed
  <2> HIDE DEF e
  <2>3. evs \in Seq(Events) /\ Among(evs) = {e}
      BY <2>1, Tuples
  <2> HIDE DEF evs
  <2>4. /\ queue' \in Seq(Events) /\ lost' \in BOOLEAN
        /\ (lost => lost') /\ (~lost' => queue' = queue \o evs)
      BY <1>0, <2>2, <2>3, PostType
  <2>5. LinkTypes'
      BY <1>0, <2>2, <2>4 DEF LinkTypes, fsm
  <2>6. SlotsApart'
      BY <1>0, <2>2 DEF SlotsApart, LinkTypes
  <2>7. Greets(evs)
    <3>1. Linked' \subseteq Linked
        BY <1>0, <1>1, <2>2 DEF Linked, LinkTypes
    <3> QED BY <3>1 DEF Greets
  <2>8. Tells(evs)
    <3>1. primary' \in Linked'
        BY <1>0, <2>2 DEF Linked, LinkTypes
    <3> QED BY <3>1 DEF Tells
  <2>9. Waits(evs)
    <3>1. ~late' => ~Queued("PeerLost") /\ ~Queued("GhostTimeout")
        BY <2>2, Zenon
    <3> QED BY <2>1, <2>3, <3>1 DEF Waits
  <2>10. Remembers
      BY <1>0, <2>2, <2>4 DEF Remembers, LinkTypes
  <2> QED BY <2>3, <2>4, <2>5, <2>6, <2>7, <2>8, <2>9, <2>10 DEF Effect, Effective
<1>2. ASSUME live' = held, Post(<<Event("PeerLost", primary)>>), UNCHANGED <<primary, second, late>>
      PROVE  Effective
  <2> DEFINE e == Event("PeerLost", primary)
             evs == <<e>>
  <2>1. e \in Events /\ e.kind = "PeerLost"
      BY <1>0, Events_ DEF LinkTypes
  <2>2. Post(evs)
      BY <1>2
  <2> HIDE DEF e
  <2>3. evs \in Seq(Events) /\ Among(evs) = {e}
      BY <2>1, Tuples
  <2> HIDE DEF evs
  <2>4. /\ queue' \in Seq(Events) /\ lost' \in BOOLEAN
        /\ (lost => lost') /\ (~lost' => queue' = queue \o evs)
      BY <1>0, <2>2, <2>3, PostType
  <2>5. LinkTypes'
      BY <1>0, <1>2, <2>4 DEF LinkTypes, fsm
  <2>6. SlotsApart'
      BY <1>0, <1>2 DEF SlotsApart, LinkTypes
  <2>7. Greets(evs)
    <3>1. Linked' \subseteq Linked
        BY <1>0, <1>2 DEF Linked, LinkTypes
    <3> QED BY <3>1 DEF Greets
  <2>8. Tells(evs)
      BY <2>1, <2>3 DEF Tells
  <2>9. Waits(evs)
      BY <1>2, <2>1, <2>3 DEF Waits
  <2>10. Remembers
      BY <1>2, <2>4 DEF Remembers
  <2> QED BY <2>3, <2>4, <2>5, <2>6, <2>7, <2>8, <2>9, <2>10 DEF Effect, Effective
<1> QED BY <1>1, <1>2 DEF FailoverOrLost

\* An action that posts nothing ...
LEMMA NoEvent ==
    ASSUME LinkInv, LinkTypes', SlotsApart', UNCHANGED <<queue, lost, late, hidden>>,
           ~hidden => \/ Linked' \subseteq Linked /\ greeted \cap Linked' \subseteq greeted'
                      \/ Linked' \subseteq greeted',
           primary' \notin Linked' =>
               \/ primary \notin Linked /\ primary' = primary /\ (Showing' => Showing)
               \/ queue = <<>> /\ ~Showing',
           live' => live /\ primary' = primary
    PROVE  Effective
<1>1. <<>> \in Seq(Events) /\ Among(<<>>) = {}
    BY Tuples
<1>2. queue \o <<>> = queue
  <2> DEFINE K == Events
  <2>1. queue \in Seq(K)
      BY DEF LinkInv, LinkTypes
  <2> HIDE DEF K
  <2> QED BY <2>1, ConcatEmptySeq
<1>3. Remembers
    BY DEF Remembers
<1>4. Greets(<<>>)
    BY DEF Greets
<1>5. Tells(<<>>)
    BY <1>1 DEF Tells
<1>6. Waits(<<>>)
    BY <1>1 DEF Waits
<1> QED BY <1>1, <1>2, <1>3, <1>4, <1>5, <1>6 DEF Effect, Effective

\* ... or one event.
LEMMA OneEvent ==
    ASSUME LinkInv, NEW e \in Events, Post(<<e>>),
           queue' \in Seq(Events) /\ lost' \in BOOLEAN => LinkTypes', SlotsApart',
           late => late', hidden => hidden',
           ~hidden' => Linked' \subseteq Linked /\ greeted \cap Linked' \subseteq greeted',
           ~late' /\ primary' \notin Linked' =>
               \/ e.kind = "PeerLost"
               \/ /\ primary \notin Linked /\ primary' = primary /\ (Showing' => Showing)
                  /\ e.kind \notin {"PeerSeen", "PrimaryFailover"},
           ~late' /\ live' =>
               \/ live /\ primary' = primary /\ e.kind \notin {"PeerSeen", "PrimaryFailover"}
               \/ /\ ~Queued("PeerLost") /\ ~Queued("GhostTimeout")
                  /\ e.kind \notin {"PeerLost", "GhostTimeout"}
    PROVE  Effective
<1> DEFINE evs == <<e>>
<1>1. evs \in Seq(Events) /\ Among(evs) = {e}
    BY Tuples
<1>2. Post(evs)
    OBVIOUS
<1> HIDE DEF evs
<1>3. /\ queue' \in Seq(Events) /\ lost' \in BOOLEAN
      /\ (lost => lost') /\ (~lost' => queue' = queue \o evs)
    BY <1>1, <1>2, PostType DEF LinkInv
<1>4. Remembers
    BY <1>3 DEF Remembers
<1>5. Greets(evs)
    BY DEF Greets
<1>6. Tells(evs)
    BY <1>1 DEF Tells
<1>7. Waits(evs)
    BY <1>1 DEF Waits
<1> QED BY <1>1, <1>3, <1>4, <1>5, <1>6, <1>7 DEF Effect, Effective

\* Nothing is said when the slots and the phase stay, or less is shown.
LEMMA StillEffect ==
    ASSUME LinkInv, LinkTypes', UNCHANGED <<slots, seen, greeted, queue, history>>,
           phase' \in {"handshaking", "linked"} => phase \in {"handshaking", "linked"}
    PROVE  Effective
<1>1. SlotsApart' /\ Linked' = Linked
    BY DEF LinkInv, SlotsApart, Linked, slots, history
<1> QED BY <1>1, NoEvent DEF Showing, slots, history

-----------------------------------------------------------------------------
\* Handshakes.

\* What starts or ends an attempt to dial.
Attempt(p) == Tick \/ BackoffEnds(p) \/ Resolved(p) \/ DialFails

LEMMA DialEffect ==
    ASSUME LinkInv, NEW p \in Peers, Attempt(p) \/ Falls(p) \/ Returns(p) \/ Pair(p)
    PROVE  Effective
<1>1. UNCHANGED <<slots, seen, greeted, queue, history>>
    BY DEF Attempt, Tick, BackoffEnds, Resolved, DialFails, Falls, Returns, Pair, fsm, slots
<1>2. LinkTypes'
  <2>1. dialling' \in Peers \cup {None}
    <3>1. CASE Tick
        BY <3>1 DEF Tick, Candidates, LinkInv, LinkTypes
    <3>2. CASE BackoffEnds(p) \/ Resolved(p) \/ DialFails \/ Falls(p) \/ Returns(p) \/ Pair(p)
        BY <3>2 DEF BackoffEnds, Resolved, DialFails, Falls, Returns, Pair, dial, LinkInv, LinkTypes
    <3> QED BY <3>1, <3>2 DEF Attempt
  <2>2. phase' \in Phases /\ trusted' \subseteq Peers
      BY DEF Attempt, Tick, BackoffEnds, Resolved, DialFails, Falls, Returns, Pair, fsm, world,
         LinkInv, LinkTypes, Phases
  <2>3. UNCHANGED <<seen, named, slots, greeted, queue, history>>
      BY DEF Attempt, Tick, BackoffEnds, Resolved, DialFails, Falls, Returns, Pair, fsm
  <2> QED BY <2>1, <2>2, <2>3 DEF LinkInv, LinkTypes, slots, history
<1>3. phase' \in {"handshaking", "linked"} => phase \in {"handshaking", "linked"}
    BY DEF Attempt, Tick, BackoffEnds, Resolved, DialFails, Falls, Returns, Pair, fsm
<1> QED BY <1>1, <1>2, <1>3, StillEffect

LEMMA AnsweredEffect == ASSUME LinkInv, DialAnswered PROVE  Effective
<1> DEFINE p == dialling
           seenP == Event("PeerSeen", p)
           okP == Event("HandshakeOk", p)
           evs == <<seenP, okP>>
<1>0. LinkTypes /\ SlotsApart /\ p \in Peers
    BY DEF LinkInv, LinkTypes, DialAnswered
<1>1. /\ dialling' = None /\ UNCHANGED <<fsm, trusted>>
      /\ \/ UNCHANGED <<slots, greeted, deaf, queue, history>>
         \/ /\ ~live /\ LandPrimary(p) /\ Fresh(p) /\ Post(evs)
         \/ /\ live /\ primary # p /\ LandSecond(p) /\ Fresh(p) /\ Post(evs)
    BY DEF DialAnswered
<1>2. CASE UNCHANGED <<slots, greeted, deaf, queue, history>>
  <2>1. LinkTypes'
      BY <1>0, <1>1, <1>2 DEF LinkTypes, fsm, slots, history
  <2> QED BY <1>1, <1>2, <2>1, StillEffect DEF fsm
<1>3. CASE Fresh(p) /\ Post(evs) /\ ((~live /\ LandPrimary(p)) \/ (live /\ primary # p /\ LandSecond(p)))
  <2>1. /\ greeted' = greeted \ {p} /\ Post(evs)
        /\ \/ /\ primary' = p /\ live' = TRUE /\ second' = second
              /\ late' = (late \/ Queued("PeerLost") \/ Queued("GhostTimeout"))
              /\ hidden' = (hidden \/ second[p] = "live")
           \/ /\ primary # p /\ live /\ second' = [second EXCEPT ![p] = "live"]
              /\ UNCHANGED <<primary, live, late, hidden>>
      BY <1>3 DEF Fresh, LandPrimary, LandSecond, Landed, closes
  <2>2. /\ seenP \in Events /\ okP \in Events /\ seenP.kind = "PeerSeen" /\ seenP.peer = p
        /\ okP.kind = "HandshakeOk"
      BY <1>0, Events_
  <2> HIDE DEF seenP, okP
  <2>3. evs \in Seq(Events) /\ Among(evs) = {seenP, okP}
      BY <2>2, Tuples
  <2> HIDE DEF evs
  <2>4. /\ queue' \in Seq(Events) /\ lost' \in BOOLEAN
        /\ (lost => lost') /\ (~lost' => queue' = queue \o evs)
      BY <1>0, <2>1, <2>3, PostType
  <2>5. LinkTypes'
      BY <1>0, <1>1, <2>1, <2>4 DEF LinkTypes, fsm
  <2>6. SlotsApart'
    <3> SUFFICES ASSUME ~hidden' PROVE  second'[primary'] # "live"
        BY DEF SlotsApart
    <3>1. CASE primary' = p /\ second' = second /\ hidden' = (hidden \/ second[p] = "live")
      <4>1. second[p] # "live"
          BY <3>1, Zenon
      <4> QED BY <3>1, <4>1
    <3>2. CASE /\ primary # p /\ second' = [second EXCEPT ![p] = "live"]
               /\ UNCHANGED <<primary, hidden>>
      <4>1. second[primary] # "live"
          BY <1>0, <3>2 DEF SlotsApart
      <4> QED BY <1>0, <3>2, <4>1 DEF LinkTypes
    <3> QED BY <2>1, <3>1, <3>2
  <2>7. Greets(evs)
      BY <2>2, <2>3 DEF Greets
  <2>8. Tells(evs)
    <3>1. primary' \in Linked'
        BY <1>0, <2>1 DEF Linked, LinkTypes
    <3> QED BY <3>1 DEF Tells
  <2>9. Waits(evs)
    <3>1. CASE late' = (late \/ Queued("PeerLost") \/ Queued("GhostTimeout"))
      <4>1. ~late' => ~Queued("PeerLost") /\ ~Queued("GhostTimeout")
          BY <3>1, Zenon
      <4> QED BY <2>2, <2>3, <4>1 DEF Waits
    <3>2. CASE primary # p /\ live /\ primary' = primary
        BY <2>2, <2>3, <3>2 DEF Waits
    <3> QED BY <2>1, <3>1, <3>2
  <2>10. Remembers
      BY <1>0, <2>1, <2>4 DEF Remembers, LinkTypes
  <2> QED BY <2>3, <2>4, <2>5, <2>6, <2>7, <2>8, <2>9, <2>10 DEF Effect, Effective
<1> QED BY <1>1, <1>2, <1>3

LEMMA AnswerEffect == ASSUME LinkInv, NEW p \in Peers, Answer(p) \/ Rekey(p) PROVE  Effective
BY RespondsEffect DEF Answer, Rekey, dial

-----------------------------------------------------------------------------
\* Links that end.

LEMMA TimeoutEffect == ASSUME LinkInv, PrimaryTimeout PROVE  Effective
BY FailoverEffect DEF PrimaryTimeout, world, dial

LEMMA SilentSecondEffect == ASSUME LinkInv, NEW p \in Peers, SecondaryTimeout(p) PROVE  Effective
<1> DEFINE e == Event("PeerRevoked", p)
<1>0. LinkTypes /\ SlotsApart
    BY DEF LinkInv
<1>1. /\ second[p] = "live" /\ live' = (live /\ primary # p)
      /\ second' = IF primary # p /\ second[p] = "live"
                   THEN [second EXCEPT ![p] = "empty"] ELSE second
      /\ Post(<<e>>)
      /\ UNCHANGED <<primary, phase, seen, named, greeted, trusted, dialling, late, hidden>>
    BY DEF SecondaryTimeout, DropFor, fsm, world, closes, dial
<1>2. e \in Events /\ e.kind = "PeerRevoked"
    BY Events_
<1> HIDE DEF e
<1>3. queue' \in Seq(Events) /\ lost' \in BOOLEAN => LinkTypes'
    BY <1>0, <1>1 DEF LinkTypes
<1>4. SlotsApart'
    BY <1>0, <1>1 DEF SlotsApart, LinkTypes
<1>5. Linked' \subseteq Linked
    BY <1>0, <1>1 DEF Linked, LinkTypes
<1>6. primary' \notin Linked' => primary \notin Linked
    BY <1>0, <1>1 DEF Linked, LinkTypes
<1>7. live' => live
    BY <1>0, <1>1 DEF LinkTypes
<1> QED BY <1>1, <1>2, <1>3, <1>4, <1>5, <1>6, <1>7, OneEvent DEF Showing

LEMMA ByeEffect == ASSUME LinkInv, NEW p \in Peers, RecvBye(p) PROVE  Effective
<1>0. LinkTypes /\ SlotsApart
    BY DEF LinkInv
<1>1. CASE primary = p
    BY <1>1, FailoverEffect DEF RecvBye, dial
<1>2. CASE primary # p
  <2>1. /\ live' = live
        /\ second' = IF second[p] = "live" THEN [second EXCEPT ![p] = "empty"] ELSE second
        /\ UNCHANGED <<primary, phase, seen, named, greeted, trusted, dialling, queue, lost, late, hidden>>
      BY <1>0, <1>2 DEF RecvBye, DropFor, fsm, LinkTypes, dial
  <2>2. LinkTypes'
      BY <1>0, <2>1 DEF LinkTypes
  <2>3. SlotsApart'
      BY <1>0, <1>2, <2>1 DEF SlotsApart, LinkTypes
  <2>4. Linked' \subseteq Linked
      BY <1>0, <2>1 DEF Linked, LinkTypes
  <2>5. primary' \notin Linked' => primary \notin Linked
      BY <1>0, <1>2, <2>1 DEF Linked, LinkTypes
  <2> QED BY <2>1, <2>2, <2>3, <2>4, <2>5, NoEvent DEF Showing
<1> QED BY <1>1, <1>2

LEMMA RevokedEffect == ASSUME LinkInv, NEW p \in Peers, RecvRevoke(p) PROVE  Effective
<1>0. LinkTypes /\ SlotsApart
    BY DEF LinkInv
<1>1. /\ trusted' = trusted \ {p}
      /\ UNCHANGED <<phase, seen, named, greeted, dialling, hidden>>
    BY DEF RecvRevoke, fsm
<1>2. ASSUME primary = p, NEW q \in Peers \ {p}, second[q] = "live", primary' = q, live' = TRUE,
             second' = [second EXCEPT ![p] = "absent", ![q] = "absent"],
             Post(<<Event("PrimaryFailover", q)>>), Landed
      PROVE  Effective
  <2> DEFINE e == Event("PrimaryFailover", q)
  <2>1. e \in Events /\ e.kind = "PrimaryFailover" /\ Post(<<e>>)
      BY <1>2, Events_
  <2> HIDE DEF e
  <2>2. late' = (late \/ Queued("PeerLost") \/ Queued("GhostTimeout"))
      BY <1>2 DEF Landed
  <2>3. queue' \in Seq(Events) /\ lost' \in BOOLEAN => LinkTypes'
      BY <1>0, <1>1, <1>2, <2>2 DEF LinkTypes
  <2>4. SlotsApart'
      BY <1>0, <1>2 DEF SlotsApart, LinkTypes
  <2>5. Linked' \subseteq Linked /\ primary' \in Linked'
      BY <1>0, <1>2 DEF Linked, LinkTypes
  <2>6. (late => late') /\ (~late' => ~Queued("PeerLost") /\ ~Queued("GhostTimeout"))
      BY <2>2, Zenon
  <2> QED BY <1>1, <2>1, <2>3, <2>4, <2>5, <2>6, OneEvent
<1>3. ASSUME primary = p, live' = FALSE, second' = [second EXCEPT ![p] = "absent"],
             Post(<<Event("PeerLost", p)>>), UNCHANGED <<primary, late>>
      PROVE  Effective
  <2> DEFINE e == Event("PeerLost", p)
  <2>1. e \in Events /\ e.kind = "PeerLost" /\ Post(<<e>>)
      BY <1>3, Events_
  <2> HIDE DEF e
  <2>2. queue' \in Seq(Events) /\ lost' \in BOOLEAN => LinkTypes'
      BY <1>0, <1>1, <1>3 DEF LinkTypes
  <2>3. SlotsApart' /\ Linked' \subseteq Linked
      BY <1>0, <1>3 DEF SlotsApart, LinkTypes, Linked
  <2> QED BY <1>1, <1>3, <2>1, <2>2, <2>3, OneEvent
<1>4. ASSUME primary # p, second' = [second EXCEPT ![p] = "absent"],
             UNCHANGED <<primary, live, queue, lost, late>>
      PROVE  Effective
  <2>1. LinkTypes'
      BY <1>0, <1>1, <1>4 DEF LinkTypes
  <2>2. SlotsApart' /\ Linked' \subseteq Linked
      BY <1>0, <1>1, <1>4 DEF SlotsApart, LinkTypes, Linked
  <2>3. primary' \notin Linked' => primary \notin Linked
      BY <1>0, <1>4 DEF Linked, LinkTypes
  <2> QED BY <1>1, <1>4, <2>1, <2>2, <2>3, NoEvent DEF Showing
<1> QED BY <1>2, <1>3, <1>4 DEF RecvRevoke

\* A report that changes no slot.
LEMMA ReportEffect == ASSUME LinkInv, MdnsRemoved \/ GhostDue PROVE  Effective
<1> DEFINE e == IF MdnsRemoved THEN Event("PeerLost", primary) ELSE Event("GhostTimeout", None)
<1>0. LinkTypes /\ SlotsApart
    BY DEF LinkInv
<1>1. /\ Post(<<e>>)
      /\ UNCHANGED <<phase, seen, named, primary, live, second, greeted, trusted, dialling, late, hidden>>
    BY DEF MdnsRemoved, GhostDue, fsm, slots, world, closes, dial
<1>2. e \in Events /\ e.kind \in {"PeerLost", "GhostTimeout"}
    BY <1>0, Events_ DEF LinkTypes
<1> HIDE DEF e
<1>3. queue' \in Seq(Events) /\ lost' \in BOOLEAN => LinkTypes'
    BY <1>0, <1>1 DEF LinkTypes
<1>4. SlotsApart' /\ Linked' = Linked
    BY <1>0, <1>1 DEF SlotsApart, Linked
<1> QED BY <1>1, <1>2, <1>3, <1>4, OneEvent DEF Showing

-----------------------------------------------------------------------------
\* The user's commands.

LEMMA OffEffect == ASSUME LinkInv, ToggleOff \/ Unpair PROVE  Effective
<1>0. LinkTypes /\ SlotsApart
    BY DEF LinkInv
<1>1. /\ queue = <<>> /\ phase' = "idle" /\ live' = FALSE
      /\ UNCHANGED <<primary, greeted, queue, dialling, lost, late, hidden>>
      /\ seen' \in {seen, None} /\ named' \in {named, FALSE} /\ trusted' \in {trusted, {}}
      /\ \A q \in Peers : second'[q] = second[q] \/ second'[q] \in {"empty", "absent"}
      /\ second' \in [Peers -> {"absent", "empty", "live"}]
    BY <1>0 DEF ToggleOff, Unpair, Cut, Command, Forget, history, LinkTypes, dial
<1>2. LinkTypes'
    BY <1>0, <1>1 DEF LinkTypes, Phases
<1>3. SlotsApart' /\ Linked' \subseteq Linked
    BY <1>0, <1>1 DEF SlotsApart, Linked, LinkTypes
<1> QED BY <1>1, <1>2, <1>3, NoEvent DEF Showing

LEMMA OnEffect == ASSUME LinkInv, ToggleOn PROVE  Effective
<1>0. LinkTypes /\ SlotsApart
    BY DEF LinkInv
<1>1. /\ phase = "idle" /\ queue = <<>>
      /\ UNCHANGED <<primary, live, second, trusted, queue, dialling, lost, late, hidden>>
    BY DEF ToggleOn, Command, slots, world, history, dial
<1>2. CASE /\ live /\ phase' = "linked" /\ seen' = primary /\ named' = TRUE /\ Greet
  <2>1. LinkTypes'
      BY <1>0, <1>1, <1>2 DEF LinkTypes, Phases, Greet, Linked
  <2>2. SlotsApart' /\ primary' \in Linked'
      BY <1>0, <1>1, <1>2 DEF SlotsApart, Linked, LinkTypes
  <2>3. ~hidden => Linked' \subseteq greeted'
      BY <1>0, <1>1, <1>2 DEF SlotsApart, Linked, LinkTypes, Greet, HasSession
  <2> QED BY <1>1, <1>2, <2>1, <2>2, <2>3, NoEvent
<1>3. CASE phase' = "discovering" /\ UNCHANGED <<seen, named, greeted>>
  <2>1. LinkTypes'
      BY <1>0, <1>1, <1>3 DEF LinkTypes, Phases
  <2> QED BY <1>1, <1>3, <2>1, StillEffect DEF slots, history
<1> QED BY <1>2, <1>3 DEF ToggleOn

LEMMA ReconnectEffect == ASSUME LinkInv, Reconnect PROVE  Effective
<1> DEFINE e == Event("PeerLost", primary)
<1>0. LinkTypes /\ SlotsApart
    BY DEF LinkInv
<1>1. /\ Post(<<e>>) /\ live' = FALSE
      /\ UNCHANGED <<phase, seen, named, primary, second, greeted, trusted, dialling, late, hidden>>
    BY DEF Reconnect, fsm, closes, dial
<1>2. e \in Events /\ e.kind = "PeerLost"
    BY <1>0, Events_ DEF LinkTypes
<1> HIDE DEF e
<1>3. queue' \in Seq(Events) /\ lost' \in BOOLEAN => LinkTypes'
    BY <1>0, <1>1 DEF LinkTypes
<1>4. SlotsApart' /\ Linked' \subseteq Linked
    BY <1>0, <1>1 DEF SlotsApart, Linked
<1> QED BY <1>1, <1>2, <1>3, <1>4, OneEvent

LEMMA RevokeEffect == ASSUME LinkInv, NEW p \in Peers, Revoke(p) PROVE  Effective
<1>0. LinkTypes /\ SlotsApart
    BY DEF LinkInv
<1>1. /\ queue = <<>> /\ trusted' = trusted \ {p}
      /\ UNCHANGED <<greeted, dialling, late, hidden>>
    BY DEF Revoke, Cut, Command, closes
<1>2. None # primary
    BY <1>0, LinkAssumption DEF LinkTypes
<1>3. CASE /\ seen # p /\ live' = (live /\ primary # p)
           /\ second' = [second EXCEPT ![p] = "absent"]
           /\ UNCHANGED <<fsm, primary, queue, lost>>
  <2>1. LinkTypes'
      BY <1>0, <1>1, <1>3 DEF LinkTypes, fsm
  <2>2. SlotsApart' /\ Linked' \subseteq Linked
      BY <1>0, <1>1, <1>3 DEF SlotsApart, Linked, LinkTypes
  <2>3. ASSUME primary' \notin Linked' PROVE  primary \notin Linked \/ ~Showing'
    <3>1. CASE primary = p
        BY <1>3, <3>1 DEF Showing, fsm
    <3>2. CASE primary # p
        BY <1>0, <1>3, <2>3, <3>2 DEF Linked, LinkTypes
    <3> QED BY <3>1, <3>2
  <2>4. (live' => live) /\ (Showing' => Showing)
      BY <1>0, <1>3 DEF LinkTypes, Showing, fsm
  <2> QED BY <1>1, <1>3, <2>1, <2>2, <2>3, <2>4, NoEvent
<1>4. ASSUME Forget, NEW q \in Peers \ {p}, second[q] = "live", primary' = q, live' = TRUE,
             second' = [second EXCEPT ![p] = "absent", ![q] = "absent"],
             Post(<<Event("PrimaryFailover", q)>>), UNCHANGED phase
      PROVE  Effective
  <2> DEFINE e == Event("PrimaryFailover", q)
  <2>1. e \in Events /\ e.kind = "PrimaryFailover" /\ Post(<<e>>)
      BY <1>4, Events_
  <2> HIDE DEF e
  <2>2. queue' \in Seq(Events) /\ lost' \in BOOLEAN => LinkTypes'
      BY <1>0, <1>1, <1>4 DEF LinkTypes, Forget
  <2>3. SlotsApart'
      BY <1>0, <1>4 DEF SlotsApart, LinkTypes
  <2>4. Linked' \subseteq Linked /\ primary' \in Linked'
      BY <1>0, <1>4 DEF Linked, LinkTypes
  <2>5. ~Queued("PeerLost") /\ ~Queued("GhostTimeout")
      BY <1>1 DEF Queued
  <2> QED BY <1>1, <2>1, <2>2, <2>3, <2>4, <2>5, OneEvent
<1>5. ASSUME Forget, phase' = IF phase \in {"handshaking", "linked"} THEN "discovering" ELSE phase,
             live' = (live /\ primary # p /\ phase # "linked"),
             second' = [second EXCEPT ![p] = "absent"], UNCHANGED <<primary, queue, lost>>
      PROVE  Effective
  <2>1. LinkTypes'
      BY <1>0, <1>1, <1>5 DEF LinkTypes, Forget, Phases
  <2>2. SlotsApart' /\ Linked' \subseteq Linked
      BY <1>0, <1>1, <1>5 DEF SlotsApart, Linked, LinkTypes
  <2>3. ~Showing' /\ (live' => live)
      BY <1>0, <1>5 DEF Showing, LinkTypes
  <2> QED BY <1>1, <1>5, <2>1, <2>2, <2>3, NoEvent
<1> QED BY <1>3, <1>4, <1>5 DEF Revoke

-----------------------------------------------------------------------------
\* A turn of the loop takes an event off the queue: what was due behind it still is,
\* and what was due by it is done.
LEMMA HandleKeeps == ASSUME LinkInv, Handle PROVE  LinkInv'
<1> DEFINE e == queue[1]
           n == Len(queue)
<1>0. LinkTypes /\ SlotsApart /\ GreetingDue /\ LossFollows /\ ClosesFirst
    BY DEF LinkInv
<1>1. /\ n \in Nat /\ n >= 1 /\ 1 \in 1 .. n /\ e \in Events /\ queue' \in Seq(Events)
      /\ Len(queue') = n - 1
      /\ \A i \in 1 .. Len(queue') : queue'[i] = queue[i + 1] /\ i + 1 \in 1 .. n
  <2> DEFINE K == Events
  <2>1. queue \in Seq(K) /\ queue # <<>> /\ queue' = Tail(queue)
      BY <1>0 DEF LinkTypes, Handle
  <2> HIDE DEF K
  <2>2. /\ n \in Nat /\ n >= 1 /\ 1 \in 1 .. n /\ e \in K
      BY <2>1
  <2>3. /\ queue' \in Seq(K) /\ Len(queue') = n - 1
        /\ \A i \in 1 .. Len(queue') : queue'[i] = queue[i + 1]
      BY <2>1, HeadTailProperties
  <2>4. \A i \in 1 .. Len(queue') : i + 1 \in 1 .. n
      BY <2>2, <2>3
  <2> QED BY <2>2, <2>3, <2>4 DEF K
<1>2. \A j \in 1 .. n : j # 1 => j - 1 \in 1 .. Len(queue') /\ queue'[j - 1] = queue[j]
    BY <1>1
<1>3. /\ UNCHANGED <<primary, second, trusted, dialling, lost>>
      /\ \/ e.kind = "PeerSeen" /\ ApplyPeerSeen(e.peer)
         \/ e.kind = "HandshakeOk" /\ ApplyHandshakeOk
         \/ e.kind = "PeerLost" /\ ApplyPeerLost
         \/ e.kind = "PrimaryFailover" /\ ApplyFailover(e.peer)
         \/ e.kind = "PeerRevoked" /\ ApplyPeerRevoked(e.peer)
         \/ e.kind = "GhostTimeout" /\ ApplyGhostTimeout
  <2>1. e = Head(queue)
      BY <1>1
  <2> QED BY <2>1 DEF Handle, world, dial
<1>4. e.peer \in Peers \cup {None} /\ None # primary
    BY <1>0, <1>1, LinkAssumption DEF Events, LinkTypes
<1> HIDE DEF e, n
\* What the six kinds of event do.
<1>5. /\ (live' => live) /\ live' \in BOOLEAN /\ UNCHANGED <<late, hidden>>
      /\ phase' \in Phases /\ seen' \in Peers \cup {None} /\ named' \in BOOLEAN
      /\ greeted' \subseteq Peers
  <2> USE <1>0, <1>3, <1>4 DEF LinkTypes
  <2>1. CASE ApplyPeerSeen(e.peer)
      BY <2>1 DEF ApplyPeerSeen, closes, fsm, Phases
  <2>2. CASE ApplyHandshakeOk
      BY <2>2 DEF ApplyHandshakeOk, Greet, Linked, closes, Phases
  <2>3. CASE ApplyPeerLost
      BY <2>3 DEF ApplyPeerLost, CloseSession, closes, Phases
  <2>4. CASE ApplyFailover(e.peer)
      BY <2>4 DEF ApplyFailover, closes
  <2>5. CASE ApplyPeerRevoked(e.peer)
      BY <2>5 DEF ApplyPeerRevoked, Forget, closes
  <2>6. CASE ApplyGhostTimeout
    <3>1. CASE phase = "linked"
        BY <2>6, <3>1 DEF ApplyGhostTimeout, closes, fsm
    <3>2. CASE phase # "linked"
      <4>1. /\ seen' = None /\ named' = FALSE /\ live' = (phase = "idle" /\ live)
            /\ phase' \in {"idle", "discovering"} /\ UNCHANGED <<greeted, late, hidden>>
          BY <2>6, <3>2 DEF ApplyGhostTimeout, Forget, closes
      <4> QED BY <4>1 DEF Phases
    <3> QED BY <3>1, <3>2
  <2> QED BY <2>1, <2>2, <2>3, <2>4, <2>5, <2>6
<1>6. LinkTypes'
    BY <1>0, <1>1, <1>3, <1>5 DEF LinkTypes
<1>7. SlotsApart'
    BY <1>0, <1>3, <1>5 DEF SlotsApart
<1>8. Linked' \subseteq Linked
    BY <1>0, <1>3, <1>5 DEF Linked
<1>9. GreetingDue'
  <2> SUFFICES ASSUME ~lost, ~hidden PROVE  Linked' \subseteq greeted' \/ Queued("HandshakeOk")'
      BY <1>3, <1>5 DEF GreetingDue
  <2>1. CASE e.kind = "HandshakeOk"
    <3>1. ApplyHandshakeOk
        BY <1>3, <2>1
    <3>2. second[primary] # "live"
        BY <1>0 DEF SlotsApart
    <3> QED BY <1>0, <1>3, <3>1, <3>2 DEF ApplyHandshakeOk, Greet, Linked, HasSession, LinkTypes
  <2>2. CASE e.kind # "HandshakeOk"
    <3>1. greeted' = greeted
        BY <1>3, <2>2 DEF ApplyPeerSeen, ApplyPeerLost, ApplyFailover, ApplyPeerRevoked,
                           ApplyGhostTimeout
    <3>2. ASSUME Queued("HandshakeOk") PROVE  Queued("HandshakeOk")'
      <4>1. PICK j \in 1 .. n : queue[j].kind = "HandshakeOk"
          BY <3>2 DEF Queued, n
      <4>2. j # 1
          BY <2>2, <4>1 DEF e
      <4> QED BY <1>2, <4>1, <4>2 DEF Queued
    <3> QED BY <1>0, <1>8, <3>1, <3>2 DEF GreetingDue
  <2> QED BY <2>1, <2>2
<1>10. LossFollows'
  <2> SUFFICES ASSUME ~lost, ~late, primary \notin Linked'
               PROVE  /\ Showing' => Queued("PeerLost")'
                      /\ \A i \in 1 .. Len(queue') :
                             queue'[i].kind \in {"PeerSeen", "PrimaryFailover"}
                                 /\ queue'[i].peer = primary =>
                             \E j \in 1 .. Len(queue') : j > i /\ queue'[j].kind = "PeerLost"
      BY <1>3, <1>5 DEF LossFollows, Showing, Brings, LostAfter
  <2>1. CASE primary \in Linked
    <3>1. live /\ ~live'
        BY <1>0, <1>3, <1>5, <2>1 DEF Linked, LinkTypes
    <3>2. /\ e.kind \in {"PeerLost", "GhostTimeout"} /\ ~Showing'
      <4>1. CASE e.kind = "PeerLost" /\ ApplyPeerLost
          BY <3>1, <4>1 DEF ApplyPeerLost, Showing
      <4>2. CASE e.kind = "GhostTimeout" /\ ApplyGhostTimeout
          BY <1>3, <1>4, <3>1, <4>2 DEF ApplyGhostTimeout, Showing, Forget, fsm
      <4> QED BY <1>3, <3>1, <4>1, <4>2 DEF ApplyPeerSeen, ApplyHandshakeOk, ApplyFailover, ApplyPeerRevoked
    <3>3. \A j \in 1 .. n : 1 < j => ~Brings(j)
        BY <1>0, <1>1, <3>1, <3>2 DEF ClosesFirst, Closing, e, n
    <3>4. \A i \in 1 .. Len(queue') : i + 1 \in 1 .. n /\ 1 < i + 1 /\ queue'[i] = queue[i + 1]
        BY <1>1
    <3> QED BY <3>2, <3>3, <3>4 DEF Brings
  <2>2. CASE primary \notin Linked
    <3>1. /\ Showing => Queued("PeerLost")
          /\ \A i \in 1 .. n : Brings(i) => LostAfter(i)
        BY <1>0, <2>2 DEF LossFollows, Showing, n
    <3>2. ASSUME NEW i \in 1 .. Len(queue'), queue'[i].kind \in {"PeerSeen", "PrimaryFailover"},
                 queue'[i].peer = primary
          PROVE  \E j \in 1 .. Len(queue') : j > i /\ queue'[j].kind = "PeerLost"
      <4>1. i + 1 \in 1 .. n /\ Brings(i + 1)
          BY <1>1, <3>2 DEF Brings
      <4>2. PICK j \in 1 .. n : j > i + 1 /\ queue[j].kind = "PeerLost"
          BY <3>1, <4>1 DEF LostAfter, n
      <4>3. j # 1 /\ j - 1 > i
          BY <1>1, <4>2
      <4> QED BY <1>2, <4>2, <4>3
    <3>3. ASSUME Queued("PeerLost"), e.kind # "PeerLost" PROVE  Queued("PeerLost")'
      <4>1. PICK j \in 1 .. n : queue[j].kind = "PeerLost"
          BY <3>3 DEF Queued, n
      <4>2. j # 1
          BY <3>3, <4>1 DEF e
      <4> QED BY <1>2, <4>1, <4>2 DEF Queued
    <3>4. ASSUME e.kind \in {"PeerSeen", "PrimaryFailover"}, e.peer = primary PROVE  Queued("PeerLost")'
      <4>1. Brings(1)
          BY <3>4 DEF Brings, e
      <4>2. PICK j \in 1 .. n : j > 1 /\ queue[j].kind = "PeerLost"
          BY <1>1, <3>1, <4>1 DEF LostAfter, n
      <4>3. j # 1
          BY <1>1, <4>2
      <4> QED BY <1>2, <4>2, <4>3 DEF Queued
    <3>5. ASSUME Showing' PROVE  Queued("PeerLost")'
      <4>1. CASE e.kind = "PeerSeen" /\ ApplyPeerSeen(e.peer)
        <5>1. CASE UNCHANGED fsm
            BY <1>3, <3>1, <3>3, <3>5, <4>1, <5>1 DEF Showing, fsm
        <5>2. CASE seen' = e.peer
            BY <1>3, <3>4, <3>5, <4>1, <5>2 DEF Showing
        <5> QED BY <4>1, <5>1, <5>2 DEF ApplyPeerSeen
      <4>2. CASE e.kind = "HandshakeOk" /\ ApplyHandshakeOk
        <5>1. Showing
            BY <1>3, <3>5, <4>2 DEF ApplyHandshakeOk, Showing
        <5> QED BY <3>1, <3>3, <4>2, <5>1
      <4>3. CASE e.kind = "PeerLost" /\ ApplyPeerLost
          BY <3>5, <4>3 DEF ApplyPeerLost, Showing
      <4>4. CASE e.kind = "PrimaryFailover" /\ ApplyFailover(e.peer)
          BY <1>3, <3>4, <3>5, <4>4 DEF ApplyFailover, Showing
      <4>5. CASE e.kind = "PeerRevoked" /\ ApplyPeerRevoked(e.peer)
        <5>1. Showing
            BY <1>3, <1>4, <3>5, <4>5 DEF ApplyPeerRevoked, Showing, Forget
        <5> QED BY <3>1, <3>3, <4>5, <5>1
      <4>6. CASE e.kind = "GhostTimeout" /\ ApplyGhostTimeout
        <5>1. Showing
            BY <1>3, <1>4, <3>5, <4>6 DEF ApplyGhostTimeout, Showing, Forget, fsm
        <5> QED BY <3>1, <3>3, <4>6, <5>1
      <4> QED BY <1>3, <4>1, <4>2, <4>3, <4>4, <4>5, <4>6
    <3> QED BY <3>2, <3>5
  <2> QED BY <2>1, <2>2
<1>11. ClosesFirst'
  <2> SUFFICES ASSUME ~lost, ~late, live,
                      NEW i \in 1 .. Len(queue'), NEW j \in 1 .. Len(queue'), i < j,
                      queue'[i].kind \in {"PeerLost", "GhostTimeout"},
                      queue'[j].kind \in {"PeerSeen", "PrimaryFailover"}, queue'[j].peer = primary
               PROVE  FALSE
      BY <1>3, <1>5 DEF ClosesFirst, Closing, Brings
  <2>1. i + 1 \in 1 .. n /\ j + 1 \in 1 .. n /\ i + 1 < j + 1
      BY <1>1
  <2>2. Closing(i + 1) /\ Brings(j + 1)
      BY <1>1 DEF Closing, Brings
  <2> QED BY <1>0, <2>1, <2>2 DEF ClosesFirst, n
<1> QED BY <1>6, <1>7, <1>9, <1>10, <1>11 DEF LinkInv

-----------------------------------------------------------------------------
\* The invariant, and what it means when the queue is empty.

LEMMA LinkStart == LinkInit => LinkInv
<1> SUFFICES ASSUME LinkInit PROVE  LinkInv
    OBVIOUS
<1>1. /\ phase = "discovering" /\ seen = None /\ named = FALSE /\ primary \in Peers /\ live = FALSE
      /\ second = [p \in Peers |-> "absent"] /\ greeted = {} /\ trusted = Peers
      /\ queue = <<>> /\ dialling = None /\ lost = FALSE /\ late = FALSE /\ hidden = FALSE
    BY DEF LinkInit
<1>2. queue \in Seq(Events) /\ Len(queue) = 0
    BY <1>1, Tuples
<1>3. LinkTypes
    BY <1>1, <1>2 DEF LinkTypes, Phases
<1>4. SlotsApart /\ Linked = {}
    BY <1>1 DEF SlotsApart, Linked
<1>5. GreetingDue
    BY <1>4 DEF GreetingDue
<1>6. LossFollows
    BY <1>1, <1>2 DEF LossFollows
<1>7. ClosesFirst
    BY <1>1, <1>2 DEF ClosesFirst
<1> QED BY <1>3, <1>4, <1>5, <1>6, <1>7 DEF LinkInv

LEMMA LinkStep == LinkInv /\ [LinkNext]_linkVars => LinkInv'
<1> SUFFICES ASSUME LinkInv, [LinkNext]_linkVars PROVE  LinkInv'
    OBVIOUS
<1>1. ASSUME Effective PROVE  LinkInv'
  <2>1. PICK evs : Effect(evs)
      BY <1>1 DEF Effective
  <2>2. GreetingDue' /\ LossFollows' /\ ClosesFirst'
      BY <1>1, <2>1, EffectKeeps DEF Effective
  <2> QED BY <1>1, <2>2 DEF Effective, LinkInv
<1>2. CASE Handle
    BY <1>2, HandleKeeps
<1>3. CASE DialAnswered
    BY <1>1, <1>3, AnsweredEffect
<1>4. CASE PrimaryTimeout
    BY <1>1, <1>4, TimeoutEffect
<1>5. CASE MdnsRemoved \/ GhostDue
    BY <1>1, <1>5, ReportEffect
<1>6. CASE ToggleOff \/ Unpair
    BY <1>1, <1>6, OffEffect
<1>7. CASE ToggleOn
    BY <1>1, <1>7, OnEffect
<1>8. CASE Reconnect
    BY <1>1, <1>8, ReconnectEffect
<1>9. ASSUME NEW p \in Peers, Attempt(p) \/ Falls(p) \/ Returns(p) \/ Pair(p)
      PROVE  LinkInv'
    BY <1>1, <1>9, DialEffect
<1>10. ASSUME NEW p \in Peers, Answer(p) \/ Rekey(p) PROVE  LinkInv'
    BY <1>1, <1>10, AnswerEffect
<1>11. ASSUME NEW p \in Peers, SecondaryTimeout(p) PROVE  LinkInv'
    BY <1>1, <1>11, SilentSecondEffect
<1>12. ASSUME NEW p \in Peers, RecvBye(p) PROVE  LinkInv'
    BY <1>1, <1>12, ByeEffect
<1>13. ASSUME NEW p \in Peers, RecvRevoke(p) PROVE  LinkInv'
    BY <1>1, <1>13, RevokedEffect
<1>14. ASSUME NEW p \in Peers, Revoke(p) PROVE  LinkInv'
    BY <1>1, <1>14, RevokeEffect
<1>15. CASE Tick \/ DialFails
  <2>1. primary \in Peers
      BY DEF LinkInv, LinkTypes
  <2> QED BY <1>9, <1>15, <2>1 DEF Attempt
<1>16. CASE UNCHANGED linkVars
  <2>1. UNCHANGED <<slots, phase, seen, greeted, queue, history>> /\ LinkTypes'
      BY <1>16 DEF linkVars, fsm, slots, history, LinkInv, LinkTypes, dial
  <2> QED BY <1>1, <2>1, StillEffect
<1> QED
    BY <1>2, <1>3, <1>4, <1>5, <1>6, <1>7, <1>8, <1>9, <1>10, <1>11, <1>12, <1>13, <1>14, <1>15,
       <1>16 DEF LinkNext, Attempt

BackoffTypes == backoff \in [Peers -> Backoffs]

LEMMA BackoffStep == BackoffTypes /\ [LinkNext]_linkVars => BackoffTypes'
<1> SUFFICES ASSUME BackoffTypes, [LinkNext]_linkVars PROVE  BackoffTypes'
    OBVIOUS
<1>1. \/ UNCHANGED backoff
      \/ backoff' = [p \in Peers |-> IF backoff[p] = "failed" THEN "waiting" ELSE backoff[p]]
      \/ backoff' = [p \in Peers |-> "ready"]
      \/ \E p : backoff' = [backoff EXCEPT ![p] = "ready"] \/ backoff' = [backoff EXCEPT ![p] = "failed"]
  <2>1. CASE UNCHANGED linkVars
      BY <2>1 DEF linkVars, dial
  <2>2. CASE Tick \/ Unpair
      BY <2>2 DEF Tick, Unpair
  <2>3. ASSUME NEW p, BackoffEnds(p) \/ RecvRevoke(p) \/ Revoke(p)
        PROVE  \E q : \/ backoff' = [backoff EXCEPT ![q] = "ready"]
                      \/ backoff' = [backoff EXCEPT ![q] = "failed"]
      BY <2>3 DEF BackoffEnds, RecvRevoke, Revoke
  <2>4. CASE DialFails
      BY <2>4 DEF DialFails
  <2>5. ASSUME NEW p,
               \/ Handle \/ DialAnswered \/ PrimaryTimeout \/ MdnsRemoved \/ GhostDue
               \/ ToggleOff \/ ToggleOn \/ Reconnect
               \/ Resolved(p) \/ Answer(p) \/ Rekey(p) \/ SecondaryTimeout(p) \/ RecvBye(p)
               \/ Pair(p) \/ Falls(p) \/ Returns(p)
        PROVE  UNCHANGED backoff
    <3>1. CASE Resolved(p) \/ Pair(p) \/ DialAnswered
        BY <3>1 DEF Resolved, Pair, DialAnswered
    <3>2. CASE Handle \/ PrimaryTimeout \/ MdnsRemoved \/ GhostDue
        BY <3>2 DEF Handle, PrimaryTimeout, MdnsRemoved, GhostDue, dial
    <3>3. CASE ToggleOff \/ ToggleOn \/ Reconnect
        BY <3>3 DEF ToggleOff, ToggleOn, Reconnect, dial
    <3>4. CASE Answer(p) \/ Rekey(p) \/ SecondaryTimeout(p) \/ RecvBye(p) \/ Falls(p) \/ Returns(p)
        BY <3>4 DEF Answer, Rekey, SecondaryTimeout, RecvBye, Falls, Returns, dial
    <3> QED BY <2>5, <3>1, <3>2, <3>3, <3>4
  <2> QED BY <2>1, <2>2, <2>3, <2>4, <2>5 DEF LinkNext
<1> QED BY <1>1 DEF BackoffTypes, Backoffs

\* The daemon's links keep their types: the slots, the projection of the state machine,
\* the queue and the backoffs hold only devices of the daemon and events of the loop.
THEOREM LinkTypeCorrect == LinkSpec => [](LinkTypes /\ BackoffTypes)
<1>1. LinkInv => LinkTypes
    BY DEF LinkInv
<1>2. LinkInit => BackoffTypes
    BY DEF LinkInit, BackoffTypes, Backoffs
<1> QED BY <1>1, <1>2, LinkStart, LinkStep, BackoffStep, PTL DEF LinkSpec

\* Whichever path brought a session up (dialled, answered, rekeyed, resumed, promoted),
\* once the events are handled its peer has had our Hello on it: greet_new_sessions
\* leaves no session out.
THEOREM SessionsAreGreeted == LinkSpec => []EverySessionGreeted
<1>1. LinkInv => EverySessionGreeted
    BY DEF LinkInv, GreetingDue, EverySessionGreeted, Drained, Queued
<1> QED BY <1>1, LinkStart, LinkStep, PTL DEF LinkSpec

\* Once the events are handled, the state machine shows no link to the device in the
\* primary slot that has no session: whatever took the session away (a timeout, Bye,
\* Revoke, a command, a failover) a PeerLost followed it through the queue.
THEOREM ShownLinksAreThere == LinkSpec => []LinkShownIsThere
<1>1. LinkInv => LinkShownIsThere
    BY DEF LinkInv, LossFollows, LinkShownIsThere, Drained, Queued
<1> QED BY <1>1, LinkStart, LinkStep, PTL DEF LinkSpec
=============================================================================
