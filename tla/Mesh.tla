-------------------------------- MODULE Mesh --------------------------------
(***************************************************************************)
(* Delivery of clipboard items between the daemons of a mesh: a local copy *)
(* is fanned out to every linked peer, acknowledged hop by hop, sent again *)
(* until acknowledged, relayed once by every device that sees it first and *)
(* queued for its clipboard (driver/actions.rs, inbound.rs, frames.rs).    *)
(*                                                                         *)
(* An item is one frame here (Transfer has the chunks).  A datagram is     *)
(* delivered or lost within RETRANSMIT_INTERVAL; acknowledgements may be   *)
(* later than that.                                                        *)
(***************************************************************************)
EXTENDS Naturals, Sequences, FiniteSets

CONSTANTS
    Nodes,          \* the devices
    Events,         \* the items copied: an origin and its sequence number
    OriginOf,       \* the device that copies an event
    HashOf,         \* its content: two events may have the same
    None,           \* no content
    PrimaryOf,      \* the peer in the primary slot of each device
    Plans,          \* which devices are paired, what is copied, how much goes wrong
    MaxAttempts,    \* MAX_RETRANSMIT
    InboxCap        \* EVENT_CHANNEL_CAP

Hashes == {HashOf[e] : e \in Events}
Pairs == {pr \in Nodes \X Nodes : pr[1] # pr[2]}

ASSUME MeshAssumption ==
    /\ OriginOf \in [Events -> Nodes] /\ PrimaryOf \in [Nodes -> Nodes]
    /\ DOMAIN HashOf = Events /\ None \notin Hashes
    /\ Plans \subseteq [paired : SUBSET Pairs, todo : SUBSET Events, losses : Nat, trouble : Nat]
    /\ MaxAttempts \in Nat /\ InboxCap \in Nat

VARIABLES
    paired,       \* <<n, p>>: n trusts p
    todo,         \* the events still to be copied
    linked,       \* <<n, p>>: n has a session with p
    unverified,   \* <<n, p>>: p is in the pending_pairs of n
    blocks,       \* the devices whose firewall blocks what arrives
    sent,         \* the events handed to the mesh
    net,          \* datagrams on the way
    sending,      \* the item whose SendItem each driver loop is in the middle of
    meshSeen,     \* mesh_seen of each device
    inflight,     \* for each device and content: frames, peers to acknowledge, attempts
    inbox,        \* FrameReceivedClipboard events queued for the core
    held, newest, \* the dedup ring: contents in it, the newest one
    log,          \* what each daemon handed to its clipboard since it started
    losses,       \* bound on the datagrams lost
    trouble,      \* bound on links lost, restarts, re-pairings, policy changes
    disturbed     \* history: a pairing, link, restart, policy or full inbox was in the way

mesh == <<paired, linked, unverified, blocks>>
core == <<inbox, held, newest, log>>
meshVars == <<mesh, todo, sent, net, sending, meshSeen, inflight, core, losses, trouble, disturbed>>

Item(n, p, e) == [kind |-> "item", from |-> n, to |-> p, body |-> e]
Ack(n, p, h) == [kind |-> "ack", from |-> n, to |-> p, body |-> h]
Sent == [ev |-> None, to |-> {}]
Idle == [ev |-> CHOOSE e \in Events : TRUE, to |-> {}, tries |-> 0]

\* Paired devices are linked; one pairing may still be unverified on one side.
MeshInit ==
    /\ \E pl \in Plans :
          /\ paired = pl.paired /\ todo = pl.todo /\ losses = pl.losses
          /\ unverified \in {S \in {{}} \cup {{pr} : pr \in paired} : Cardinality(S) <= pl.trouble}
          /\ trouble = pl.trouble - Cardinality(unverified)
    /\ linked = paired /\ blocks = {}
    /\ sent = {} /\ net = {}
    /\ sending = [n \in Nodes |-> Sent] /\ meshSeen = [n \in Nodes |-> {}]
    /\ inflight = [n \in Nodes |-> [h \in Hashes |-> Idle]]
    /\ inbox = [n \in Nodes |-> <<>>] /\ log = [n \in Nodes |-> <<>>]
    /\ held = [n \in Nodes |-> {}] /\ newest = [n \in Nodes |-> None]
    /\ disturbed = (unverified # {})

Peers(n) == {p \in Nodes : <<n, p>> \in linked}
Verified(n) == {p \in Nodes : <<n, p>> \notin unverified}

\* track_inflight: new frames and a fresh budget, the peers still owing stay.
Track(n, e, targets) ==
    LET h == HashOf[e]
    IN  [inflight EXCEPT ![n][h] = [ev |-> e, to |-> @.to \cup targets, tries |-> 0]]

Items(n, targets, e) == {Item(n, p, e) : p \in targets \cap Peers(n)}

\* DedupRing::observe_clipboard: the newest content is an echo, another one held
\* is if it was seen within the echo window.
Echo(n, h) == h = newest[n] \/ h \in held[n]
MustBeEcho(n, h) == h = newest[n]

Observe(n, h) ==
    /\ held' = [held EXCEPT ![n] = @ \cup {h}]
    /\ newest' = [newest EXCEPT ![n] = h]

-----------------------------------------------------------------------------

Busy(n) == sending[n] # Sent
Trouble == trouble > 0 /\ trouble' = trouble - 1 /\ disturbed' = TRUE

\* The user copies e: the gates of the primary and of each target, then the
\* fan-out (gate_outbound, SendItem).
Copy(e) ==
    LET n == OriginOf[e]
        targets == Peers(n) \cap Verified(n)
        gated == PrimaryOf[n] \notin Verified(n)
    IN  /\ e \in todo /\ ~MustBeEcho(n, HashOf[e]) /\ ~Busy(n)
        /\ todo' = todo \ {e} /\ sent' = sent \cup {e}
        /\ Observe(n, HashOf[e])
        /\ IF gated \/ targets = {} THEN UNCHANGED <<net, sending>>
           ELSE /\ net' = net \cup Items(n, targets, e)
                /\ sending' = [sending EXCEPT ![n] = [ev |-> e, to |-> targets]]
        /\ UNCHANGED <<mesh, meshSeen, inflight, inbox, log, losses, trouble, disturbed>>

\* SendItem goes on once the datagrams are out: only now is the item tracked.
TrackSent(n) ==
    /\ Busy(n)
    /\ inflight' = Track(n, sending[n].ev, sending[n].to)
    /\ sending' = [sending EXCEPT ![n] = Sent]
    /\ UNCHANGED <<mesh, todo, sent, net, meshSeen, core, losses, trouble, disturbed>>

\* forward_frames: on to every linked peer but the one it came from and its origin.
ForwardTo(n, src, e) == (Peers(n) \cap Verified(n)) \ {src, OriginOf[e]}

\* Variant: every frame counts as new.
FirstSightAlways(n, e) == TRUE

\* SeenSet::observe, within its capacity.
FirstSight(n, e) == e \notin meshSeen[n]

\* A ClipboardItem frame: gate, acknowledgement, first sight, relay, queue.
RecvItem(m) ==
    LET n == m.to
        e == m.body
        targets == IF n \in blocks THEN {} ELSE ForwardTo(n, m.from, e)
        rest == net \ {m}
        acked == rest \cup {Ack(n, m.from, HashOf[e])}
    IN  /\ m.kind = "item"
        /\ IF m.from \notin Verified(n)
           THEN net' = rest /\ UNCHANGED <<meshSeen, inflight, inbox, disturbed>>
           ELSE IF ~FirstSight(n, e)
           THEN net' = acked /\ UNCHANGED <<meshSeen, inflight, inbox, disturbed>>
           ELSE /\ meshSeen' = [meshSeen EXCEPT ![n] = @ \cup {e}]
                /\ net' = acked \cup Items(n, targets, e)
                /\ inflight' = IF targets = {} THEN inflight ELSE Track(n, e, targets)
                /\ IF Len(inbox[n]) < InboxCap
                   THEN inbox' = [inbox EXCEPT ![n] = Append(@, e)] /\ UNCHANGED disturbed
                   ELSE disturbed' = TRUE /\ UNCHANGED inbox
        /\ UNCHANGED <<mesh, todo, sent, sending, held, newest, log, losses, trouble>>

\* Variant: one acknowledgement settles the item for every peer.
RecvAckForAll(m) ==
    /\ m.kind = "ack"
    /\ net' = net \ {m}
    /\ inflight' = [inflight EXCEPT ![m.to][m.body].to = {}]
    /\ UNCHANGED <<mesh, todo, sent, sending, meshSeen, core, losses, trouble, disturbed>>

\* An acknowledgement clears its sender from the item's pending set.
RecvAck(m) ==
    /\ m.kind = "ack"
    /\ net' = net \ {m}
    /\ inflight' = [inflight EXCEPT ![m.to][m.body].to = @ \ {m.from}]
    /\ UNCHANGED <<mesh, todo, sent, sending, meshSeen, core, losses, trouble, disturbed>>

Recv(m) == m \in net /\ (RecvItem(m) \/ RecvAck(m))

\* The retransmit tick: the frames again, to the peers that still owe an
\* acknowledgement, or the end of it.
Retransmit(n, h) ==
    LET inf == inflight[n][h]
    IN  /\ inf.to # {}
        /\ \A p \in inf.to : {Item(n, p, inf.ev), Ack(p, n, h)} \cap net = {}
        /\ IF inf.tries < MaxAttempts
           THEN /\ inflight' = [inflight EXCEPT ![n][h].tries = @ + 1]
                /\ net' = net \cup Items(n, inf.to, inf.ev)
           ELSE inflight' = [inflight EXCEPT ![n][h] = Idle] /\ UNCHANGED net
        /\ UNCHANGED <<mesh, todo, sent, sending, meshSeen, core, losses, trouble, disturbed>>

\* The core takes the next item: an echo or a blocked one goes no further.
Apply(n) ==
    LET e == Head(inbox[n])
        h == HashOf[e]
    IN  /\ inbox[n] # <<>> /\ ~Busy(n)
        /\ inbox' = [inbox EXCEPT ![n] = Tail(@)]
        /\ \/ Echo(n, h) /\ UNCHANGED <<held, newest, log>>
           \/ /\ ~MustBeEcho(n, h)
              /\ Observe(n, h)
              /\ log' = IF n \in blocks THEN log ELSE [log EXCEPT ![n] = Append(@, e)]
        /\ UNCHANGED <<mesh, todo, sent, sending, net, meshSeen, inflight, losses, trouble, disturbed>>

-----------------------------------------------------------------------------

\* The network loses a datagram.
Lose(m) ==
    /\ m \in net /\ losses > 0
    /\ losses' = losses - 1
    /\ net' = net \ {m}
    /\ UNCHANGED <<mesh, todo, sent, sending, meshSeen, inflight, core, trouble, disturbed>>

Between(n, p) == {m \in net : {m.from, m.to} = {n, p}}

\* A session ends on both sides; what was under way cannot be opened any more.
LinkDown(n, p) ==
    /\ Trouble /\ <<n, p>> \in linked
    /\ linked' = linked \ {<<n, p>>, <<p, n>>}
    /\ net' = net \ Between(n, p)
    /\ UNCHANGED <<paired, todo, unverified, blocks, sent, sending, meshSeen, inflight, core, losses>>

LinkUp(n, p) ==
    /\ <<n, p>> \in paired \ linked
    /\ linked' = linked \cup {<<n, p>>, <<p, n>>}
    /\ UNCHANGED <<paired, todo, unverified, blocks, sent, sending, net, meshSeen, inflight, core, losses, trouble, disturbed>>

\* A daemon restarts: what it only kept in memory is gone, the ring is seeded
\* from the history.
Restarted(n) ==
    /\ Trouble
    /\ linked' = {pr \in linked : n \notin {pr[1], pr[2]}}
    /\ net' = {m \in net : n \notin {m.from, m.to}}
    /\ meshSeen' = [meshSeen EXCEPT ![n] = {}]
    /\ inflight' = [inflight EXCEPT ![n] = [h \in Hashes |-> Idle]]
    /\ sending' = [sending EXCEPT ![n] = Sent]
    /\ inbox' = [inbox EXCEPT ![n] = <<>>]
    /\ log' = [log EXCEPT ![n] = <<>>]
    /\ UNCHANGED <<paired, todo, unverified, blocks, sent, held, newest, losses>>

\* n revokes p and the two pair again: purge_peer_from_inflight runs on the side
\* that revokes, and both sides wait for the words.
Repair(n, p) ==
    /\ Trouble /\ <<n, p>> \in linked /\ ~Busy(n)
    /\ unverified' = unverified \cup {<<n, p>>, <<p, n>>}
    /\ net' = net \ Between(n, p)
    /\ inflight' = [inflight EXCEPT ![n] = [h \in Hashes |-> [inflight[n][h] EXCEPT !.to = @ \ {p}]]]
    /\ UNCHANGED <<paired, todo, linked, blocks, sent, sending, meshSeen, core, losses>>

\* The words were compared.
Confirm(n, p) ==
    /\ <<n, p>> \in unverified
    /\ unverified' = unverified \ {<<n, p>>}
    /\ UNCHANGED <<paired, todo, linked, blocks, sent, sending, net, meshSeen, inflight, core, losses, trouble, disturbed>>

\* SetFirewall, between the relay of an item and its way through the core.
SetFirewall(n) ==
    /\ Trouble /\ ~Busy(n)
    /\ blocks' = IF n \in blocks THEN blocks \ {n} ELSE blocks \cup {n}
    /\ UNCHANGED <<paired, todo, linked, unverified, sent, sending, net, meshSeen, inflight, core, losses>>

-----------------------------------------------------------------------------

MeshNext ==
    \/ \E e \in Events : Copy(e)
    \/ \E m \in net : Recv(m) \/ Lose(m)
    \/ \E n \in Nodes :
          \/ TrackSent(n) \/ Apply(n) \/ Restarted(n) \/ SetFirewall(n)
          \/ \E h \in Hashes : Retransmit(n, h)
          \/ \E p \in Nodes : LinkDown(n, p) \/ LinkUp(n, p) \/ Repair(n, p) \/ Confirm(n, p)

Datagrams ==
    {Item(pr[1], pr[2], e) : pr \in Pairs, e \in Events}
        \cup {Ack(pr[1], pr[2], h) : pr \in Pairs, h \in Hashes}

\* The network delivers what it does not lose; timers and loops keep running.
MeshFairness ==
    /\ \A m \in Datagrams : WF_meshVars(Recv(m))
    /\ \A n \in Nodes :
          WF_meshVars(TrackSent(n) \/ Apply(n)) /\ \A h \in Hashes : WF_meshVars(Retransmit(n, h))

MeshSpec == MeshInit /\ [][MeshNext]_meshVars /\ MeshFairness

-----------------------------------------------------------------------------

\* The mesh implements the broadcast: whatever is lost, sent again, relayed in
\* circles or delivered over two paths, a daemon hands an event to its clipboard at
\* most once while it runs, only if some device copied it, and not on the device
\* that did unless the same content was copied elsewhere.
Promised == INSTANCE Broadcast WITH sent <- sent, log <- log
MeshIsBroadcast == Promised!BSpec

\* Unless a device is unverified, a link or a daemon down, the policy against it
\* or a queue full, a copied item reaches every device although datagrams are
\* lost: each hop sends it again until the acknowledgement arrives.
Members == {n \in Nodes : \E p \in Nodes : <<n, p>> \in paired}
Everywhere == \A e \in sent : \A n \in Members : HashOf[e] \in held[n]
ReachesEveryone == []<>(disturbed \/ Everywhere)
=============================================================================
