------------------------------- MODULE Links -------------------------------
(***************************************************************************)
(* The life of a link in the driver: handshakes in both directions fill    *)
(* the session slots and post events into a bounded queue; the event loop  *)
(* feeds the state machine and carries out its actions on the slots; the   *)
(* heartbeat, the ghost watchdog, the frames of the peers and the user's   *)
(* commands do the same from their own tasks (driver/mod.rs, liveness.rs,  *)
(* pairing.rs, actions.rs, commands.rs).                                   *)
(*                                                                         *)
(* A slot operation is one step here; Transport has its locks.  A command  *)
(* runs when the queue is empty: the loop's select is biased to events.    *)
(***************************************************************************)
EXTENDS Naturals, Sequences, FiniteSets

CONSTANTS
    Peers,      \* the paired devices
    Dialled,    \* those this device dials: the lesser key initiates
    None,       \* no device
    QueueCap,   \* EVENT_CHANNEL_CAP
    MaxFaults   \* bound on what devices, users and rekeys do to the links

ASSUME LinkAssumption ==
    /\ Dialled \subseteq Peers /\ None \notin Peers
    /\ QueueCap \in Nat \ {0} /\ MaxFaults \in Nat

VARIABLES
    phase, seen, named,    \* the state machine: phase, peer_id, peer_name not empty
    primary, live,         \* the primary slot: last_peer_id, a session in it
    second,                \* the secondary slot of each peer: absent, empty, live
    greeted,               \* hello_sent: the peers whose session had our Hello
    trusted,               \* the trusted peers
    queue,                 \* events for the loop
    dialling,              \* pending_initiator_tx
    backoff,               \* PeerBackoff of each device
    up, deaf,              \* the devices that answer; those that forgot the session
    faults,                \* what is left of MaxFaults
    lost,                  \* history: an event found the queue full
    late,                  \* history: a session landed in the primary slot while
                           \* the close of an earlier one was still queued
    hidden                 \* history: both slots got the name of one device
                           \* (Transport, LinkedPeerIsFound)

fsm == <<phase, seen, named>>
slots == <<primary, live, second>>
world == <<trusted, up, deaf, faults>>
dial == <<dialling, backoff>>
closes == <<late, hidden>>
history == <<lost, late, hidden>>
linkVars == <<fsm, slots, greeted, trusted, queue, dial, up, deaf, faults, history>>

Phases == {"idle", "discovering", "handshaking", "linked"}

Event(kind, p) == [kind |-> kind, peer |-> p]

\* The daemon starts with sync on, knowing its paired devices; the boot path
\* seeds the primary slot with one of them (SetTrustedPeer, set_peer_info).
LinkInit ==
    /\ phase = "discovering" /\ seen = None /\ named = FALSE
    /\ primary \in Peers /\ live = FALSE
    /\ second = [p \in Peers |-> "absent"]
    /\ greeted = {} /\ trusted = Peers /\ queue = <<>>
    /\ dialling = None /\ backoff = [p \in Peers |-> "ready"]
    /\ up = Peers /\ deaf = {} /\ faults = MaxFaults
    /\ lost = FALSE /\ late = FALSE /\ hidden = FALSE

\* conn_for(p).session.is_some()
HasSession(p) == IF primary = p THEN live ELSE second[p] = "live"

\* Sessions this device holds: linked_peer_ids.
Linked == {p \in Peers : (primary = p /\ live) \/ second[p] = "live"}

Answers(p) == p \in up \ deaf

\* try_send: an event that finds the queue full is gone.
Post(evs) ==
    LET Fits == IF Len(queue) + Len(evs) <= QueueCap THEN evs
                ELSE SubSeq(evs, 1, QueueCap - Len(queue))
    IN  /\ queue' = queue \o Fits
        /\ lost' = (lost \/ Fits # evs)

\* What the environment does is bounded.
Fault == faults > 0 /\ faults' = faults - 1

-----------------------------------------------------------------------------
\* Handshakes.

Queued(kind) == \E i \in 1 .. Len(queue) : queue[i].kind = kind

Landed == late' = (late \/ Queued("PeerLost") \/ Queued("GhostTimeout"))

\* The session of a handshake p answered lands in the primary slot ...
LandPrimary(p) ==
    /\ primary' = p /\ live' = TRUE
    /\ Landed
    /\ hidden' = (hidden \/ second[p] = "live")
    /\ UNCHANGED second

\* ... or in p's secondary one.
LandSecond(p) ==
    /\ second' = [second EXCEPT ![p] = "live"]
    /\ UNCHANGED <<primary, live, closes>>

Fresh(p) == greeted' = greeted \ {p} /\ deaf' = deaf \ {p}

\* A failed attempt rests for 250 ms or more and the dispatcher ticks every 200: a
\* backoff that is "failed" outlasts the next tick, one that is "waiting" may end.
Backoffs == {"ready", "failed", "waiting"}

\* A tick that only retries the last primary.
PrimaryCandidates == {p \in Dialled \cap trusted : primary = p /\ ~live /\ backoff[p] = "ready"}

\* The devices a tick may dial.
Candidates == {p \in Dialled \cap trusted : ~HasSession(p) /\ backoff[p] = "ready"}

\* The probe of a primary without a session ends the tick while its backoff runs, the
\* secondaries' part with it.
Held == ~live /\ primary \in trusted /\ backoff[primary] # "ready"

\* The tick of discovery_dispatcher: one attempt is started for each candidate, and
\* start_initiator refuses all but the first to find the slot free, which need not be
\* the first that was started.
Tick ==
    /\ backoff' = [p \in Peers |-> IF backoff[p] = "failed" THEN "waiting" ELSE backoff[p]]
    /\ IF phase # "idle" /\ ~Held /\ dialling = None /\ Candidates # {}
       THEN dialling' \in Candidates ELSE UNCHANGED dialling
    /\ UNCHANGED <<fsm, slots, greeted, world, queue, history>>

BackoffEnds(p) ==
    /\ backoff[p] = "waiting"
    /\ backoff' = [backoff EXCEPT ![p] = "ready"]
    /\ UNCHANGED <<fsm, slots, greeted, world, queue, dialling, history>>

\* DiscoveryEvent::Resolved: a device that announces itself is dialled whatever its
\* backoff, if the slot is free.
Resolved(p) ==
    /\ phase # "idle" /\ p \in Dialled \cap trusted \cap up
    /\ ~HasSession(p) /\ dialling = None
    /\ dialling' = p
    /\ UNCHANGED <<fsm, slots, greeted, world, queue, backoff, history>>

\* run_initiator: try_install_session, then the two events.
DialAnswered ==
    LET p == dialling
    IN  /\ p # None /\ p \in up /\ p \in trusted
        /\ dialling' = None
        /\ IF primary = p \/ ~live
           THEN IF live
                THEN UNCHANGED <<slots, greeted, deaf, queue, history>>
                ELSE /\ LandPrimary(p) /\ Fresh(p)
                     /\ Post(<<Event("PeerSeen", p), Event("HandshakeOk", p)>>)
           ELSE IF second[p] = "live"
                THEN UNCHANGED <<slots, greeted, deaf, queue, history>>
                ELSE /\ LandSecond(p) /\ Fresh(p)
                     /\ Post(<<Event("PeerSeen", p), Event("HandshakeOk", p)>>)
        /\ UNCHANGED <<fsm, trusted, up, faults, backoff>>

DialFails ==
    /\ dialling # None /\ (dialling \notin up \/ dialling \notin trusted)
    /\ dialling' = None
    /\ backoff' = [backoff EXCEPT ![dialling] = "failed"]
    /\ UNCHANGED <<fsm, slots, greeted, world, queue, history>>

\* run_responder: a known slot's session is replaced, an unknown peer takes the
\* primary slot if that is free.  set_peer_info gives the primary's name away
\* when a secondary's session is replaced beside an empty primary slot.
Responds(p) ==
    /\ Fresh(p)
    /\ IF primary = p THEN LandPrimary(p)
       ELSE IF second[p] # "absent"
       THEN /\ second' = [second EXCEPT ![p] = "live"]
            /\ primary' = IF live THEN primary ELSE p
            /\ hidden' = (hidden \/ ~live)
            /\ UNCHANGED <<live, late>>
       ELSE IF ~live THEN LandPrimary(p) ELSE LandSecond(p)
    /\ Post(IF primary = p /\ live THEN <<Event("HandshakeOk", p)>>
            ELSE <<Event("PeerSeen", p), Event("HandshakeOk", p)>>)

\* A device without a session dials in, while sync is on.
Answer(p) ==
    /\ phase # "idle" /\ p \in trusted \cap up
    /\ ~HasSession(p) \/ p \in deaf
    /\ Responds(p)
    /\ UNCHANGED <<fsm, trusted, dial, up, faults>>

\* A planned rekey by either side (rekey_watchdog): by age or volume, whether or
\* not the other side still has the session.
Rekey(p) ==
    /\ HasSession(p) /\ p \in trusted \cap up /\ dialling = None
    /\ \/ Answers(p) /\ Fault
       \/ ~Answers(p) /\ UNCHANGED faults
    /\ Responds(p)
    /\ UNCHANGED <<fsm, trusted, dial, up>>

-----------------------------------------------------------------------------
\* Links that end.

\* A promotion that moves the name and forgets the session.
PromotedName(p) ==
    /\ primary' = p /\ live' = FALSE
    /\ second' = [second EXCEPT ![p] = "absent"]

\* The slots after try_primary_failover promoted p.
Promoted(p) ==
    /\ primary' = p /\ live' = TRUE
    /\ second' = [second EXCEPT ![p] = "absent"]

\* try_primary_failover after the loss of the primary: a live secondary takes its
\* slot, else the loss goes to the state machine.  held: the dead session stays.
FailoverOrLost(p, held) ==
    \/ \E q \in Peers :
          /\ second[q] = "live"
          /\ Promoted(q) /\ Landed
          /\ Post(<<Event("PrimaryFailover", q)>>)
    \/ /\ \A q \in Peers : second[q] # "live"
       /\ live' = held
       /\ Post(<<Event("PeerLost", p)>>)
       /\ UNCHANGED <<primary, second, late>>

\* heartbeat_loop: the primary is silent.  Its session stays until the state
\* machine closes it; the next timeout is seconds away, and this one handled.
PrimaryTimeout ==
    /\ live /\ ~Answers(primary) /\ ~Queued("PeerLost")
    /\ FailoverOrLost(primary, TRUE)
    /\ UNCHANGED <<fsm, greeted, world, dial, hidden>>

\* drop_session_for(p), by the slot a lookup of p finds.
DropFor(p) ==
    /\ live' = (live /\ primary # p)
    /\ second' = IF primary # p /\ second[p] = "live"
                 THEN [second EXCEPT ![p] = "empty"] ELSE second
    /\ UNCHANGED primary

\* A silent secondary loses its session only.
SecondaryTimeout(p) ==
    /\ second[p] = "live" /\ ~Answers(p) /\ ~Queued("PeerRevoked")
    /\ DropFor(p)
    /\ Post(<<Event("PeerRevoked", p)>>)
    /\ UNCHANGED <<fsm, greeted, world, dial, closes>>

\* Msg::Bye of a linked peer.
RecvBye(p) ==
    /\ Fault
    /\ p \in Linked /\ Answers(p)
    /\ IF primary = p THEN FailoverOrLost(p, FALSE)
       ELSE DropFor(p) /\ UNCHANGED <<queue, lost, late>>
    /\ UNCHANGED <<fsm, greeted, trusted, up, deaf, dial, hidden>>

\* Msg::Revoke of a linked peer: purge_peer, then as for Bye.
RecvRevoke(p) ==
    /\ Fault
    /\ p \in Linked /\ Answers(p)
    /\ trusted' = trusted \ {p} /\ backoff' = [backoff EXCEPT ![p] = "ready"]
    /\ IF primary = p
       THEN \/ \E q \in Peers \ {p} :
                  /\ second[q] = "live"
                  /\ primary' = q /\ live' = TRUE
                  /\ second' = [second EXCEPT ![p] = "absent", ![q] = "absent"]
                  /\ Post(<<Event("PrimaryFailover", q)>>) /\ Landed
            \/ /\ \A q \in Peers \ {p} : second[q] # "live"
               /\ live' = FALSE /\ second' = [second EXCEPT ![p] = "absent"]
               /\ Post(<<Event("PeerLost", p)>>)
               /\ UNCHANGED <<primary, late>>
       ELSE /\ second' = [second EXCEPT ![p] = "absent"]
            /\ UNCHANGED <<primary, live, queue, lost, late>>
    /\ UNCHANGED <<fsm, greeted, up, deaf, dialling, hidden>>

\* mDNS reports a device gone while the primary has no session.
MdnsRemoved ==
    /\ Fault
    /\ ~live
    /\ Post(<<Event("PeerLost", primary)>>)
    /\ UNCHANGED <<fsm, slots, greeted, trusted, up, deaf, dial, closes>>

\* The watchdog has seen "discovering" with a named peer for ten minutes.
GhostDue ==
    /\ phase = "discovering" /\ named /\ ~Queued("GhostTimeout")
    /\ Post(<<Event("GhostTimeout", None)>>)
    /\ UNCHANGED <<fsm, slots, greeted, world, dial, closes>>

-----------------------------------------------------------------------------
\* The event loop: the state machine, then its actions on the primary slot.

Forget == seen' = None /\ named' = FALSE

\* Action::CloseSession, unless another device has the slot by now.
CloseSession ==
    IF seen # None /\ primary # seen /\ live THEN UNCHANGED live ELSE live' = FALSE

\* is_peer_mismatch: a device being linked under a name keeps its place.
Mismatch(p) == named /\ seen # p /\ phase \notin {"idle", "discovering"}

ApplyPeerSeen(p) ==
    /\ IF Mismatch(p) THEN UNCHANGED fsm
       ELSE /\ seen' = p /\ named' = TRUE
            /\ phase' = IF phase = "discovering" THEN "handshaking" ELSE phase
    /\ UNCHANGED <<live, greeted, closes>>

\* A Hello that only rides on the primary's link.
GreetPrimary == greeted' = (greeted \cap Linked) \cup (Linked \cap {primary})

\* greet_new_sessions: our Hello, once per session, to every linked peer.
Greet == greeted' = (greeted \cap Linked) \cup {p \in Linked : HasSession(p)}

ApplyHandshakeOk ==
    /\ phase' = IF phase = "handshaking" THEN "linked" ELSE phase
    /\ Greet
    /\ UNCHANGED <<seen, named, live, closes>>

ApplyPeerLost ==
    /\ phase' = IF phase \in {"handshaking", "linked"} THEN "discovering" ELSE phase
    /\ IF phase = "linked"
       THEN CloseSession
       ELSE UNCHANGED live
    /\ UNCHANGED <<seen, named, greeted, closes>>

\* The promoted device's name is known if its Hello has come.
ApplyFailover(p) ==
    /\ seen' = p /\ named' \in BOOLEAN
    /\ UNCHANGED <<phase, live, greeted, closes>>

ApplyPeerRevoked(p) ==
    /\ IF seen = p THEN Forget ELSE UNCHANGED <<seen, named>>
    /\ UNCHANGED <<phase, live, greeted, closes>>

\* Action::DropPeer closes whatever the primary slot holds.
ApplyGhostTimeout ==
    /\ IF phase = "linked" THEN UNCHANGED <<fsm, live>>
       ELSE /\ Forget
            /\ phase' = IF phase = "idle" THEN "idle" ELSE "discovering"
            /\ live' = (phase = "idle" /\ live)
    /\ UNCHANGED <<greeted, closes>>

Handle ==
    /\ queue # <<>> /\ queue' = Tail(queue)
    /\ LET e == Head(queue)
       IN  \/ e.kind = "PeerSeen" /\ ApplyPeerSeen(e.peer)
           \/ e.kind = "HandshakeOk" /\ ApplyHandshakeOk
           \/ e.kind = "PeerLost" /\ ApplyPeerLost
           \/ e.kind = "PrimaryFailover" /\ ApplyFailover(e.peer)
           \/ e.kind = "PeerRevoked" /\ ApplyPeerRevoked(e.peer)
           \/ e.kind = "GhostTimeout" /\ ApplyGhostTimeout
    /\ UNCHANGED <<primary, second, world, dial, lost>>

-----------------------------------------------------------------------------
\* The user's commands.

Command == queue = <<>>

\* Those that cut a link count as faults; those that undo it are free.
Cut == Command /\ Fault

\* Toggle off: the state machine closes the primary, tear_down_links the rest.
ToggleOff ==
    /\ Cut /\ phase # "idle"
    /\ phase' = "idle"
    /\ live' = FALSE
    /\ second' = [p \in Peers |-> IF second[p] = "live" /\ primary # p THEN "empty" ELSE second[p]]
    /\ UNCHANGED <<seen, named, primary, greeted, trusted, queue, dial, up, deaf, history>>

\* Toggle on, and resume_live_primary replays the events of a live session.
ToggleOn ==
    /\ Command /\ phase = "idle"
    /\ IF live /\ primary \in trusted
       THEN phase' = "linked" /\ seen' = primary /\ named' = TRUE /\ Greet
       ELSE phase' = "discovering" /\ UNCHANGED <<seen, named, greeted>>
    /\ UNCHANGED <<slots, world, queue, dial, history>>

\* Reconnect drops the primary's session and reports it lost.
Reconnect ==
    /\ Cut
    /\ live' = FALSE
    /\ Post(<<Event("PeerLost", primary)>>)
    /\ UNCHANGED <<fsm, primary, second, greeted, trusted, dial, up, deaf, closes>>

\* Unpair forgets every device.
Unpair ==
    /\ Cut /\ trusted # {}
    /\ trusted' = {} /\ phase' = "idle" /\ Forget /\ live' = FALSE
    /\ second' = [p \in Peers |-> IF p \in Linked THEN "absent" ELSE second[p]]
    /\ backoff' = [p \in Peers |-> "ready"]
    /\ UNCHANGED <<primary, greeted, queue, dialling, up, deaf, history>>

\* Revoke purges one device; if it is the one projected, a secondary takes over
\* or the state machine is told it is lost.
Revoke(p) ==
    /\ Cut /\ p \in trusted
    /\ trusted' = trusted \ {p} /\ backoff' = [backoff EXCEPT ![p] = "ready"]
    /\ LET others == {q \in Peers \ {p} : second[q] = "live"}
       IN  IF seen # p
           THEN /\ live' = (live /\ primary # p)
                /\ second' = [second EXCEPT ![p] = "absent"]
                /\ UNCHANGED <<fsm, primary, queue, lost>>
           ELSE /\ Forget
                /\ \/ \E q \in others :
                         /\ primary' = q /\ live' = TRUE
                         /\ second' = [second EXCEPT ![p] = "absent", ![q] = "absent"]
                         /\ Post(<<Event("PrimaryFailover", q)>>)
                         /\ UNCHANGED phase
                   \/ /\ others = {}
                      /\ phase' = IF phase \in {"handshaking", "linked"} THEN "discovering" ELSE phase
                      /\ live' = (live /\ primary # p /\ phase # "linked")
                      /\ second' = [second EXCEPT ![p] = "absent"]
                      /\ UNCHANGED <<primary, queue, lost>>
    /\ UNCHANGED <<greeted, dialling, up, deaf, closes>>

\* PairFromUri, PairAccept, PairFromPin: trust, ensure_online, start_initiator.
Pair(p) ==
    /\ Command /\ p \notin trusted
    /\ trusted' = trusted \cup {p}
    /\ phase' = IF phase = "idle" THEN "discovering" ELSE phase
    /\ dialling' = IF dialling = None THEN p ELSE dialling
    /\ UNCHANGED <<seen, named, slots, greeted, queue, backoff, up, deaf, faults, history>>

-----------------------------------------------------------------------------
\* The devices.

Falls(p) ==
    /\ Fault /\ p \in up
    /\ up' = up \ {p}
    /\ UNCHANGED <<fsm, slots, greeted, trusted, queue, dial, deaf, history>>

\* A device comes back with its session, or restarted without it.
Returns(p) ==
    /\ p \notin up
    /\ up' = up \cup {p}
    /\ deaf' \in {deaf, deaf \cup {p}}
    /\ UNCHANGED <<fsm, slots, greeted, trusted, queue, dial, faults, history>>

-----------------------------------------------------------------------------

LinkNext ==
    \/ Handle \/ Tick \/ DialAnswered \/ DialFails \/ PrimaryTimeout
    \/ MdnsRemoved \/ GhostDue \/ ToggleOff \/ ToggleOn \/ Reconnect \/ Unpair
    \/ \E p \in Peers :
          \/ BackoffEnds(p) \/ Resolved(p) \/ Answer(p) \/ Rekey(p) \/ SecondaryTimeout(p)
          \/ RecvBye(p) \/ RecvRevoke(p) \/ Revoke(p) \/ Pair(p) \/ Falls(p) \/ Returns(p)

\* The loop, the heartbeat, the watchdogs and the dispatcher run for ever, an attempt
\* and a backoff end, and devices that are meant to dial in do so.  Nothing is assumed
\* of which device a tick dials, nor of mDNS.
LinkFairness ==
    /\ WF_linkVars(Handle) /\ WF_linkVars(DialAnswered \/ DialFails)
    /\ WF_linkVars(PrimaryTimeout) /\ WF_linkVars(GhostDue) /\ WF_linkVars(Tick)
    /\ \A p \in Peers :
          /\ WF_linkVars(SecondaryTimeout(p)) /\ WF_linkVars(BackoffEnds(p))
          /\ WF_linkVars(Answer(p) /\ p \notin Dialled)

LinkSpec == LinkInit /\ [][LinkNext]_linkVars /\ LinkFairness
-----------------------------------------------------------------------------
\* Every event posted has been handled.
Drained == queue = <<>> /\ ~lost

\* Once the events are handled, every peer with a session has had this device's
\* Hello on that very session, whichever path brought it up: dialled, answered,
\* rekeyed, resumed by Toggle on, promoted (greet_new_sessions).
EverySessionGreeted ==
    Drained /\ ~hidden /\ phase # "idle" => Linked \subseteq greeted

\* The state machine does not show a link to the device in the primary slot when
\* that device has no session left, through timeouts, Bye, revocations, failover
\* and reconnects, unless a close overtook a new session in the queue.
LinkShownIsThere ==
    Drained /\ ~late /\ phase = "linked" /\ seen = primary => primary \in Linked

\* Whatever broke a link and whoever was restarted, a trusted device that stays up
\* while sync stays on gets a session that it can answer on, over and over: dead
\* sessions are dropped and the device dialled or awaited again.  Not so a device that
\* must be dialled while another one in the primary slot, without a session, has its
\* backoff running again and again.
ReachablePeersLink ==
    []~lost => \A p \in Peers :
        <>[](p \in up \cap trusted /\ phase # "idle") =>
            \/ []<>(p \in Linked /\ Answers(p))
            \/ p \in Dialled /\ []<>(primary # p /\ Held)

\* "Off" means no link at all (Shared::sync_on): with sync off and the events
\* handled, no session is left.
NoLinkWhileOff == Drained /\ phase = "idle" => Linked = {}
=============================================================================
