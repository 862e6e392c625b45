------------------------------ MODULE AppCore ------------------------------
(***************************************************************************)
(* App::handle, the state machine of one device                            *)
(* (crates/fluxsync-core/src/app.rs on top of fsm.rs): one action per      *)
(* Event, from the early returns to the list of Actions it hands back.     *)
(* Events come from the daemon's tasks through one queue and from its      *)
(* command handlers, so the module assumes no order among them.            *)
(*                                                                         *)
(* Left out: battery, latency and metrics, the texts of names, previews    *)
(* and logs, and the EmitState and EmitLog actions.  An item stands for    *)
(* one content hash, kind and preview.  The order of the history is left   *)
(* out, so the row its cap drops is any row but the newest.                *)
(***************************************************************************)
EXTENDS Naturals, FiniteSets

CONSTANTS
    Peers,        \* the devices this one can meet
    NoPeer,       \* the all-zero peer id
    Items,        \* clipboard items
    NoItem,       \* the argument of an action that carries no item
    Sensitive,    \* the items flagged as secrets
    SasPeers,     \* the peers whose pairing is verified with SAS words
    Ackers,       \* the peers that acknowledge what they are sent
    Rulings,      \* the decisions the firewall policies in use may give
    Mesh,         \* whether other peers may be linked beside the primary
    HistoryCap,   \* HISTORY_SOFT_CAP
    MaxWipes      \* bound on the security wipes, for model checking

ASSUME PeersAssumption == NoPeer \notin Peers /\ SasPeers \subseteq Peers /\ Ackers \subseteq Peers
ASSUME ItemsAssumption == NoItem \notin Items /\ Sensitive \subseteq Items
ASSUME RulingsAssumption == Rulings \subseteq {"pass", "defer", "block"}
ASSUME MeshAssumption == Mesh \in BOOLEAN
ASSUME CapAssumption == HistoryCap \in Nat \ {0} /\ MaxWipes \in Nat

VARIABLES
    phase,       \* App.phase
    on,          \* state.on
    named,       \* whether state.peer_name is not empty
    peerId,      \* state.peer_id
    lastPaired,  \* last_paired_peer_id
    history,     \* state.history: [item, from, fav], from is NoPeer for a local copy
    delivered,   \* state.delivered: [item, to]
    wipeGen,     \* state.vault_wipe_gen
    ring,        \* the contents in the dedup ring
    newest,      \* the newest of them, or NoItem
    verdict,     \* config.firewall, as its decision on each item
    rows,        \* state.pending: [item, dir, from]
    held,        \* pending_payloads: item -> [dir, from], or NotHeld
    sasPhase,    \* state.sas_phase
    sasPeer,     \* state.sas_peer
    localOk,     \* history: the peers this side confirmed since their pairing started
    peerOk,      \* history: the peers that confirmed since their pairing started
    emitted      \* the actions the last event returned

linkVars == <<phase, on, named, peerId, lastPaired>>
histVars == <<history, delivered, wipeGen>>
ringVars == <<ring, newest>>
parkVars == <<rows, held>>
sasVars == <<sasPhase, sasPeer, localOk, peerOk>>
clipVars == <<histVars, ringVars, parkVars, verdict>>
vars == <<linkVars, histVars, ringVars, parkVars, sasVars, verdict, emitted>>

Phases == {"idle", "discovering", "handshaking", "linked"}
SasPhases == {"idle", "showing", "local_confirmed", "peer_confirmed", "confirmed",
              "peer_rejected"}
Decisions == {"pass", "defer", "block"}
Directions == {"inbound", "outbound"}
PeerIds == Peers \cup {NoPeer}
Held == [dir : Directions, from : PeerIds]
NotHeld == [dir |-> "none", from |-> NoPeer]
ActNames == {"StartDiscovery", "StopDiscovery", "SendHandshake", "DropPeer", "OpenSession",
             "CloseSession", "BurstReplay", "DuplicateDropped", "ResyncApplySuppressed",
             "PendingDropped", "SendItem", "WriteClipboard", "AckItem"}

Act(name) == [act |-> name, item |-> NoItem]
ItemAct(name, i) == [act |-> name, item |-> i]
Emit(names) == emitted' = {Act(n) : n \in names}

Init ==
    /\ phase = "idle" /\ on = FALSE /\ named = FALSE
    /\ peerId = NoPeer /\ lastPaired = NoPeer
    /\ history = {} /\ delivered = {} /\ wipeGen = 0
    /\ ring = {} /\ newest = NoItem
    /\ verdict = [i \in Items |-> "pass"]
    /\ rows = {} /\ held = [i \in Items |-> NotHeld]
    /\ sasPhase = "idle" /\ sasPeer = NoPeer /\ localOk = {} /\ peerOk = {}
    /\ emitted = {}

-----------------------------------------------------------------------------
(* What the arms of handle are built from. *)

\* cap_history_keeping_favorites: past the cap the oldest rows that are not
\* favorites go, never the row just inserted.
Capped(h, new) ==
    LET plain == {r \in h : ~r.fav}
        kept == IF Cardinality(plain) < HistoryCap THEN Cardinality(plain) ELSE HistoryCap
    IN IF Cardinality(h) <= HistoryCap THEN {h}
       ELSE {h \ gone : gone \in {g \in SUBSET (plain \ {new}) :
                                    Cardinality(plain \ g) = kept}}

\* push_history: a repeat moves to the top and keeps its pin.
PushHistory(i, from) ==
    LET fav == \E r \in history : r.item = i /\ r.fav
        new == [item |-> i, from |-> from, fav |-> fav]
    IN history' \in Capped({r \in history : r.item # i} \cup {new}, new)

\* DedupRing::observe_clipboard and contains: content that is the newest, or
\* was seen within the echo window (recent), is an echo.  A resync delivery of
\* anything in the ring is a duplicate.
Suppressed(i, recent, resync) == i \in ring /\ (i = newest \/ recent \/ resync)
ObserveClipboard(i) == ring' = ring \cup {i} /\ newest' = i

\* drop_pending_all
DropPendingAll == rows' = {} /\ held' = [i \in Items |-> NotHeld]

\* An outbound item belongs to no peer.
ParkedBy(p) == {i \in Items : held[i].dir = "inbound" /\ held[i].from = p}

\* Variant: the payloads go, the rows shown to the user stay.
DropPendingForKeepRows(p) ==
    /\ held' = [i \in Items |-> IF i \in ParkedBy(p) THEN NotHeld ELSE held[i]]
    /\ rows' = rows

\* drop_pending_for: only what waits on this peer goes.
DropPendingFor(p) ==
    /\ held' = [i \in Items |-> IF i \in ParkedBy(p) THEN NotHeld ELSE held[i]]
    /\ rows' = {r \in rows : r.item \notin ParkedBy(p)}

\* park_pending: the first item parked under a hash is the one that stays.
ParkPending(i, dir, from) ==
    IF held[i] # NotHeld THEN UNCHANGED parkVars
    ELSE /\ held' = [held EXCEPT ![i] = [dir |-> dir, from |-> from]]
         /\ rows' = rows \cup {[item |-> i, dir |-> dir, from |-> from]}

\* apply_firewall, on the parking side, whatever the phase.
ApplyFirewall(i, dir, from) ==
    IF verdict[i] = "defer" THEN ParkPending(i, dir, from) ELSE UNCHANGED parkVars

\* apply_firewall, on the sync action: only a live link has one, and only a
\* pass keeps it.
Syncs(i) == phase = "linked" /\ verdict[i] = "pass"

ForgetPeer == named' = FALSE /\ peerId' = NoPeer
ResetSas == sasPhase' = "idle" /\ sasPeer' = NoPeer /\ UNCHANGED <<localOk, peerOk>>

\* is_peer_mismatch
IsPeerMismatch(p) == named /\ peerId # p /\ phase \notin {"idle", "discovering"}

-----------------------------------------------------------------------------
(* The link. *)

ToggleOn ==
    /\ on' = TRUE
    /\ IF phase = "idle"
       THEN phase' = "discovering" /\ Emit({"StartDiscovery"})
       ELSE phase' = phase /\ Emit({})
    /\ UNCHANGED <<named, peerId, lastPaired, clipVars, sasVars>>

ToggleOff ==
    /\ on' = FALSE /\ phase' = "idle"
    /\ Emit({"CloseSession", "StopDiscovery"})
    /\ UNCHANGED <<named, peerId, lastPaired, clipVars, sasVars>>

\* Variant: the swap is looked for in the id an unpair has already zeroed.
IsSwapCurrent(p) == peerId # NoPeer /\ p # peerId

\* A swap: another device than the last one paired takes the primary slot.
IsSwap(p) == lastPaired # NoPeer /\ p # lastPaired

\* A device that is not the one being linked is turned away.
PeerSeenIgnored(p) ==
    /\ IsPeerMismatch(p)
    /\ Emit({})
    /\ UNCHANGED <<linkVars, clipVars, sasVars>>

PeerSeenPhase ==
    phase' = IF phase = "discovering" THEN "handshaking" ELSE phase

\* PeerSeen of a device that replaces the last one paired, with no other
\* device linked: nothing of the old one may survive.
SwapAlone(p) ==
    /\ ~IsPeerMismatch(p) /\ IsSwap(p) /\ wipeGen < MaxWipes
    /\ named' = TRUE /\ peerId' = p /\ lastPaired' = p
    /\ history' = {} /\ wipeGen' = wipeGen + 1 /\ delivered' = delivered
    /\ DropPendingAll
    /\ PeerSeenPhase /\ Emit(IF phase = "discovering" THEN {"SendHandshake"} ELSE {})
    /\ UNCHANGED <<on, ringVars, verdict, sasVars>>

\* The same with another device linked (other_peers_linked): only what waits
\* on the replaced device goes.
SwapAmongOthers(p) ==
    /\ Mesh
    /\ ~IsPeerMismatch(p) /\ IsSwap(p)
    /\ named' = TRUE /\ peerId' = p /\ lastPaired' = p
    /\ DropPendingFor(lastPaired)
    /\ PeerSeenPhase
    /\ Emit((IF phase = "discovering" THEN {"SendHandshake"} ELSE {})
            \cup (IF ParkedBy(lastPaired) # {} THEN {"PendingDropped"} ELSE {}))
    /\ UNCHANGED <<on, histVars, ringVars, verdict, sasVars>>

\* PeerSeen of the device last paired, or of the first one ever.
PeerSeen(p) ==
    /\ ~IsPeerMismatch(p) /\ ~IsSwap(p)
    /\ named' = TRUE /\ peerId' = p /\ lastPaired' = p
    /\ PeerSeenPhase /\ Emit(IF phase = "discovering" THEN {"SendHandshake"} ELSE {})
    /\ UNCHANGED <<on, clipVars, sasVars>>

HandshakeOk ==
    /\ IF phase = "handshaking"
       THEN phase' = "linked" /\ Emit({"OpenSession", "BurstReplay"})
       ELSE phase' = phase /\ Emit({})
    /\ UNCHANGED <<on, named, peerId, lastPaired, clipVars, sasVars>>

HandshakeTimeout ==
    /\ IF phase = "handshaking"
       THEN phase' = "discovering" /\ Emit({"StartDiscovery"})
       ELSE phase' = phase /\ Emit({})
    /\ UNCHANGED <<on, named, peerId, lastPaired, clipVars, sasVars>>

\* The phase does not look at which peer was lost; the SAS words do, and keep
\* a verdict already reached.
PeerLost(p) ==
    /\ phase' = IF phase \in {"handshaking", "linked"} THEN "discovering" ELSE phase
    /\ Emit(IF phase = "linked" THEN {"CloseSession", "StartDiscovery"}
            ELSE IF phase = "handshaking" THEN {"StartDiscovery"} ELSE {})
    /\ IF sasPeer = p /\ sasPhase \in {"showing", "peer_confirmed", "local_confirmed"}
       THEN ResetSas ELSE UNCHANGED sasVars
    /\ UNCHANGED <<on, named, peerId, lastPaired, clipVars>>

\* The daemon promoted a live secondary into the primary slot.  Its name is
\* empty when its Hello has not arrived yet.
PrimaryFailover(p, hasName) ==
    /\ Mesh
    /\ named' = hasName /\ peerId' = p /\ lastPaired' = p
    /\ Emit({})
    /\ UNCHANGED <<phase, on, clipVars, sasVars>>

UntrustedPeerSeen ==
    /\ wipeGen < MaxWipes
    /\ phase' = "discovering" /\ ForgetPeer
    /\ history' = {} /\ wipeGen' = wipeGen + 1
    /\ DropPendingAll /\ ResetSas
    /\ Emit({"DropPeer", "StartDiscovery"})
    /\ UNCHANGED <<on, lastPaired, delivered, ringVars, verdict>>

\* Ten minutes without the peer.  A live link ignores it.
GhostTimeout ==
    /\ IF phase = "linked"
       THEN Emit({}) /\ UNCHANGED <<named, peerId, phase, parkVars, sasVars>>
       ELSE /\ ForgetPeer /\ DropPendingFor(peerId) /\ ResetSas
            /\ phase' = IF phase = "idle" THEN "idle" ELSE "discovering"
            /\ Emit((IF phase = "idle" THEN {} ELSE {"DropPeer", "StartDiscovery"})
                    \cup (IF ParkedBy(peerId) # {} THEN {"PendingDropped"} ELSE {}))
    /\ UNCHANGED <<on, lastPaired, histVars, ringVars, verdict>>

ManualUnpair ==
    /\ on' = FALSE /\ phase' = "idle" /\ ForgetPeer
    /\ DropPendingAll /\ ResetSas
    /\ Emit({"CloseSession", "StopDiscovery", "DropPeer"})
    /\ UNCHANGED <<lastPaired, histVars, ringVars, verdict>>

\* One device was revoked for good.  The link itself ends with the PeerLost
\* or PrimaryFailover that follows.
PeerRevoked(p) ==
    /\ DropPendingFor(p)
    /\ IF p = peerId THEN ForgetPeer ELSE UNCHANGED <<named, peerId>>
    /\ Emit(IF ParkedBy(p) # {} THEN {"PendingDropped"} ELSE {})
    /\ UNCHANGED <<phase, on, lastPaired, histVars, ringVars, verdict, sasVars>>

NetworkChanged ==
    /\ phase' = IF phase = "handshaking" THEN "discovering" ELSE phase
    /\ Emit(IF phase = "discovering" THEN {"StopDiscovery", "StartDiscovery"}
            ELSE IF phase = "handshaking" THEN {"StartDiscovery"} ELSE {})
    /\ UNCHANGED <<on, named, peerId, lastPaired, clipVars, sasVars>>

Reconnect ==
    /\ Emit(IF phase = "linked" THEN {"BurstReplay"}
            ELSE IF phase = "discovering" THEN {"StartDiscovery"} ELSE {})
    /\ UNCHANGED <<linkVars, clipVars, sasVars>>

-----------------------------------------------------------------------------
(* The clipboard. *)

\* The user copies an item.  A local copy enters the history whatever the
\* firewall says of sending it.
LocalClipboardChange(i, recent) ==
    IF Suppressed(i, recent, FALSE)
    THEN Emit({"DuplicateDropped"}) /\ UNCHANGED <<linkVars, clipVars, sasVars>>
    ELSE /\ ObserveClipboard(i)
         /\ IF i \in Sensitive THEN history' = history ELSE PushHistory(i, NoPeer)
         /\ ApplyFirewall(i, "outbound", NoPeer)
         /\ emitted' = IF Syncs(i) THEN {ItemAct("SendItem", i)} ELSE {}
         /\ UNCHANGED <<linkVars, delivered, wipeGen, verdict, sasVars>>

\* A received item enters the history only when the firewall admits it.
PushReceived(i, p) ==
    IF i \in Sensitive \/ verdict[i] # "pass" THEN history' = history
    ELSE PushHistory(i, p)

\* A peer's item arrives.  Without other links the only session, and so the
\* only sender, is the device last paired.  It is acknowledged in every case,
\* applied only on a live link, and never when it answers our ResyncPull.
FrameReceivedClipboard(i, p, recent, resync) ==
    /\ Mesh \/ p = lastPaired
    /\ IF Suppressed(i, recent, resync)
       THEN /\ emitted' = {Act("DuplicateDropped"), ItemAct("AckItem", i)}
            /\ UNCHANGED <<histVars, ringVars, parkVars>>
       ELSE /\ ObserveClipboard(i)
            /\ PushReceived(i, p)
            /\ ApplyFirewall(i, "inbound", p)
            /\ emitted' = {ItemAct("AckItem", i)}
                 \cup (IF ~Syncs(i) THEN {}
                       ELSE IF resync THEN {Act("ResyncApplySuppressed")}
                       ELSE {ItemAct("WriteClipboard", i)})
            /\ UNCHANGED <<delivered, wipeGen>>
    /\ UNCHANGED <<linkVars, verdict, sasVars>>

\* The user decides on a parked item; the phase plays no part.
ResolvePending(i, allow) ==
    /\ rows' = {r \in rows : r.item # i}
    /\ held' = [held EXCEPT ![i] = NotHeld]
    /\ emitted' = IF held[i] = NotHeld \/ ~allow THEN {}
                  ELSE IF held[i].dir = "outbound" THEN {ItemAct("SendItem", i)}
                  ELSE {ItemAct("WriteClipboard", i)}
    /\ UNCHANGED <<linkVars, histVars, ringVars, verdict, sasVars>>

SetFirewall(v) ==
    /\ verdict' = v /\ Emit({})
    /\ UNCHANGED <<linkVars, histVars, ringVars, parkVars, sasVars>>

SetFavorite(i, fav) ==
    /\ history' = {IF r.item = i THEN [r EXCEPT !.fav = fav] ELSE r : r \in history}
    /\ Emit({})
    /\ UNCHANGED <<linkVars, delivered, wipeGen, ringVars, parkVars, verdict, sasVars>>

ClearHistory(includeFavorites) ==
    /\ wipeGen < MaxWipes
    /\ history' = IF includeFavorites THEN {} ELSE {r \in history : r.fav}
    /\ wipeGen' = wipeGen + 1 /\ Emit({})
    /\ UNCHANGED <<linkVars, delivered, ringVars, parkVars, verdict, sasVars>>

\* Variant: age takes pinned rows too.
ExpireHistoryAll ==
    /\ \E old \in SUBSET history : history' = history \ old
    /\ Emit({})
    /\ UNCHANGED <<linkVars, delivered, wipeGen, ringVars, parkVars, verdict, sasVars>>

\* expire_history, on its timer or after set_history_retention: any rows that
\* are not favorites may be old enough.
ExpireHistory ==
    /\ \E old \in SUBSET {r \in history : ~r.fav} : history' = history \ old
    /\ Emit({})
    /\ UNCHANGED <<linkVars, delivered, wipeGen, ringVars, parkVars, verdict, sasVars>>

\* mark_delivered
MarkDelivered(i, p) ==
    /\ \E r \in history : r.item = i
    /\ delivered' = {d \in delivered : \E r \in history : r.item = d.item}
                    \cup {[item |-> i, to |-> p]}
    /\ Emit({})
    /\ UNCHANGED <<linkVars, history, wipeGen, ringVars, parkVars, verdict, sasVars>>

-----------------------------------------------------------------------------
(* The verification of a pairing with SAS words. *)

SasPairingStarted(p) ==
    /\ sasPhase' = "showing" /\ sasPeer' = p
    /\ localOk' = localOk \ {p} /\ peerOk' = peerOk \ {p}
    /\ Emit({})
    /\ UNCHANGED <<linkVars, clipVars>>

\* Variant: a confirmation is taken for whichever pairing is shown.
SasLocalConfirmedAnyPeer(p) ==
    /\ localOk' = localOk \cup {p}
    /\ sasPhase' = IF sasPeer = NoPeer THEN sasPhase
                   ELSE IF sasPhase \in {"peer_confirmed", "confirmed"} THEN "confirmed"
                   ELSE "local_confirmed"
    /\ Emit({})
    /\ UNCHANGED <<linkVars, clipVars, sasPeer, peerOk>>

SasLocalConfirmed(p) ==
    /\ localOk' = localOk \cup {p}
    /\ sasPhase' = IF sasPeer # p THEN sasPhase
                   ELSE IF sasPhase \in {"peer_confirmed", "confirmed"} THEN "confirmed"
                   ELSE "local_confirmed"
    /\ Emit({})
    /\ UNCHANGED <<linkVars, clipVars, sasPeer, peerOk>>

SasPeerConfirmed(p) ==
    /\ peerOk' = peerOk \cup {p}
    /\ sasPhase' = IF sasPeer # p THEN sasPhase
                   ELSE IF sasPhase \in {"local_confirmed", "confirmed"} THEN "confirmed"
                   ELSE "peer_confirmed"
    /\ Emit({})
    /\ UNCHANGED <<linkVars, clipVars, sasPeer, localOk>>

SasPeerRejected(p) ==
    /\ sasPhase' = IF sasPeer = p THEN "peer_rejected" ELSE sasPhase
    /\ Emit({})
    /\ UNCHANGED <<linkVars, clipVars, sasPeer, localOk, peerOk>>

SasReset ==
    /\ ResetSas /\ Emit({})
    /\ UNCHANGED <<linkVars, clipVars>>

-----------------------------------------------------------------------------

LinkNext ==
    \/ ToggleOn \/ ToggleOff \/ HandshakeOk \/ HandshakeTimeout
    \/ UntrustedPeerSeen \/ GhostTimeout \/ ManualUnpair
    \/ NetworkChanged \/ Reconnect
    \/ \E p \in Peers :
         \/ PeerSeenIgnored(p) \/ PeerSeen(p) \/ SwapAlone(p) \/ SwapAmongOthers(p)
         \/ PeerLost(p) \/ PeerRevoked(p)
         \/ \E hasName \in BOOLEAN : PrimaryFailover(p, hasName)

ClipNext ==
    \/ ExpireHistory
    \/ \E all \in BOOLEAN : ClearHistory(all)
    \/ \E v \in [Items -> Rulings] : SetFirewall(v)
    \/ \E i \in Items :
         \/ \E b \in BOOLEAN :
              LocalClipboardChange(i, b) \/ ResolvePending(i, b) \/ SetFavorite(i, b)
         \/ \E p \in Peers, recent, resync \in BOOLEAN :
              FrameReceivedClipboard(i, p, recent, resync)
         \/ \E p \in Ackers : MarkDelivered(i, p)

SasNext ==
    \/ SasReset
    \/ \E p \in SasPeers :
         \/ SasPairingStarted(p) \/ SasLocalConfirmed(p)
         \/ SasPeerConfirmed(p) \/ SasPeerRejected(p)

Next == LinkNext \/ ClipNext \/ SasNext

Spec == Init /\ [][Next]_vars

-----------------------------------------------------------------------------

\* Every variable stays within its type.
TypeOK ==
    /\ phase \in Phases /\ on \in BOOLEAN /\ named \in BOOLEAN
    /\ peerId \in PeerIds /\ lastPaired \in PeerIds
    /\ history \subseteq [item : Items, from : PeerIds, fav : BOOLEAN]
    /\ delivered \subseteq [item : Items, to : Peers]
    /\ wipeGen \in Nat
    /\ ring \subseteq Items /\ newest \in Items \cup {NoItem}
    /\ verdict \in [Items -> Decisions]
    /\ rows \subseteq [item : Items, dir : Directions, from : PeerIds]
    /\ held \in [Items -> Held \cup {NotHeld}]
    /\ sasPhase \in SasPhases /\ sasPeer \in PeerIds
    /\ localOk \subseteq Peers /\ peerOk \subseteq Peers
    /\ emitted \subseteq [act : ActNames, item : Items \cup {NoItem}]

\* The rows the user is asked about and the payloads kept for them are the
\* same items, with the same direction and sender: no row is left that
\* nothing can resolve, no secret is kept that no row shows.
PendingAgree ==
    rows = {[item |-> i, dir |-> held[i].dir, from |-> held[i].from] :
              i \in {j \in Items : held[j] # NotHeld}}

\* "confirmed" is shown for a pairing only after both sides confirmed that
\* very pairing, whatever other pairings did in between.
ConfirmedByBoth ==
    sasPhase = "confirmed" => sasPeer \in localOk \cap peerOk

\* With one device at a time, every received item in the history came from
\* the device last paired, across unpairing, ghost timeouts and re-pairing.
HistoryIsolated ==
    ~Mesh => \A r \in history : r.from \in {NoPeer, lastPaired}

\* A pinned row only leaves the history with a wipe, which moves the
\* generation the vault follows; otherwise the vault would bring it back.
PinnedRowsStay ==
    [][\A r \in history : r.fav =>
         \/ \E s \in history' : s.item = r.item
         \/ wipeGen' = wipeGen + 1]_vars
=============================================================================
