------------------------------- MODULE Resync -------------------------------
(***************************************************************************)
(* Catch-up after a reconnect, seen from one device: a peer offers the     *)
(* hashes of its outbox, the device pulls what it does not have, the peer  *)
(* serves it as ordinary items (driver/resync.rs, inbound.rs ResyncOffer,  *)
(* ResyncPull, item arms; outbox.rs; commands.rs ClearHistory,             *)
(* ResolvePending; shared.rs tombstone and pending pulls).                 *)
(*                                                                         *)
(* The receive loop and the driver loop are two tasks: an offer is worked  *)
(* through lock by lock while ClearHistory runs, and an item is decided    *)
(* upon when received and again when the core takes it from the queue.     *)
(***************************************************************************)
EXTENDS Naturals, Sequences, FiniteSets, SequencesExt

CONSTANTS
    Offerers,       \* the peers
    Copies,         \* items copied somewhere: an event id each
    CopiedBy,       \* the peer that sends a copy
    ContentOf,      \* its hash
    MaxOutbox,      \* MAX_ITEMS
    MaxQueue,       \* EVENT_CHANNEL_CAP
    MaxHellos,      \* bound on the sessions established
    MaxUpkeep       \* bound on clears, wipes, expiries, policy changes

Contents == {ContentOf[c] : c \in Copies}
Policies == {"pass", "ask", "block"}

ASSUME ResyncAssumption ==
    /\ CopiedBy \in [Copies -> Offerers] /\ DOMAIN ContentOf = Copies
    /\ {MaxOutbox, MaxQueue, MaxHellos, MaxUpkeep} \subseteq Nat

VARIABLES
    box,          \* the copies in each peer's outbox
    fresh,        \* the copies not made yet
    mail,         \* messages under way
    history,      \* contents of the published history
    outbox,       \* contents of the own outbox, oldest first
    stage,        \* outbox_stage: contents held for the user's decision
    parked,       \* contents in the core's pending list
    ring,         \* contents the core's dedup ring holds
    knownIds,     \* mesh_seen
    cleared,      \* cleared_tombstone
    pulls,        \* pending_pulls: <<peer, content>>
    queue,        \* items on their way to the core
    policy,       \* the firewall's decision for what arrives
    offer,        \* the ResyncOffer the receive loop is working on: its step, what is
                  \* still wanted; history: what clears had removed at the tombstone's read
    clearing,     \* the step ClearHistory is at, and what it clears
    hellos, upkeep,
    forgotten,    \* history: contents a finished ClearHistory removed
    writes        \* history: copies written to the clipboard, with how they came

stores == <<history, outbox, stage, parked, ring, knownIds, cleared, pulls>>
notes == <<forgotten, writes>>
resyncVars == <<box, fresh, mail, stores, queue, policy, offer, clearing, hellos, upkeep, notes>>

NoOffer == [at |-> "none", from |-> CHOOSE p \in Offerers : TRUE, want |-> {}, gone |-> {}]
NotClearing == [at |-> "none", what |-> {}]
ItemMail(c, pulled) == [kind |-> "item", peer |-> CopiedBy[c], copy |-> c, pulled |-> pulled]
OfferMail(p) == [kind |-> "offer", peer |-> p, hashes |-> {ContentOf[c] : c \in box[p]}]
PullMail(p, hs) == [kind |-> "pull", peer |-> p, hashes |-> hs]

ResyncInit ==
    /\ box = [p \in Offerers |-> {}] /\ fresh = Copies /\ mail = {}
    /\ history = {} /\ outbox = <<>> /\ stage = {} /\ parked = {} /\ ring = {}
    /\ knownIds = {} /\ cleared = {} /\ pulls = {} /\ queue = <<>>
    /\ policy = "pass" /\ offer = NoOffer /\ clearing = NotClearing
    /\ hellos = MaxHellos /\ upkeep = MaxUpkeep
    /\ forgotten = {} /\ writes = {}

DriverFree == clearing.at = "none"
RecvFree == offer.at = "none"
Upkeep == upkeep > 0 /\ upkeep' = upkeep - 1

\* Outbox::insert: a hash moves to the newest place, the oldest goes over the cap.
Insert(h) ==
    LET moved == Append(SelectSeq(outbox, LAMBDA x : x # h), h)
    IN  IF Len(moved) > MaxOutbox THEN Tail(moved) ELSE moved

-----------------------------------------------------------------------------

\* A peer copies c: into its outbox, and to this device if the link carries it.
PeerCopies(c) ==
    /\ c \in fresh
    /\ fresh' = fresh \ {c}
    /\ box' = [box EXCEPT ![CopiedBy[c]] = {d \in @ : ContentOf[d] # ContentOf[c]} \cup {c}]
    /\ mail' \in {mail, mail \cup {ItemMail(c, FALSE)}}
    /\ UNCHANGED <<stores, queue, policy, offer, clearing, hellos, upkeep, notes>>

\* The Hello of a new session: the peer offers its outbox.
HelloOffers(p) ==
    /\ hellos > 0 /\ box[p] # {}
    /\ hellos' = hellos - 1
    /\ mail' = mail \cup {OfferMail(p)}
    /\ UNCHANGED <<box, fresh, stores, queue, policy, offer, clearing, upkeep, notes>>

\* ResyncOffer, read by read: the published history, the outbox, ...
OfferHistory(m) ==
    /\ RecvFree /\ m \in mail /\ m.kind = "offer"
    /\ mail' = mail \ {m}
    /\ offer' = [at |-> "outbox", from |-> m.peer, want |-> m.hashes \ history, gone |-> {}]
    /\ UNCHANGED <<box, fresh, stores, queue, policy, clearing, hellos, upkeep, notes>>

OfferOutbox ==
    /\ offer.at = "outbox"
    /\ offer' = [offer EXCEPT !.at = "tomb", !.want = @ \ ToSet(outbox)]
    /\ UNCHANGED <<box, fresh, mail, stores, queue, policy, clearing, hellos, upkeep, notes>>

\* ... what the user cleared, ...
OfferTomb ==
    /\ offer.at = "tomb"
    /\ offer' = [offer EXCEPT !.at = "inflight", !.want = @ \ cleared, !.gone = forgotten]
    /\ UNCHANGED <<box, fresh, mail, stores, queue, policy, clearing, hellos, upkeep, notes>>

\* Variant: only what the offering peer itself was asked for.
InFlightHere == {pl[2] : pl \in {ql \in pulls : ql[1] = offer.from}}

\* ... and what is already being pulled from anyone.
InFlight == {pl[2] : pl \in pulls}

OfferInFlight ==
    /\ offer.at = "inflight"
    /\ offer' = [offer EXCEPT !.at = "track", !.want = @ \ InFlight]
    /\ UNCHANGED <<box, fresh, mail, stores, queue, policy, clearing, hellos, upkeep, notes>>

\* The rest is tracked, ...
OfferTrack ==
    /\ offer.at = "track"
    /\ pulls' = pulls \cup ({offer.from} \X offer.want)
    /\ offer' = IF offer.want = {} THEN NoOffer ELSE [offer EXCEPT !.at = "send"]
    /\ UNCHANGED <<box, fresh, mail, history, outbox, stage, parked, ring, knownIds, cleared, queue,
                   policy, clearing, hellos, upkeep, notes>>

\* ... and asked for; a failed send is not noticed.
OfferSend ==
    /\ offer.at = "send"
    /\ offer' = NoOffer
    /\ mail' \in {mail, mail \cup {PullMail(offer.from, offer.want)}}
    /\ UNCHANGED <<box, fresh, stores, queue, policy, clearing, hellos, upkeep, notes>>

\* The peer serves what its outbox still has, under the original event id.
ServePull(m) ==
    /\ m \in mail /\ m.kind = "pull"
    /\ mail' = (mail \ {m}) \cup
           {ItemMail(c, TRUE) : c \in {d \in box[m.peer] : ContentOf[d] \in m.hashes}}
    /\ UNCHANGED <<box, fresh, stores, queue, policy, offer, clearing, hellos, upkeep, notes>>

\* take_pending_pull.
Asked(p, h) == <<p, h>> \in pulls

\* An item arrives: first sight, outbox or stage by the policy of this moment, the
\* pending pull is used up, the core's queue takes it unless it is full.
ItemArrives(m) ==
    LET c == m.copy
        h == ContentOf[c]
    IN  /\ RecvFree /\ m \in mail /\ m.kind = "item"
        /\ mail' = mail \ {m}
        /\ IF c \in knownIds THEN UNCHANGED <<outbox, stage, knownIds, pulls, queue>>
           ELSE /\ knownIds' = knownIds \cup {c}
                /\ outbox' = IF policy = "pass" THEN Insert(h) ELSE outbox
                /\ stage' = IF policy = "ask" THEN stage \cup {h} ELSE stage
                /\ pulls' = pulls \ {<<m.peer, h>>}
                /\ queue' = IF Len(queue) = MaxQueue THEN queue
                            ELSE Append(queue, [copy |-> c, resync |-> Asked(m.peer, h),
                                                pulled |-> m.pulled])
        /\ UNCHANGED <<box, fresh, history, parked, ring, cleared, policy, offer, clearing,
                       hellos, upkeep, notes>>

\* FrameReceivedClipboard: catch-up content already held goes no further, the rest
\* by the policy of now; a catch-up item is not written to the clipboard.
CoreTakes ==
    LET it == Head(queue)
        h == ContentOf[it.copy]
        passes == policy = "pass"
    IN  /\ queue # <<>> /\ DriverFree
        /\ queue' = Tail(queue)
        /\ \/ h \in ring /\ UNCHANGED <<history, ring, parked, notes>>
           \/ /\ ~(it.resync /\ h \in ring)
              /\ ring' = ring \cup {h}
              /\ history' = IF passes THEN history \cup {h} ELSE history
              /\ parked' = IF policy = "ask" THEN parked \cup {h} ELSE parked
              /\ writes' = IF passes /\ ~it.resync THEN writes \cup {[copy |-> it.copy, pulled |-> it.pulled]}
                           ELSE writes
              /\ forgotten' = IF passes THEN forgotten \ {h} ELSE forgotten
        /\ UNCHANGED <<box, fresh, mail, outbox, stage, knownIds, cleared, pulls, policy, offer,
                       clearing, hellos, upkeep>>

\* ResolvePending: the staged copy enters the outbox only if the core wrote the item.
ResolveParked(h, allow) ==
    /\ DriverFree /\ h \in parked
    /\ parked' = parked \ {h} /\ stage' = stage \ {h}
    /\ outbox' = IF allow /\ h \in stage THEN Insert(h) ELSE outbox
    /\ UNCHANGED <<box, fresh, mail, history, ring, knownIds, cleared, pulls, queue, policy,
                   offer, clearing, hellos, upkeep, notes>>

\* ClearHistory: the outbox first, then the tombstone, then the history.
ClearOutbox ==
    /\ DriverFree /\ Upkeep /\ history # {}
    /\ clearing' = [at |-> "tomb", what |-> history]
    /\ outbox' = SelectSeq(outbox, LAMBDA h : h \notin history)
    /\ UNCHANGED <<box, fresh, mail, history, stage, parked, ring, knownIds, cleared, pulls,
                   queue, policy, offer, hellos, notes>>

\* Variant: nothing is remembered of what was cleared.
ClearTombstoneForgotten ==
    /\ clearing.at = "tomb"
    /\ clearing' = [clearing EXCEPT !.at = "history"]
    /\ UNCHANGED <<box, fresh, mail, history, outbox, stage, parked, ring, knownIds, cleared,
                   pulls, queue, policy, offer, hellos, upkeep, notes>>

ClearTombstone ==
    /\ clearing.at = "tomb"
    /\ clearing' = [clearing EXCEPT !.at = "history"]
    /\ cleared' = cleared \cup clearing.what
    /\ UNCHANGED <<box, fresh, mail, history, outbox, stage, parked, ring, knownIds, pulls,
                   queue, policy, offer, hellos, upkeep, notes>>

ClearRows ==
    /\ clearing.at = "history"
    /\ clearing' = NotClearing
    /\ history' = history \ clearing.what
    /\ forgotten' = forgotten \cup clearing.what
    /\ UNCHANGED <<box, fresh, mail, outbox, stage, parked, ring, knownIds, cleared, pulls,
                   queue, policy, offer, hellos, upkeep, writes>>

\* SetFirewall publishes the new policy to both loops.
ChangePolicy(p) ==
    /\ DriverFree /\ Upkeep /\ policy # p
    /\ policy' = p
    /\ UNCHANGED <<box, fresh, mail, stores, queue, offer, clearing, hellos, notes>>

\* Retention and the history's cap drop rows, the outbox's age its entries; other
\* content pushes a hash out of the dedup ring.
Expire(h) ==
    /\ DriverFree /\ Upkeep
    /\ history' = history \ {h} /\ ring' = ring \ {h}
    /\ outbox' = SelectSeq(outbox, LAMBDA x : x # h)
    /\ UNCHANGED <<box, fresh, mail, stage, parked, knownIds, cleared, pulls, queue, policy,
                   offer, clearing, hellos, notes>>

\* RESYNC_PULL_TIMEOUT: a pull nobody serves is given up.  A round trip is taken to
\* be shorter, so nothing asked for is still under way, or tracked and not yet sent.
PullTimesOut(p, h) ==
    /\ Asked(p, h)
    /\ ~(offer.at = "send" /\ offer.from = p /\ h \in offer.want)
    /\ \A m \in mail : m.peer = p =>
          CASE m.kind = "pull" -> h \notin m.hashes
            [] m.kind = "item" -> ContentOf[m.copy] # h
            [] m.kind = "offer" -> TRUE
    /\ pulls' = pulls \ {<<p, h>>}
    /\ UNCHANGED <<box, fresh, mail, history, outbox, stage, parked, ring, knownIds, cleared,
                   queue, policy, offer, clearing, hellos, upkeep, notes>>

\* sync_security_wipe_if_needed, and the pending items dropped with it.
Wipe ==
    /\ DriverFree /\ Upkeep
    /\ history' = {} /\ outbox' = <<>> /\ stage' = {} /\ parked' = {}
    /\ UNCHANGED <<box, fresh, mail, ring, knownIds, cleared, pulls, queue, policy, offer,
                   clearing, hellos, notes>>

ResyncNext ==
    \/ \E c \in Copies : PeerCopies(c)
    \/ \E p \in Offerers : HelloOffers(p) \/ \E h \in Contents : PullTimesOut(p, h)
    \/ \E m \in mail : OfferHistory(m) \/ ServePull(m) \/ ItemArrives(m)
    \/ OfferOutbox \/ OfferTomb \/ OfferInFlight \/ OfferTrack \/ OfferSend \/ CoreTakes
    \/ \E h \in Contents : Expire(h) \/ \E allow \in BOOLEAN : ResolveParked(h, allow)
    \/ ClearOutbox \/ ClearTombstone \/ ClearRows \/ Wipe
    \/ \E p \in Policies : ChangePolicy(p)

ResyncSpec == ResyncInit /\ [][ResyncNext]_resyncVars

-----------------------------------------------------------------------------

\* What a clear had removed when an offer's tombstone read came is not pulled back
\* from a peer that still has it in its outbox, however the offer's other reads and
\* the clear's writes interleave.  A clear that comes after that read is not seen:
\* what it removes may be asked for.
ClearedStaysCleared == [][\A pl \in pulls' \ pulls : pl[2] \notin offer.gone]_resyncVars

\* Two peers that offer the same content are not both asked for it, and what was
\* pulled to catch up does not replace what is on the clipboard, unless the same
\* peer copied that content anew meanwhile.
CatchUpIsQuiet ==
    /\ \A pl, ql \in pulls : pl[2] = ql[2] => pl = ql
    /\ \A w \in writes : w.pulled =>
          \E d \in (Copies \ fresh) \ {w.copy} :
              ContentOf[d] = ContentOf[w.copy] /\ CopiedBy[d] = CopiedBy[w.copy]
=============================================================================
