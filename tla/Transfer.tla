------------------------------ MODULE Transfer ------------------------------
(***************************************************************************)
(* One hop of an item too large for a datagram: a header and its chunks    *)
(* are sent over UDP, put together per sender, asked for again chunk by    *)
(* chunk (NAK), sent again as a whole, acknowledged when complete          *)
(* (frames.rs build_item_frames, inbound.rs header, Chunk and Nak arms).   *)
(*                                                                         *)
(* The hash of an image is taken over its pixels, so two encodings of one  *)
(* image are different bytes under the same hash: Versions.                *)
(***************************************************************************)
EXTENDS Naturals, Sequences, FiniteSets, SequencesExt

CONSTANTS
    Senders,       \* the peers that send the item to this device
    Versions,      \* the encodings of the item, as positive numbers
    Sendings,      \* what the peers may send: for each of them, the encodings
    Total,         \* for each encoding, its number of chunks
    MaxTries,      \* MAX_RETRANSMIT
    MaxRounds,     \* the NAKs answered within INFLIGHT_MAX_AGE
    MaxPartials,   \* concurrent reassemblies (5 in the code)
    NakLimit,      \* NAK_MISSING_PER_FRAME
    WireLosses     \* bound on the datagrams lost

ASSUME TransferAssumption ==
    /\ Versions \subseteq Nat \ {0} /\ Total \in [Versions -> Nat \ {0}]
    /\ Sendings \subseteq [Senders -> SUBSET Versions]
    /\ {MaxTries, MaxRounds, WireLosses} \subseteq Nat /\ {MaxPartials, NakLimit} \subseteq Nat \ {0}

VARIABLES
    unsent,     \* for each sender, the encodings still to send
    started,    \* the senders that began
    wire,       \* datagrams on the way, in both directions
    outgoing,   \* inflight of each sender: encoding, owed, tries, rounds
    partial,    \* reassembly: header seen, chunks
    recency,    \* the senders with a reassembly, least recently updated first
    asked,      \* the senders sent a NAK since their last frame
    accepted,   \* the payloads acknowledged: <<sender, bytes>>
    wireLosses,
    mixed       \* history: two encodings of a sender met, or a reassembly was evicted

transferVars ==
    <<unsent, started, wire, outgoing, partial, recency, asked, accepted, wireLosses, mixed>>

NoPartial == [head |-> FALSE, chunks |-> <<>>]
NotOwed == [ver |-> 0, owed |-> FALSE, tries |-> 0, rounds |-> 0]

Head_(s) == [from |-> s, kind |-> "head", ver |-> 0, idx |-> 0]
Chunk(s, v, i) == [from |-> s, kind |-> "chunk", ver |-> v, idx |-> i]
Nak(s, head, missing) == [to |-> s, kind |-> "nak", head |-> head, missing |-> missing]
AckOf(s) == [to |-> s, kind |-> "ack"]

FromSender(m) == m.kind \in {"head", "chunk"}
SenderOf(m) == IF FromSender(m) THEN m.from ELSE m.to
Between_(s) == {m \in wire : SenderOf(m) = s}

\* build_item_frames: the header, then one frame per chunk.
Frames(s, v) == {Head_(s)} \cup {Chunk(s, v, i) : i \in 1 .. Total[v]}

TransferInit ==
    /\ unsent \in Sendings /\ wire = {} /\ outgoing = [s \in Senders |-> NotOwed]
    /\ started = {} /\ partial = [s \in Senders |-> NoPartial] /\ recency = <<>> /\ asked = {}
    /\ accepted = {} /\ wireLosses = WireLosses /\ mixed = FALSE

-----------------------------------------------------------------------------

\* SendItem or a relay: the frames go out and are tracked under the hash, in place
\* of those of another encoding.
StartTransfer(s, v) ==
    /\ v \in unsent[s]
    /\ unsent' = [unsent EXCEPT ![s] = @ \ {v}]
    /\ started' = started \cup {s}
    /\ wire' = wire \cup Frames(s, v)
    /\ outgoing' = [outgoing EXCEPT ![s] = [ver |-> v, owed |-> TRUE, tries |-> 0, rounds |-> 0]]
    /\ mixed' = (mixed \/ outgoing[s].owed \/ partial[s] # NoPartial \/ Between_(s) # {})
    /\ UNCHANGED <<partial, recency, asked, accepted, wireLosses>>

\* The slot of s in the map becomes the most recently updated one; a new one
\* evicts the least recently updated when the map is full.
Held(s) == s \in ToSet(recency)
Evicted(s) == IF Held(s) \/ Len(recency) < MaxPartials THEN {} ELSE {Head(recency)}
Touch(s) == Append(SelectSeq(recency, LAMBDA t : t # s /\ t \notin Evicted(s)), s)

Full(p) == p.head /\ p.chunks # <<>> /\ \A i \in DOMAIN p.chunks : p.chunks[i] # 0

\* verify_content_hash: the chunks are those of one encoding.
Verify(bytes) == \E v \in Versions : bytes = [i \in 1 .. Total[v] |-> v]

\* Variant: the acknowledgement goes out before the payload is verified.
AcknowledgesFirst(s, p) == IF Full(p) THEN {AckOf(s)} ELSE {}

\* ack_source, after the verification and whether or not the item was seen before.
Acknowledges(s, p) == IF Full(p) /\ Verify(p.chunks) THEN {AckOf(s)} ELSE {}

\* What a frame makes of its slot, and complete_reassembled_item once it is full.
Receive(m, p) ==
    LET s == m.from
        done == Full(p) /\ Verify(p.chunks)
        cleared == [t \in Senders |-> IF t \in Evicted(s) THEN NoPartial ELSE partial[t]]
    IN  /\ mixed' = (mixed \/ Evicted(s) # {})
        /\ asked' = asked \ ({s} \cup Evicted(s))
        /\ partial' = [cleared EXCEPT ![s] = IF Full(p) THEN NoPartial ELSE p]
        /\ recency' = IF Full(p) THEN Front(Touch(s)) ELSE Touch(s)
        /\ wire' = (wire \ {m}) \cup Acknowledges(s, p)
        /\ accepted' = IF done THEN accepted \cup {<<s, p.chunks>>} ELSE accepted

\* A header: before, between or after its chunks.
RecvHead(m) ==
    /\ m.kind = "head"
    /\ Receive(m, [partial[m.from] EXCEPT !.head = TRUE])
    /\ UNCHANGED <<unsent, started, outgoing, wireLosses>>

\* A chunk: the first one of a slot sizes it, one past its end is ignored.
RecvChunk(m) ==
    LET p == partial[m.from]
        slots == IF p.chunks = <<>> THEN [i \in 1 .. Total[m.ver] |-> 0] ELSE p.chunks
        filled == IF m.idx \in DOMAIN slots THEN [slots EXCEPT ![m.idx] = m.ver] ELSE slots
    IN  /\ m.kind = "chunk"
        /\ Receive(m, [p EXCEPT !.chunks = filled])
        /\ UNCHANGED <<unsent, started, outgoing, wireLosses>>

\* build_pending_naks: what is missing, to the sender of the slot.  The NAKs that
\* are repeated until the next frame count as one.
Missing(s) == {i \in DOMAIN partial[s].chunks : partial[s].chunks[i] = 0}
FirstOf(S) == {i \in S : Cardinality({j \in S : j <= i}) <= NakLimit}

SendNak(s) ==
    /\ Held(s) /\ partial[s].chunks # <<>> /\ s \notin asked
    /\ Missing(s) # {} \/ ~partial[s].head
    /\ Between_(s) = {}
    /\ wire' = wire \cup {Nak(s, ~partial[s].head, FirstOf(Missing(s)))}
    /\ asked' = asked \cup {s}
    /\ UNCHANGED <<unsent, started, outgoing, partial, recency, accepted, wireLosses, mixed>>

\* The Nak arm: only for a peer that still owes the acknowledgement.
Answer(s, m) ==
    LET v == outgoing[s].ver
    IN  IF outgoing[s].owed
        THEN (IF m.head THEN {Head_(s)} ELSE {})
                 \cup {Chunk(s, v, i) : i \in m.missing \cap 1 .. Total[v]}
        ELSE {}

RecvNak(m) ==
    LET s == m.to
    IN  /\ m.kind = "nak"
        /\ wire' = (wire \ {m}) \cup Answer(s, m)
        /\ outgoing' = IF Answer(s, m) = {} \/ outgoing[s].rounds = MaxRounds THEN outgoing
                       ELSE [outgoing EXCEPT ![s].rounds = @ + 1]
        /\ UNCHANGED <<unsent, started, partial, recency, asked, accepted, wireLosses, mixed>>

RecvAckOf(m) ==
    /\ m.kind = "ack"
    /\ wire' = wire \ {m}
    /\ outgoing' = [outgoing EXCEPT ![m.to] = NotOwed]
    /\ UNCHANGED <<unsent, started, partial, recency, asked, accepted, wireLosses, mixed>>

Deliver_(m) == m \in wire /\ (RecvHead(m) \/ RecvChunk(m) \/ RecvNak(m) \/ RecvAckOf(m))

\* Variant: only the header is sent again, to make the receiver ask for the rest.
SendAgainHeader(s) ==
    /\ outgoing[s].owed /\ Between_(s) = {}
    /\ IF outgoing[s].tries < MaxTries /\ outgoing[s].rounds < MaxRounds
       THEN /\ outgoing' = [outgoing EXCEPT ![s].tries = @ + 1]
            /\ wire' = wire \cup {Head_(s)}
       ELSE outgoing' = [outgoing EXCEPT ![s] = NotOwed] /\ UNCHANGED wire
    /\ UNCHANGED <<unsent, started, partial, recency, asked, accepted, wireLosses, mixed>>

\* The retransmit tick, once a round trip is over: everything again, or the end
\* of it.
SendAgain(s) ==
    /\ outgoing[s].owed /\ Between_(s) = {}
    /\ IF outgoing[s].tries < MaxTries /\ outgoing[s].rounds < MaxRounds
       THEN /\ outgoing' = [outgoing EXCEPT ![s].tries = @ + 1]
            /\ wire' = wire \cup Frames(s, outgoing[s].ver)
       ELSE outgoing' = [outgoing EXCEPT ![s] = NotOwed] /\ UNCHANGED wire
    /\ UNCHANGED <<unsent, started, partial, recency, asked, accepted, wireLosses, mixed>>

\* The cleanup tick: no frame for five seconds, several NAKs after the last one.
CleanUp(s) ==
    /\ Held(s) /\ Between_(s) = {} /\ (partial[s].chunks = <<>> \/ s \in asked)
    /\ partial' = [partial EXCEPT ![s] = NoPartial]
    /\ recency' = SelectSeq(recency, LAMBDA t : t # s)
    /\ asked' = asked \ {s}
    /\ UNCHANGED <<unsent, started, wire, outgoing, accepted, wireLosses, mixed>>

Vanish(m) ==
    /\ m \in wire /\ wireLosses > 0
    /\ wireLosses' = wireLosses - 1 /\ wire' = wire \ {m}
    /\ UNCHANGED <<unsent, started, outgoing, partial, recency, asked, accepted, mixed>>

TransferNext ==
    \/ \E m \in wire : Deliver_(m) \/ Vanish(m)
    \/ \E s \in Senders :
          \/ SendNak(s) \/ SendAgain(s) \/ CleanUp(s)
          \/ \E v \in Versions : StartTransfer(s, v)

\* Datagrams that are not lost arrive; the ticks of both ends go on.
TransferFairness ==
    /\ WF_transferVars(\E m \in wire : Deliver_(m))
    /\ \A s \in Senders : WF_transferVars(SendAgain(s)) /\ WF_transferVars(CleanUp(s))

TransferSpec == TransferInit /\ [][TransferNext]_transferVars /\ TransferFairness

-----------------------------------------------------------------------------

\* A sender that has not spent its retransmissions on an item strikes it off, and
\* reports it delivered, only when the other end holds an intact payload of it from
\* this sender: whatever datagrams were lost or met in the wrong order, however often
\* the reassembly was evicted or the item sent again in another encoding under the
\* same hash (the Ack arm and the retransmit tick of inbound.rs against the order of
\* complete_reassembled_item).
GaveUp(s) == Between_(s) = {} /\ (outgoing[s].tries >= MaxTries \/ outgoing[s].rounds >= MaxRounds)
HoldsIntact(s) == \E a \in accepted : a[1] = s /\ Verify(a[2])
SettledIsDelivered ==
    [][\A s \in Senders :
          outgoing[s].owed /\ ~outgoing'[s].owed => GaveUp(s) \/ HoldsIntact(s)]_transferVars

\* Unless a sender changed the bytes half-way or a full reassembly map threw a
\* transfer out, every item sent arrives although datagrams, NAKs and
\* acknowledgements are lost.
Arrived(s) == \E a \in accepted : a[1] = s
TransferConverges == []<>(mixed \/ \A s \in started : Arrived(s))
=============================================================================
