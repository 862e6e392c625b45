----------------------------- MODULE Discovery -----------------------------
(***************************************************************************)
(* The device where a pairing PIN is typed.  Records heard over mDNS pass  *)
(* a bounded channel into the discovery cache (discovery.rs,               *)
(* discovery_dispatcher in driver/pairing.rs); PairFromPin looks the PIN   *)
(* up there, trusts the device it names and dials it                       *)
(* (driver/commands.rs); the same records and the cached address make the  *)
(* dispatcher redial a device already trusted.  One initiator runs at a    *)
(* time, for all devices together (start_initiator).                       *)
(*                                                                         *)
(* The driver works a PairFromPin through lock by lock, run_initiator and  *)
(* the end of a pairing likewise, each a task of its own beside the        *)
(* dispatcher.  One end of a pairing is under way at a time, and it is     *)
(* not rolled back (PairTrust has that).                                   *)
(*                                                                         *)
(* Pin has the device that publishes the PIN; here its record is any PIN   *)
(* or none.  This device has the lesser key, so it is the one that dials.  *)
(* That the redial is paced is in Redial.                                  *)
(***************************************************************************)
EXTENDS Naturals, FiniteSets, Sequences

CONSTANTS
    Shower,        \* the device that shows PINs
    Strangers,     \* other devices that publish a record
    Pins,          \* PINs the device may show
    NoPin,         \* a record without one
    CacheTtl,      \* DISCOVERY_CACHE_TTL
    CacheCap,      \* how many devices the cache holds (256)
    LineCap,       \* capacity of the channel of discovery events
    MaxMinute      \* bound on time

ASSUME DiscoveryAssumption ==
    /\ Shower \notin Strangers /\ NoPin \notin Pins
    /\ CacheTtl \in Nat \ {0} /\ CacheCap \in Nat \ {0} /\ LineCap \in Nat \ {0}
    /\ MaxMinute \in Nat

VARIABLES
    minute,            \* the time
    line, cache,       \* discovery events under way; the discovery cache
    trust, verify,     \* Shower is trusted; it is in pending_pairs
    pairing,           \* the PairFromPin in the driver, and what it read
    initiator,         \* the device dialled, or how Shower is, and the step of it
    ending,            \* what is left of the end of a pairing
    link,              \* a session with Shower
    freshPair,         \* history: paired here when it was not trusted, words not compared
    missed             \* history: that pairing's own dial was skipped or not answered, one
                       \* without the gate came before it, or the end of an earlier pairing took
                       \* its words

trustVars == <<trust, verify, link, freshPair, missed>>
discoveryVars == <<minute, line, cache, pairing, initiator, ending, trustVars>>

Lan == {Shower} \cup Strangers
Free == [how |-> "none", at |-> "none"]
NoPairing == [at |-> "none", known |-> FALSE, gate |-> "pair"]

DiscoveryInit ==
    /\ minute = 0 /\ line = <<>> /\ cache = <<>>
    /\ trust = FALSE /\ verify = FALSE /\ link = FALSE
    /\ pairing = NoPairing /\ initiator = Free /\ ending = "no"
    /\ freshPair = FALSE /\ missed = FALSE

Later ==
    /\ minute < MaxMinute /\ minute' = minute + 1
    /\ UNCHANGED <<line, cache, pairing, initiator, ending, trustVars>>

\* browse_loop: a record was heard; an event that finds the channel full is gone.
Heard(d, pin) ==
    /\ Len(line) < LineCap
    /\ line' = Append(line, [from |-> d, pin |-> pin])
    /\ UNCHANGED <<minute, cache, pairing, initiator, ending, trustVars>>

Current(c) == {d \in DOMAIN c : minute - c[d].seen < CacheTtl}

Remembered == [d \in Current(cache) |-> cache[d]]

\* The cache drops what is old, then takes a device it has or has room for.
CacheFor(ev) ==
    IF Cardinality(DOMAIN Remembered) < CacheCap \/ ev.from \in DOMAIN Remembered
    THEN [d \in DOMAIN Remembered \cup {ev.from} |->
            IF d = ev.from THEN [pin |-> ev.pin, seen |-> minute] ELSE Remembered[d]]
    ELSE Remembered

\* start_initiator: one at a time, and the caller is not told.
StartInitiator(how) ==
    initiator' = IF initiator = Free THEN [how |-> how, at |-> "dial"] ELSE initiator

\* A redial has no gate.  It may come before the dial of a pairing in the driver.
StartRedial ==
    /\ StartInitiator("redial")
    /\ missed' = (missed \/ (pairing.at = "store" /\ initiator = Free))

\* discovery_dispatcher, Resolved: cache first, then dial a trusted device that has
\* no session.
Resolved ==
    /\ line # <<>> /\ line' = Tail(line)
    /\ cache' = CacheFor(Head(line))
    /\ IF Head(line).from = Shower /\ trust /\ ~link
       THEN StartRedial
       ELSE UNCHANGED <<initiator, missed>>
    /\ UNCHANGED <<minute, pairing, ending, trust, verify, link, freshPair>>

\* discovery_dispatcher, the blind redial of a trusted device whose address the
\* cache still has.
BlindRedial ==
    /\ trust /\ ~link /\ Shower \in Current(cache)
    /\ initiator = Free
    /\ StartRedial
    /\ UNCHANGED <<minute, line, cache, pairing, ending, trust, verify, link, freshPair>>

\* The device in the cache that advertised the PIN.
Target(pin) == {d \in Current(cache) : cache[d].pin = pin}

\* PairFromPin: the device that advertised the PIN is found; is it trusted, ...
PairFromPin(pin) ==
    /\ pairing = NoPairing /\ Target(pin) # {}
    /\ pairing' = [NoPairing EXCEPT !.at = "pending", !.known = trust]
    /\ UNCHANGED <<minute, line, cache, initiator, ending, trustVars>>

\* Variant: looked at after the insert, when every device is trusted.
GateAfterInsert == IF ~verify THEN "reconnect" ELSE "pair"

\* A device trusted and not being verified is dialled as a reconnect, any other
\* behind the gate.
Gate == IF pairing.known /\ ~verify THEN "reconnect" ELSE "pair"

\* ... and is it being verified?
PairGates ==
    /\ pairing.at = "pending"
    /\ pairing' = [pairing EXCEPT !.at = "trust", !.gate = Gate]
    /\ UNCHANGED <<minute, line, cache, initiator, ending, trustVars>>

\* A dial of Shower without the gate is under way.
Ungated == initiator.how \in {"reconnect", "redial"}

\* The device is trusted; the dispatcher sees that at once, ...
PairTrusts ==
    /\ pairing.at = "trust"
    /\ pairing' = [pairing EXCEPT !.at = "store"]
    /\ trust' = TRUE
    /\ IF pairing.known
       THEN UNCHANGED <<freshPair, missed>>
       ELSE freshPair' = TRUE /\ missed' = (link \/ Ungated)
    /\ UNCHANGED <<minute, line, cache, initiator, ending, verify, link>>

\* ... it is stored, sync is on, and the dial that was decided upon starts.
PairDials ==
    /\ pairing.at = "store"
    /\ pairing' = NoPairing
    /\ missed' = (missed \/ (pairing.gate = "pair" /\ initiator # Free))
    /\ StartInitiator(pairing.gate)
    /\ UNCHANGED <<minute, line, cache, ending, trust, verify, link, freshPair>>

\* The store fails: the device is taken out of the trusted set and the user told.
PairStoreFails ==
    /\ pairing.at = "store"
    /\ pairing' = NoPairing
    /\ trust' = FALSE /\ freshPair' = FALSE
    /\ UNCHANGED <<minute, line, cache, initiator, ending, verify, link, missed>>

\* Another device is being dialled, and is done with.
DialsOther ==
    /\ \/ initiator = Free /\ initiator' = [how |-> "other", at |-> "dial"]
       \/ initiator.how = "other" /\ initiator' = Free
    /\ UNCHANGED <<minute, line, cache, pairing, ending, trustVars>>

DialsShower == initiator.how \in {"pair", "reconnect", "redial"}

\* run_initiator: the answer arrived and the device is still trusted; ...
InitiatorChecks ==
    /\ DialsShower /\ initiator.at = "dial" /\ trust
    /\ initiator' = [initiator EXCEPT !.at = "install"]
    /\ UNCHANGED <<minute, line, cache, pairing, ending, trustVars>>

\* ... the session goes into the empty slot; the address is stored; ...
InitiatorInstalls ==
    /\ initiator.at = "install" /\ ~link
    /\ link' = TRUE
    /\ initiator' = [initiator EXCEPT !.at = "pend"]
    /\ UNCHANGED <<minute, line, cache, pairing, ending, trust, verify, freshPair, missed>>

\* ... the words are pending when the gate was asked for, and the link is announced.
InitiatorDone ==
    /\ initiator.at = "pend"
    /\ verify' = (verify \/ initiator.how = "pair")
    /\ initiator' = Free
    /\ UNCHANGED <<minute, line, cache, pairing, ending, trust, link, freshPair, missed>>

\* No answer in five seconds, a device no longer trusted, or a session meanwhile.
InitiatorFails ==
    /\ DialsShower /\ (initiator.at = "dial" \/ (initiator.at = "install" /\ link))
    /\ missed' = (missed \/ initiator.how = "pair")
    /\ initiator' = Free
    /\ UNCHANGED <<minute, line, cache, pairing, ending, trust, verify, link, freshPair>>

\* PairConfirm, accepted, when the driver has no other command: the words were compared.
Confirmed ==
    /\ pairing = NoPairing /\ verify /\ verify' = FALSE
    /\ freshPair' = FALSE /\ missed' = FALSE
    /\ UNCHANGED <<minute, line, cache, pairing, initiator, ending, trust, link>>

\* A revocation or a rejection, by either side: the trust and what discovery knew
\* go, ...
Revoked ==
    /\ ending = "no" /\ trust /\ trust' = FALSE
    /\ freshPair' = FALSE /\ missed' = FALSE
    /\ cache' = [d \in DOMAIN cache \ {Shower} |-> cache[d]]
    /\ ending' = "words"
    /\ UNCHANGED <<minute, line, pairing, initiator, verify, link>>

\* ... when that is saved the words that wait, ...
WordsGo ==
    /\ ending = "words" /\ ending' = "session"
    /\ verify' = FALSE /\ missed' = (missed \/ freshPair)
    /\ UNCHANGED <<minute, line, cache, pairing, initiator, trust, link, freshPair>>

\* ... and the session.
SessionGoes ==
    /\ ending = "session" /\ ending' = "no"
    /\ link' = FALSE
    /\ UNCHANGED <<minute, line, cache, pairing, initiator, trust, verify, freshPair, missed>>

\* The reaper: words not compared in time go first, ...
Expired ==
    /\ ending = "no" /\ verify /\ verify' = FALSE
    /\ missed' = (missed \/ freshPair)
    /\ ending' = "trust"
    /\ UNCHANGED <<minute, line, cache, pairing, initiator, trust, link, freshPair>>

\* ... then the trust, and the session as above.
TrustGoes ==
    /\ ending = "trust" /\ ending' = "session"
    /\ trust' = FALSE /\ freshPair' = FALSE /\ missed' = FALSE
    /\ UNCHANGED <<minute, line, cache, pairing, initiator, verify, link>>

LinkEnds ==
    /\ link /\ link' = FALSE
    /\ UNCHANGED <<minute, line, cache, pairing, initiator, ending, trust, verify, freshPair, missed>>

DiscoveryNext ==
    \/ Later
    \/ \E pin \in Pins \cup {NoPin} : Heard(Shower, pin)
    \/ \E d \in Strangers : Heard(d, NoPin)
    \/ Resolved \/ BlindRedial
    \/ \E pin \in Pins : PairFromPin(pin)
    \/ PairGates \/ PairTrusts \/ PairDials \/ PairStoreFails
    \/ DialsOther \/ InitiatorChecks \/ InitiatorInstalls \/ InitiatorDone \/ InitiatorFails
    \/ Confirmed \/ Revoked \/ WordsGo \/ SessionGoes \/ Expired \/ TrustGoes \/ LinkEnds

DiscoverySpec == DiscoveryInit /\ [][DiscoveryNext]_discoveryVars

-----------------------------------------------------------------------------
\* A device that was not trusted when its PIN was typed is linked, once the initiator
\* is done, only with its words waiting to be compared, unless the dial the pairing
\* asked for was skipped or not answered, a dial without the gate, such as the
\* dispatcher's redial, came before it, or an earlier pairing ended late (PairFromPin, start_initiator's
\* sas_gate, run_initiator).
FreshPairIsGated == link /\ freshPair /\ ~missed /\ initiator.at # "pend" => verify
=============================================================================
