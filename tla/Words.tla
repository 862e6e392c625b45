------------------------------- MODULE Words -------------------------------
(***************************************************************************)
(* The verification of a pairing on both devices: each shows the words of  *)
(* its handshake, each user accepts or rejects, and each daemon tells the  *)
(* other (handshake.rs pending entries; inbound.rs Hello, PairConfirm,     *)
(* PairVerifyStarted, Bye, Revoke; commands.rs PairFromUri, PairAccept,    *)
(* PairFromPin, PairConfirm, Revoke; app.rs SAS events).                   *)
(*                                                                         *)
(* Sessions are numbered by their handshake, and so are the words derived  *)
(* from it.  A message is readable only under the session it was sealed    *)
(* for.  The receive loop looks at the phase the core has published, while *)
(* the events it posted earlier may still be queued.                       *)
(***************************************************************************)
EXTENDS Naturals, Sequences, FiniteSets, SequencesExt

CONSTANTS
    Devices,        \* the two devices
    MaxHandshakes,  \* bound on handshakes
    MaxMishaps      \* bound on lost messages, lost links, expiries, revocations

ASSUME WordsAssumption ==
    /\ \E a, b \in Devices : a # b /\ Devices = {a, b}
    /\ MaxHandshakes \in Nat /\ MaxMishaps \in Nat

VARIABLES
    dev,       \* what each daemon holds about the other device, see NewDevice
    phase,     \* State.sas_phase of each core
    events,    \* the events queued for each core
    post,      \* messages under way
    shakes,    \* handshakes so far
    mishaps,   \* budget
    accepted,  \* history: the words each user has accepted
    spoilt     \* history: a message was lost, or words accepted unseen

wordsVars == <<dev, phase, events, post, shakes, mishaps, accepted, spoilt>>

None_ == 0
Other(d) == CHOOSE o \in Devices : o # d
Flow == {"showing", "local_confirmed", "peer_confirmed", "confirmed"}
Phases == Flow \cup {"idle", "peer_rejected"}

\* trust: in TrustedSet.  pend: the words in PendingSet.  session: the live session.
\* hello, announced: PeerMeta.hello_seen, verify_restart_sent.  deferred, echoed:
\* deferred_sas_confirm, echo_ack_sent.  greeted: hello_sent.  dial: the initiator
\* under way.  window: the pairing window.
NewDevice ==
    [trust |-> FALSE, pend |-> None_, session |-> None_, hello |-> FALSE, announced |-> FALSE,
     deferred |-> FALSE, echoed |-> FALSE, greeted |-> None_, dial |-> "no", window |-> FALSE]

WordsInit ==
    /\ dev = [d \in Devices |-> NewDevice]
    /\ phase = [d \in Devices |-> "idle"] /\ events = [d \in Devices |-> <<>>]
    /\ post = {} /\ shakes = 0 /\ mishaps = MaxMishaps
    /\ accepted = [d \in Devices |-> {}] /\ spoilt = FALSE

Mishap == mishaps > 0 /\ mishaps' = mishaps - 1
Spoils == Mishap /\ spoilt' = TRUE

Letter(d, s, kind) == [to |-> d, session |-> s, kind |-> kind]

\* send_encrypted_to: nothing leaves without a session.
Sealed(d, kinds) ==
    IF dev[d].session = None_ THEN {}
    ELSE {Letter(Other(d), dev[d].session, k) : k \in kinds}

\* The end of a session at d; PeerMeta goes with it where the code says so.
Closed(r) == [r EXCEPT !.session = None_]
MetaGone(r) == [r EXCEPT !.hello = FALSE, !.announced = FALSE]

Post(d, evs) == events' = [events EXCEPT ![d] = @ \o evs]

-----------------------------------------------------------------------------
\* Handshakes.

Dialing(d) ==
    /\ \A e \in Devices : dev[e].dial = "no"
    /\ shakes < MaxHandshakes
    /\ shakes' = shakes + 1
    /\ post' = post \cup {Letter(Other(d), shakes + 1, "init")}
    /\ UNCHANGED <<phase, events, mishaps, accepted, spoilt>>

\* The user shows the code on the other device and scans it on d: a device already
\* trusted and not pending is dialled silently.
Scan(d) ==
    LET known == dev[d].trust /\ dev[d].pend = None_
    IN  /\ Dialing(d)
        /\ dev' = [dev EXCEPT ![d].trust = TRUE,
                              ![d].dial = IF known THEN "plain" ELSE "gated",
                              ![Other(d)].window = TRUE]

\* The reconnect loop dials a trusted device that is not linked.
Redial(d) ==
    /\ dev[d].trust /\ dev[d].session = None_
    /\ Dialing(d)
    /\ dev' = [dev EXCEPT ![d].dial = "plain"]

WindowCloses(d) ==
    /\ dev[d].window /\ Mishap
    /\ dev' = [dev EXCEPT ![d].window = FALSE]
    /\ UNCHANGED <<phase, events, post, shakes, accepted, spoilt>>

\* run_responder: a trusted device is linked without words, an unknown one through
\* the window, with words.
Respond(m) ==
    LET d == m.to
        r == dev[d]
        new == ~r.trust
    IN  /\ m \in post /\ m.kind = "init"
        /\ IF new /\ ~r.window
           THEN post' = post \ {m} /\ UNCHANGED <<dev, events>>
           ELSE /\ dev' = [dev EXCEPT ![d].trust = TRUE, ![d].session = m.session,
                                      ![d].pend = IF new THEN m.session ELSE @]
                /\ Post(d, IF new THEN <<"started">> ELSE <<>>)
                /\ post' = (post \ {m}) \cup {Letter(Other(d), m.session, "resp")}
        /\ UNCHANGED <<phase, shakes, mishaps, accepted, spoilt>>

\* run_initiator, on the answer: still trusted, no session meanwhile, then words if
\* this was a pairing.
Establish(m) ==
    LET d == m.to
        r == dev[d]
        lands == r.trust /\ r.session = None_
    IN  /\ m \in post /\ m.kind = "resp" /\ r.dial # "no"
        /\ post' = post \ {m}
        /\ dev' = [dev EXCEPT ![d].dial = "no",
                              ![d].session = IF lands THEN m.session ELSE @,
                              ![d].pend = IF lands /\ r.dial = "gated" THEN m.session ELSE @]
        /\ Post(d, IF lands /\ r.dial = "gated" THEN <<"started">> ELSE <<>>)
        /\ UNCHANGED <<phase, shakes, mishaps, accepted, spoilt>>

\* No answer in time.
DialFails(d) ==
    /\ dev[d].dial # "no" /\ \A m \in post : m.kind \notin {"init", "resp"}
    /\ dev' = [dev EXCEPT ![d].dial = "no"]
    /\ UNCHANGED <<phase, events, post, shakes, mishaps, accepted, spoilt>>

\* greet_new_sessions.
Greet(d) ==
    /\ dev[d].session # None_ /\ dev[d].greeted # dev[d].session
    /\ dev' = [dev EXCEPT ![d].greeted = dev[d].session]
    /\ post' = post \cup Sealed(d, {"hello"})
    /\ UNCHANGED <<phase, events, shakes, mishaps, accepted, spoilt>>

-----------------------------------------------------------------------------
\* The receive loop.

Reads(m, kind) == m \in post /\ m.kind = kind /\ m.session = dev[m.to].session

Take(m, out) ==
    /\ post' = (post \ {m}) \cup Sealed(m.to, out)
    /\ UNCHANGED <<phase, shakes, mishaps, accepted, spoilt>>

\* Variant: the accept that was put off is forgotten.
RecvHelloForgets(m) ==
    LET r == dev[m.to]
        announce == r.pend # None_ /\ ~r.announced
    IN  /\ Reads(m, "hello")
        /\ dev' = [dev EXCEPT ![m.to].hello = TRUE, ![m.to].deferred = FALSE,
                              ![m.to].announced = @ \/ announce]
        /\ Take(m, IF announce THEN {"verify"} ELSE {})
        /\ UNCHANGED events

\* An accept put off until the peer's capabilities are known goes out now, unless
\* new words wait; a device that shows new words announces them once.
RecvHello(m) ==
    LET r == dev[m.to]
        flush == r.deferred /\ r.pend = None_
        announce == r.pend # None_ /\ ~r.announced
    IN  /\ Reads(m, "hello")
        /\ dev' = [dev EXCEPT ![m.to].hello = TRUE, ![m.to].deferred = FALSE,
                              ![m.to].announced = @ \/ announce]
        /\ Take(m, (IF flush THEN {"accept"} ELSE {}) \cup (IF announce THEN {"verify"} ELSE {}))
        /\ UNCHANGED events

InFlow(d) == dev[d].pend # None_ \/ phase[d] \in Flow

\* The other user accepted; a device without words of its own answers for the key
\* it trusts, once.
RecvAccept(m) ==
    LET d == m.to
        echo == ~InFlow(d) /\ dev[d].trust /\ dev[d].hello /\ ~dev[d].echoed
    IN  /\ Reads(m, "accept")
        /\ dev' = [dev EXCEPT ![d].echoed = @ \/ echo]
        /\ Post(d, IF InFlow(d) THEN <<"peer_ok">> ELSE <<>>)
        /\ Take(m, IF echo THEN {"accept"} ELSE {})

\* The pairing is over on this side too.
Forgotten(r) ==
    MetaGone([Closed(r) EXCEPT !.trust = FALSE, !.pend = None_, !.deferred = FALSE, !.echoed = FALSE])

RecvReject(m) ==
    /\ Reads(m, "reject")
    /\ dev' = [dev EXCEPT ![m.to] = Forgotten(@)]
    /\ Post(m.to, (IF InFlow(m.to) THEN <<"peer_no">> ELSE <<>>) \o <<"lost">>)
    /\ Take(m, {})

RecvRevoke(m) ==
    /\ Reads(m, "revoke")
    /\ dev' = [dev EXCEPT ![m.to] = Forgotten(@)]
    /\ Post(m.to, (IF dev[m.to].pend # None_ THEN <<"reset">> ELSE <<>>) \o <<"lost">>)
    /\ Take(m, {})

RecvBye(m) ==
    /\ Reads(m, "bye")
    /\ dev' = [dev EXCEPT ![m.to] = [MetaGone(Closed(@)) EXCEPT !.echoed = FALSE]]
    /\ Post(m.to, <<"lost">>)
    /\ Take(m, {})

\* The peer shows new words: so does this device, with those of the live session.
RecvVerify(m) ==
    LET d == m.to
        opens == dev[d].trust /\ ~InFlow(d)
    IN  /\ Reads(m, "verify")
        /\ dev' = [dev EXCEPT ![d].pend = IF opens THEN dev[d].session ELSE @]
        /\ Post(d, IF opens THEN <<"started">> ELSE <<>>)
        /\ Take(m, {})

-----------------------------------------------------------------------------
\* The users.

\* Variant: one user's word is enough.
LocalConfirmedAlone(ph) == IF ph = "idle" THEN "idle" ELSE "confirmed"

\* SasLocalConfirmed, PeerLost in the core.
LocalConfirmed(ph) ==
    IF ph \in {"peer_confirmed", "confirmed"} THEN "confirmed"
    ELSE IF ph = "idle" THEN "idle" ELSE "local_confirmed"
Lost(ph) == IF ph \in {"showing", "peer_confirmed", "local_confirmed"} THEN "idle" ELSE ph

\* The users compare the words the two screens show, or one did and has accepted.
Compared(d) == dev[Other(d)].pend = dev[d].pend \/ dev[d].pend \in accepted[Other(d)]

\* PairConfirm{accept: true}.  The words are on the screen: the core has taken up
\* the pairing they belong to.  To accept without comparing is a mishap.
Accept(d) ==
    LET r == dev[d]
    IN  /\ r.pend # None_ /\ "started" \notin ToSet(events[d])
        /\ IF Compared(d) THEN UNCHANGED <<mishaps, spoilt>> ELSE Spoils
        /\ accepted' = [accepted EXCEPT ![d] = @ \cup {r.pend}]
        /\ dev' = [dev EXCEPT ![d].pend = None_, ![d].deferred = @ \/ ~r.hello]
        /\ post' = post \cup (IF r.hello THEN Sealed(d, {"accept"}) ELSE {})
        /\ phase' = [phase EXCEPT ![d] = LocalConfirmed(@)]
        /\ UNCHANGED <<events, shakes>>

\* PairConfirm{accept: false}: the session ends with a Bye behind the verdict.
Reject(d) ==
    /\ dev[d].pend # None_ /\ Mishap
    /\ dev' = [dev EXCEPT ![d] = MetaGone([Closed(@) EXCEPT !.trust = FALSE, !.pend = None_,
                                                            !.deferred = FALSE])]
    /\ post' = post \cup Sealed(d, {"reject", "bye"})
    /\ phase' = [phase EXCEPT ![d] = Lost(@)]
    /\ UNCHANGED <<events, shakes, accepted, spoilt>>

Revoke(d) ==
    /\ dev[d].trust /\ Mishap
    /\ dev' = [dev EXCEPT ![d] = MetaGone([Closed(@) EXCEPT !.trust = FALSE])]
    /\ post' = post \cup Sealed(d, {"revoke"})
    /\ phase' = [phase EXCEPT ![d] = Lost(@)]
    /\ UNCHANGED <<events, shakes, accepted, spoilt>>

-----------------------------------------------------------------------------
\* Timeouts and the network.

\* The reaper takes back a pairing nobody ruled on.
ReapWords(d) ==
    /\ dev[d].pend # None_ /\ Mishap
    /\ dev' = [dev EXCEPT ![d] = [Closed(@) EXCEPT !.trust = FALSE, !.pend = None_]]
    /\ Post(d, <<"reset">>)
    /\ UNCHANGED <<phase, post, shakes, accepted, spoilt>>

\* Heartbeats stop.
LinkLost(d) ==
    /\ dev[d].session # None_ /\ Mishap
    /\ dev' = [dev EXCEPT ![d] = Closed(@)]
    /\ Post(d, <<"lost">>)
    /\ UNCHANGED <<phase, post, shakes, accepted, spoilt>>

LetterLost(m) ==
    /\ m \in post /\ Spoils
    /\ post' = post \ {m}
    /\ UNCHANGED <<dev, phase, events, shakes, accepted>>

\* Not readable: of a session that is gone, or overtaking the handshake's answer.
Unreadable_(m) ==
    /\ m \in post /\ m.kind # "init"
    /\ IF m.kind = "resp" THEN dev[m.to].dial = "no" ELSE m.session # dev[m.to].session
    /\ post' = post \ {m}
    /\ IF dev[m.to].dial = "no" THEN UNCHANGED <<mishaps, spoilt>> ELSE Spoils
    /\ UNCHANGED <<dev, phase, events, shakes, accepted>>

\* The core takes an event.
PhaseAfter(e, ph) ==
    CASE e = "started" -> "showing"
      [] e = "peer_ok" -> IF ph = "idle" THEN "idle"
                          ELSE IF ph \in {"local_confirmed", "confirmed"} THEN "confirmed"
                          ELSE "peer_confirmed"
      [] e = "peer_no" -> IF ph = "idle" THEN "idle" ELSE "peer_rejected"
      [] e = "reset" -> "idle"
      [] e = "lost" -> Lost(ph)

SasEvent(d) ==
    /\ events[d] # <<>>
    /\ events' = [events EXCEPT ![d] = Tail(@)]
    /\ phase' = [phase EXCEPT ![d] = PhaseAfter(Head(events[d]), @)]
    /\ UNCHANGED <<dev, post, shakes, mishaps, accepted, spoilt>>

WordsNext ==
    \/ \E d \in Devices :
          \/ Scan(d) \/ Redial(d) \/ WindowCloses(d) \/ DialFails(d) \/ Greet(d)
          \/ Accept(d) \/ Reject(d) \/ Revoke(d) \/ ReapWords(d) \/ LinkLost(d) \/ SasEvent(d)
    \/ \E m \in post :
          \/ Respond(m) \/ Establish(m) \/ RecvHello(m) \/ RecvAccept(m) \/ RecvReject(m)
          \/ RecvRevoke(m) \/ RecvBye(m) \/ RecvVerify(m) \/ LetterLost(m) \/ Unreadable_(m)

WordsSpec == WordsInit /\ [][WordsNext]_wordsVars

-----------------------------------------------------------------------------

Quiet ==
    /\ post = {}
    /\ \A d \in Devices : /\ events[d] = <<>> /\ dev[d].dial = "no"
                          /\ dev[d].session \in {None_, dev[d].greeted}

\* When nothing is lost and the users do compare, both learn of it: once both have
\* accepted the words of the session they share and all is quiet, both show the
\* pairing confirmed, whatever was rejected, revoked, timed out or cut off before.
BothLearn ==
    (Quiet /\ ~spoilt) =>
        \A s \in 1 .. shakes :
           (\A d \in Devices : dev[d].session = s /\ s \in accepted[d])
              => \A d \in Devices : phase[d] = "confirmed"

\* ... and confirmed is not shown on the word of one user.
ConfirmedByTwo ==
    ~spoilt => \A d \in Devices : phase[d] = "confirmed" => \A e \in Devices : accepted[e] # {}

\* Two devices that show words over one live session show the same words.
OneSetOfWords ==
    (\A d \in Devices : dev[d].pend # None_ /\ dev[d].session = dev[Other(d)].session)
      => \A d, e \in Devices : dev[d].pend = dev[e].pend
=============================================================================
