---------------------------- MODULE WordsProofs ----------------------------
(***************************************************************************)
(* The verification of a pairing: confirmed is shown on the word of both   *)
(* users, and both devices learn of it, for any number of handshakes and   *)
(* mishaps.                                                                *)
(***************************************************************************)
EXTENDS Words, SequenceTheorems, TLAPS

LEMMA Two ==
    \A d \in Devices :
        /\ Other(d) \in Devices /\ Other(d) # d /\ Other(Other(d)) = d
        /\ \A e \in Devices : e = d \/ e = Other(d)
<1>1. PICK a \in Devices, b \in Devices : a # b /\ Devices = {a, b}
    BY WordsAssumption
<1>2. Other(a) = b /\ Other(b) = a
    BY <1>1 DEF Other
<1> QED BY <1>1, <1>2

-----------------------------------------------------------------------------
\* What the devices hold, and what is said between them.

Shaking == {"init", "resp"}
Said == {"hello", "accept", "reject", "bye", "revoke", "verify"}
Resets == {"lost", "reset", "peer_no"}
EventKinds == Resets \cup {"started", "peer_ok"}

DeviceStates ==
    [trust : BOOLEAN, pend : Nat, session : Nat, hello : BOOLEAN, announced : BOOLEAN,
     deferred : BOOLEAN, echoed : BOOLEAN, greeted : Nat, dial : {"no", "plain", "gated"},
     window : BOOLEAN]

Letters == [to : Devices, session : Nat, kind : Shaking \cup Said]

WordsTyped ==
    /\ dev \in [Devices -> DeviceStates] /\ phase \in [Devices -> Phases]
    /\ events \in [Devices -> Seq(EventKinds)] /\ post \subseteq Letters
    /\ shakes \in Nat /\ mishaps \in Nat /\ accepted \in [Devices -> SUBSET Nat]
    /\ spoilt \in BOOLEAN

\* A letter of a handshake under way.
Opening == \E m \in post : m.kind \in Shaking

\* A session the device has, or may still get from a handshake under way.
Reach(d, s) == dev[d].session = s \/ \E m \in post : m.kind \in Shaking /\ m.to = d /\ m.session = s

\* A handshake this device has not taken part in yet.
Unused(d, s) ==
    dev[d].session # s /\ dev[d].pend # s /\ dev[d].greeted # s /\ s \notin accepted[d]

\* A device without trust has no session.
SessionsTrusted == \A d \in Devices : ~dev[d].trust => dev[d].session = None_

\* One handshake at a time, the last one counted, and its initiator waits for it.
OneShake ==
    /\ \A d, e \in Devices : dev[d].dial # "no" /\ dev[e].dial # "no" => d = e
    /\ \A m \in post : m.kind = "init" => dev[Other(m.to)].dial # "no"
    /\ \A m \in post : m.kind = "resp" => dev[m.to].dial # "no"
    /\ \A m \in post : m.kind \in Shaking => m.session = shakes
    /\ \A m, n \in post : m.kind \in Shaking /\ n.kind \in Shaking => m = n

\* Who waits for an answer that nobody sends dialled a device that does not trust it.
Dropped ==
    ~spoilt => \A d \in Devices : dev[d].dial # "no" /\ ~Opening => ~dev[Other(d)].trust

\* A handshake is new to whoever its letter goes to.
Numbered ==
    /\ \A d \in Devices :
          /\ dev[d].session <= shakes /\ dev[d].pend <= shakes /\ dev[d].greeted <= shakes
          /\ accepted[d] \subseteq 1 .. shakes
    /\ \A m \in post : m.session \in 1 .. shakes
    /\ \A m \in post : m.kind = "init" =>
          /\ \A d \in Devices : Unused(d, m.session)
          /\ \A n \in post : n = m \/ n.session # m.session
    /\ \A m \in post : m.kind = "resp" =>
          /\ Unused(m.to, m.session)
          /\ \A n \in post : n.to # m.to => n.session # m.session

-----------------------------------------------------------------------------
\* Whose user has accepted nothing: nobody takes that device to have accepted.

Cold(d) == accepted[d] = {}

\* Trusted, and without words to answer.
Bare(d) == dev[d].trust /\ dev[d].pend = None_

Settled(q, bad) == \A j \in 1 .. Len(q) : q[j] \notin bad

ColdIsSilent ==
    \A d \in Devices : Cold(d) =>
        /\ ~dev[d].deferred /\ phase[d] \notin {"local_confirmed", "confirmed"}
        /\ ~spoilt =>
              /\ phase[Other(d)] \notin {"peer_confirmed", "confirmed"}
              /\ Settled(events[Other(d)], {"peer_ok"})
              /\ \A m \in post : m.kind = "accept" => m.to = d

\* A device that pairs anew has no session until its words come ...
GatedWaits ==
    \A d \in Devices : Cold(d) /\ Bare(d) /\ dev[d].dial = "gated" => dev[d].session = None_

\* ... and if they never came, the other one has no trust, or words, or pairs anew.
BareIsAlone ==
    ~spoilt => \A d \in Devices : Cold(d) /\ Bare(d) /\ dev[d].dial # "gated" =>
        \/ ~Bare(Other(d))
        \/ dev[Other(d)].dial = "gated" /\ dev[Other(d)].session = None_

\* So that no accept can reach it.
BareHearsNothing ==
    ~spoilt => \A d \in Devices : Cold(d) /\ Bare(d) =>
        \A m \in post : m.kind = "accept" /\ m.to = d => ~Reach(d, m.session)

-----------------------------------------------------------------------------
\* Whose words are those of the live session: they are shown, and so is their fate.

After(q, kind, bad) ==
    \E i \in 1 .. Len(q) : q[i] = kind /\ \A j \in 1 .. Len(q) : j > i => q[j] \notin bad

Live(d) ==
    dev[d].session # None_ /\ (dev[d].pend = dev[d].session \/ dev[d].session \in accepted[d])

Shown(d) ==
    \/ After(events[d], "started", Resets)
    \/ phase[d] \in Flow /\ Settled(events[d], Resets)

Told(d) ==
    \/ After(events[d], "peer_ok", Resets \cup {"started"})
    \/ phase[d] \in {"peer_confirmed", "confirmed"} /\ Settled(events[d], Resets \cup {"started"})

Hello(d, s) == \E m \in post : m.kind = "hello" /\ m.to = d /\ m.session = s

LiveIsShown == \A d \in Devices : Live(d) => Shown(d)

AcceptedIsShown ==
    \A d \in Devices : dev[d].session \in accepted[d] =>
        /\ dev[d].pend = None_ /\ phase[d] \in {"local_confirmed", "confirmed"}
        /\ Settled(events[d], Resets \cup {"started"})

\* Words that one user has accepted were compared with the other's.
Agreed ==
    ~spoilt => \A d \in Devices :
        /\ dev[d].session \in accepted[Other(d)] => Live(d)
        /\ \A m \in post : m.kind = "resp" => m.session \notin accepted[Other(m.to)]

\* A Hello not heard yet is on the way or to come.
HelloDue ==
    ~spoilt => \A d \in Devices :
        /\ dev[d].session # None_ /\ dev[Other(d)].session = dev[d].session /\ ~dev[d].hello
              => Hello(d, dev[d].session) \/ dev[Other(d)].greeted # dev[d].session
        /\ \A m \in post :
              m.kind = "resp" /\ m.to = d /\ dev[Other(d)].greeted = m.session => Hello(d, m.session)

\* An accept is told, on the way, or waits for the Hello.
AcceptDue ==
    ~spoilt => \A d \in Devices :
        LET s == dev[d].session
        IN  s # None_ /\ dev[Other(d)].session = s /\ s \in accepted[Other(d)] =>
                \/ Told(d)
                \/ \E m \in post : m.kind = "accept" /\ m.to = d /\ m.session = s
                \/ dev[Other(d)].deferred /\ (Hello(Other(d), s) \/ dev[d].greeted # s)

ShakeInv == WordsTyped /\ SessionsTrusted /\ OneShake /\ Dropped /\ Numbered
ColdInv == ColdIsSilent /\ GatedWaits /\ BareIsAlone /\ BareHearsNothing
LiveInv == LiveIsShown /\ AcceptedIsShown /\ Agreed /\ HelloDue /\ AcceptDue
WordsInv == ShakeInv /\ ColdInv /\ LiveInv

-----------------------------------------------------------------------------
\* Queues of events.

LEMMA Joined ==
    ASSUME NEW q \in Seq(EventKinds), NEW r \in Seq(EventKinds)
    PROVE  /\ q \o r \in Seq(EventKinds)
           /\ \A bad : Settled(q \o r, bad) <=> Settled(q, bad) /\ Settled(r, bad)
           /\ \A k, bad : After(q, k, bad) /\ Settled(r, bad) => After(q \o r, k, bad)
           /\ \A k, bad : After(r, k, bad) => After(q \o r, k, bad)
<1>1. /\ q \o r \in Seq(EventKinds) /\ Len(q) \in Nat /\ Len(r) \in Nat
      /\ Len(q \o r) = Len(q) + Len(r)
      /\ \A i \in 1 .. Len(q) + Len(r) : (q \o r)[i] = IF i <= Len(q) THEN q[i] ELSE r[i - Len(q)]
    BY ConcatProperties
<1> DEFINE n == Len(q)
           u == q \o r
<1>2. \A i \in 1 .. n : i \in 1 .. Len(u) /\ u[i] = q[i]
    BY <1>1
<1>3. \A k \in 1 .. Len(r) : n + k \in 1 .. Len(u) /\ u[n + k] = r[k]
  <2> SUFFICES ASSUME NEW k \in 1 .. Len(r) PROVE  n + k \in 1 .. Len(u) /\ u[n + k] = r[k]
      OBVIOUS
  <2>1. n + k \in 1 .. n + Len(r) /\ ~(n + k <= n) /\ n + k - n = k
      BY <1>1
  <2> QED BY <1>1, <2>1
<1>4. \A i \in 1 .. Len(u) : i \in 1 .. n \/ \E k \in 1 .. Len(r) : i = n + k
  <2> SUFFICES ASSUME NEW i \in 1 .. Len(u), i \notin 1 .. n PROVE  \E k \in 1 .. Len(r) : i = n + k
      OBVIOUS
  <2>1. i - n \in 1 .. Len(r) /\ i = n + (i - n)
      BY <1>1
  <2> QED BY <2>1
<1>5. n \in Nat /\ Len(r) \in Nat /\ Len(u) \in Nat
    BY <1>1
<1> HIDE DEF n, u
<1>6. \A bad : Settled(u, bad) <=> Settled(q, bad) /\ Settled(r, bad)
  <2> TAKE bad
  <2>1. ASSUME Settled(u, bad) PROVE  Settled(q, bad) /\ Settled(r, bad)
      BY <1>2, <1>3, <2>1 DEF Settled, n
  <2>2. ASSUME Settled(q, bad), Settled(r, bad) PROVE  Settled(u, bad)
    <3> SUFFICES ASSUME NEW i \in 1 .. Len(u) PROVE  u[i] \notin bad
        BY DEF Settled
    <3>1. CASE i \in 1 .. n
        BY <1>2, <2>2, <3>1 DEF Settled, n
    <3>2. ASSUME NEW k \in 1 .. Len(r), i = n + k PROVE  u[i] \notin bad
        BY <1>3, <2>2, <3>2 DEF Settled
    <3> QED BY <1>4, <3>1, <3>2
  <2> QED BY <2>1, <2>2
<1>7. \A k, bad : After(q, k, bad) /\ Settled(r, bad) => After(u, k, bad)
  <2> TAKE kind, bad
  <2> SUFFICES ASSUME After(q, kind, bad), Settled(r, bad) PROVE  After(u, kind, bad)
      OBVIOUS
  <2>1. PICK i \in 1 .. n : q[i] = kind /\ \A j \in 1 .. n : j > i => q[j] \notin bad
      BY DEF After, n
  <2>2. ASSUME NEW j \in 1 .. Len(u), j > i PROVE  u[j] \notin bad
    <3>1. CASE j \in 1 .. n
        BY <1>2, <2>1, <2>2, <3>1
    <3>2. ASSUME NEW k \in 1 .. Len(r), j = n + k PROVE  u[j] \notin bad
        BY <1>3, <3>2 DEF Settled
    <3> QED BY <1>4, <3>1, <3>2
  <2>3. i \in 1 .. Len(u) /\ u[i] = kind
      BY <1>2, <2>1
  <2> QED BY <2>2, <2>3 DEF After
<1>8. \A k, bad : After(r, k, bad) => After(u, k, bad)
  <2> TAKE kind, bad
  <2> SUFFICES ASSUME After(r, kind, bad) PROVE  After(u, kind, bad)
      OBVIOUS
  <2>1. PICK i \in 1 .. Len(r) : r[i] = kind /\ \A j \in 1 .. Len(r) : j > i => r[j] \notin bad
      BY DEF After
  <2>2. ASSUME NEW j \in 1 .. Len(u), j > n + i PROVE  u[j] \notin bad
    <3>1. CASE j \in 1 .. n
        BY <1>5, <2>1, <2>2, <3>1
    <3>2. ASSUME NEW k \in 1 .. Len(r), j = n + k PROVE  u[j] \notin bad
      <4>1. k > i
          BY <1>5, <2>2, <3>2
      <4> QED BY <1>3, <2>1, <3>2, <4>1
    <3> QED BY <1>4, <3>1, <3>2
  <2>3. n + i \in 1 .. Len(u) /\ u[n + i] = kind
      BY <1>3, <2>1
  <2> QED BY <2>2, <2>3 DEF After
<1> QED BY <1>1, <1>6, <1>7, <1>8 DEF u

LEMMA Taken ==
    ASSUME NEW q \in Seq(EventKinds), q # <<>>
    PROVE  /\ Tail(q) \in Seq(EventKinds) /\ Head(q) \in EventKinds
           /\ \A bad : Settled(q, bad) => Settled(Tail(q), bad) /\ Head(q) \notin bad
           /\ \A k, bad : After(q, k, bad) =>
                  \/ Head(q) = k /\ Settled(Tail(q), bad)
                  \/ After(Tail(q), k, bad)
<1> DEFINE t == Tail(q)
<1>1. /\ Len(q) \in Nat /\ Len(q) >= 1 /\ Head(q) = q[1] /\ q[1] \in EventKinds
      /\ t \in Seq(EventKinds) /\ Len(t) = Len(q) - 1
      /\ \A i \in 1 .. Len(t) : t[i] = q[i + 1]
    OBVIOUS
<1> HIDE DEF t
<1>2. \A i \in 1 .. Len(t) : i + 1 \in 1 .. Len(q) /\ t[i] = q[i + 1]
    BY <1>1
<1>3. \A bad : Settled(q, bad) => Settled(t, bad) /\ Head(q) \notin bad
    BY <1>1, <1>2 DEF Settled
<1>4. \A k, bad : After(q, k, bad) => (Head(q) = k /\ Settled(t, bad)) \/ After(t, k, bad)
  <2> TAKE kind, bad
  <2> SUFFICES ASSUME After(q, kind, bad)
               PROVE  (Head(q) = kind /\ Settled(t, bad)) \/ After(t, kind, bad)
      OBVIOUS
  <2>1. PICK i \in 1 .. Len(q) : q[i] = kind /\ \A j \in 1 .. Len(q) : j > i => q[j] \notin bad
      BY DEF After
  <2>2. CASE i = 1
    <3>1. \A j \in 1 .. Len(t) : j + 1 > i
        BY <1>1, <2>2
    <3> QED BY <1>1, <1>2, <2>1, <2>2, <3>1 DEF Settled
  <2>3. CASE i # 1
    <3>1. i - 1 \in 1 .. Len(t) /\ (i - 1) + 1 = i
        BY <1>1, <2>3
    <3>2. \A j \in 1 .. Len(t) : j > i - 1 => j + 1 > i
        BY <1>1
    <3> QED BY <1>2, <2>1, <3>1, <3>2 DEF After
  <2> QED BY <2>2, <2>3
<1> QED BY <1>1, <1>3, <1>4 DEF t

LEMMA Short ==
    /\ <<>> \in Seq(EventKinds) /\ \A bad : Settled(<<>>, bad)
    /\ \A k \in EventKinds :
          /\ <<k>> \in Seq(EventKinds)
          /\ \A bad : (k \notin bad => Settled(<<k>>, bad)) /\ After(<<k>>, k, bad)
    /\ \A k, l \in EventKinds :
          /\ <<k, l>> \in Seq(EventKinds)
          /\ \A bad : k \notin bad /\ l \notin bad => Settled(<<k, l>>, bad)
<1>1. <<>> \in Seq(EventKinds) /\ \A bad : Settled(<<>>, bad)
    BY DEF Settled
<1>2. ASSUME NEW k \in EventKinds
      PROVE  /\ <<k>> \in Seq(EventKinds)
             /\ \A bad : (k \notin bad => Settled(<<k>>, bad)) /\ After(<<k>>, k, bad)
  <2> DEFINE q == <<k>>
  <2>1. q \in Seq(EventKinds) /\ Len(q) = 1 /\ q[1] = k
      OBVIOUS
  <2> HIDE DEF q
  <2>2. \A j \in 1 .. Len(q) : j = 1
      BY <2>1
  <2>3. \A bad : (k \notin bad => Settled(q, bad)) /\ After(q, k, bad)
      BY <2>1, <2>2 DEF Settled, After
  <2> QED BY <2>1, <2>3 DEF q
<1>3. ASSUME NEW k \in EventKinds, NEW l \in EventKinds
      PROVE  /\ <<k, l>> \in Seq(EventKinds)
             /\ \A bad : k \notin bad /\ l \notin bad => Settled(<<k, l>>, bad)
  <2> DEFINE q == <<k, l>>
  <2>1. q \in Seq(EventKinds) /\ Len(q) = 2 /\ q[1] = k /\ q[2] = l
      OBVIOUS
  <2> HIDE DEF q
  <2>2. \A j \in 1 .. Len(q) : j = 1 \/ j = 2
      BY <2>1
  <2>3. \A bad : k \notin bad /\ l \notin bad => Settled(q, bad)
      BY <2>1, <2>2 DEF Settled
  <2> QED BY <2>1, <2>3 DEF q
<1> QED BY <1>1, <1>2, <1>3

-----------------------------------------------------------------------------
\* Steps that pair nobody and carry no accept: a session ends, a letter is lost or says
\* something else.

Stays(e) ==
    /\ dev'[e].trust = dev[e].trust /\ dev'[e].pend = dev[e].pend
    /\ dev'[e].session = dev[e].session /\ dev'[e].hello = dev[e].hello
    /\ dev'[e].deferred = dev[e].deferred

Ends(e) ==
    /\ dev'[e].session = None_ /\ dev'[e].pend \in {dev[e].pend, None_}
    /\ dev'[e].trust => dev[e].trust /\ dev'[e].pend = dev[e].pend
    /\ dev'[e].deferred => dev[e].deferred

Greets(e) ==
    /\ dev'[e].greeted = dev[e].session
    /\ \E m \in post' : m.kind = "hello" /\ m.to = Other(e) /\ m.session = dev[e].session

Calm(d) ==
    /\ Stays(Other(d)) /\ dev'[Other(d)].greeted = dev[Other(d)].greeted
    /\ \A e \in Devices : dev'[e].dial = dev[e].dial
    /\ dev'[d].greeted = dev[d].greeted \/ Greets(d)
    /\ events'[Other(d)] = events[Other(d)] /\ phase'[Other(d)] = phase[Other(d)]
    /\ \/ Stays(d) /\ events'[d] = events[d] /\ phase'[d] = phase[d]
       \/ /\ Ends(d) /\ phase'[d] \in {phase[d], Lost(phase[d])}
          /\ Settled(events[d], {"peer_ok"}) => Settled(events'[d], {"peer_ok"})
    /\ \A m \in post' : m \notin post =>
          /\ m.to = Other(d) /\ m.session = dev[d].session /\ m.session # None_
          /\ m.kind \in Said \ {"accept"}
    /\ \A m \in post \ post' : ~spoilt' =>
          /\ m.kind \notin Shaking
          /\ m.kind \in {"hello", "accept"} => m.session # dev[m.to].session /\ dev[m.to].dial = "no"
    /\ accepted' = accepted /\ shakes' = shakes /\ (spoilt => spoilt')

LEMMA CalmShake ==
    ASSUME WordsInv, WordsTyped', NEW d \in Devices, Calm(d)
    PROVE  ShakeInv'
<1> DEFINE o == Other(d)
<1>0. o \in Devices /\ o # d /\ Other(o) = d /\ Other(d) = o /\ \A e \in Devices : e = d \/ e = o
    BY Two
<1> HIDE DEF o
<1>1. WordsTyped /\ SessionsTrusted /\ OneShake /\ Dropped /\ Numbered
    BY DEF WordsInv, ShakeInv
<1>2. /\ Stays(o) /\ dev'[o].greeted = dev[o].greeted
      /\ dev'[d].dial = dev[d].dial /\ dev'[o].dial = dev[o].dial
      /\ dev'[d].greeted \in {dev[d].greeted, dev[d].session}
      /\ dev'[d].session \in {dev[d].session, None_} /\ dev'[d].pend \in {dev[d].pend, None_}
      /\ dev'[d].trust => dev[d].trust
      /\ dev'[d].trust # dev[d].trust => dev'[d].session = None_
      /\ accepted' = accepted /\ shakes' = shakes
    BY <1>0, <1>1 DEF Calm, Stays, Ends, Greets, o, WordsTyped, DeviceStates
<1>3. \A m \in post' : m \notin post =>
          m.to = o /\ m.session = dev[d].session /\ m.session # None_ /\ m.kind \in Said
    BY DEF Calm, o
<1>4. \A m \in post' : m.kind \in Shaking => m \in post
    BY <1>3 DEF Said, Shaking
<1>5. SessionsTrusted'
    BY <1>0, <1>1, <1>2 DEF SessionsTrusted, Stays, WordsTyped, DeviceStates
<1>6. OneShake'
  <2>1. \A e \in Devices : dev'[e].dial = dev[e].dial
      BY <1>0, <1>2
  <2>2. \A m \in post' : m.to \in Devices /\ Other(m.to) \in Devices
      BY Two DEF WordsTyped, Letters
  <2> QED BY <1>1, <1>2, <1>4, <2>1, <2>2 DEF OneShake, Shaking
<1>7. Dropped'
  <2> SUFFICES ASSUME ~spoilt', NEW e \in Devices, dev'[e].dial # "no", ~Opening'
               PROVE  ~dev'[Other(e)].trust
      BY DEF Dropped
  <2>1. ~spoilt
      BY Zenon DEF Calm
  <2>2. ~Opening
      BY DEF Opening, Calm
  <2>3. ~dev[Other(e)].trust
      BY <1>0, <1>1, <1>2, <2>1, <2>2 DEF Dropped
  <2> QED BY <1>0, <1>2, <2>3 DEF Stays
<1>8. Numbered'
  <2>1. \A e \in Devices : \A s : s # None_ /\ Unused(e, s) => Unused(e, s)'
      BY <1>0, <1>2 DEF Unused, Stays
  <2>2. \A m \in post : m.session # None_
      BY <1>1 DEF Numbered, None_
  <2>3. \A e \in Devices :
          /\ dev'[e].session <= shakes' /\ dev'[e].pend <= shakes' /\ dev'[e].greeted <= shakes'
          /\ accepted'[e] \subseteq 1 .. shakes'
    <3>1. \A e \in Devices :
            /\ dev[e].session <= shakes /\ dev[e].pend <= shakes /\ dev[e].greeted <= shakes
            /\ accepted[e] \subseteq 1 .. shakes
        BY <1>1 DEF Numbered
    <3>2. None_ <= shakes
        BY <1>1 DEF WordsTyped, None_
    <3>3. dev'[o].session = dev[o].session /\ dev'[o].pend = dev[o].pend
        BY <1>2 DEF Stays
    <3>4. \A e \in Devices :
            /\ dev'[e].session \in {dev[e].session, None_} /\ dev'[e].pend \in {dev[e].pend, None_}
            /\ dev'[e].greeted \in {dev[e].greeted, dev[e].session}
        BY <1>0, <1>2, <3>3
    <3> HIDE DEF None_
    <3> QED BY <1>2, <3>1, <3>2, <3>4
  <2>4. \A m \in post' : m.session \in 1 .. shakes'
    <3>1. dev[d].session \in Nat /\ dev[d].session <= shakes /\ shakes \in Nat
        BY <1>1 DEF Numbered, WordsTyped, DeviceStates
    <3>2. dev[d].session # None_ => dev[d].session \in 1 .. shakes
        BY <3>1 DEF None_
    <3> QED BY <1>1, <1>2, <1>3, <3>2 DEF Numbered
  <2>5. ASSUME NEW m \in post', m.kind = "init"
        PROVE  /\ \A e \in Devices : Unused(e, m.session)'
               /\ \A n \in post' : n = m \/ n.session # m.session
    <3>1. m \in post /\ \A e \in Devices : Unused(e, m.session)
        BY <1>1, <1>4, <2>5 DEF Numbered, Shaking
    <3>2. dev[d].session # m.session
        BY <3>1 DEF Unused
    <3> QED BY <1>1, <1>3, <2>1, <2>2, <2>5, <3>1, <3>2 DEF Numbered
  <2>6. ASSUME NEW m \in post', m.kind = "resp"
        PROVE  Unused(m.to, m.session)' /\ \A n \in post' : n.to # m.to => n.session # m.session
    <3>1. m \in post /\ Unused(m.to, m.session) /\ m.to \in Devices
        BY <1>1, <1>4, <2>6 DEF Numbered, Shaking, WordsTyped, Letters
    <3>2. m.to = d => dev[d].session # m.session
        BY <3>1 DEF Unused
    <3>3. Unused(m.to, m.session)'
        BY <2>1, <2>2, <3>1
    <3> QED BY <1>0, <1>1, <1>3, <2>6, <3>1, <3>2, <3>3 DEF Numbered
  <2> QED BY <2>3, <2>4, <2>5, <2>6 DEF Numbered
<1> QED BY <1>5, <1>6, <1>7, <1>8 DEF ShakeInv

LEMMA CalmCold ==
    ASSUME WordsInv, WordsTyped', NEW d \in Devices, Calm(d)
    PROVE  ColdInv'
<1> DEFINE o == Other(d)
<1>0. o \in Devices /\ o # d /\ Other(o) = d /\ Other(d) = o /\ \A e \in Devices : e = d \/ e = o
    BY Two
<1> HIDE DEF o
<1>1. WordsTyped /\ OneShake /\ Numbered /\ ColdIsSilent /\ GatedWaits /\ BareIsAlone /\ BareHearsNothing
    BY DEF WordsInv, ShakeInv, ColdInv
<1>2. \A e \in Devices :
        /\ dev'[e].dial = dev[e].dial /\ dev'[e].session \in {dev[e].session, None_}
        /\ dev'[e].deferred => dev[e].deferred
        /\ Bare(e)' => Bare(e)
        /\ phase'[e] \in {phase[e], Lost(phase[e])}
        /\ Settled(events[e], {"peer_ok"}) => Settled(events'[e], {"peer_ok"})
        /\ Cold(e)' <=> Cold(e)
  <2>1. /\ dev'[o].session = dev[o].session /\ (dev'[o].deferred => dev[o].deferred)
        /\ (Bare(o)' => Bare(o)) /\ events'[o] = events[o] /\ phase'[o] = phase[o]
      BY <1>0 DEF Calm, Stays, Bare
  <2>2. /\ dev'[d].session \in {dev[d].session, None_} /\ (dev'[d].deferred => dev[d].deferred)
        /\ (Bare(d)' => Bare(d)) /\ phase'[d] \in {phase[d], Lost(phase[d])}
        /\ Settled(events[d], {"peer_ok"}) => Settled(events'[d], {"peer_ok"})
      BY DEF Calm, Stays, Ends, Bare
  <2>3. \A e \in Devices : dev'[e].dial = dev[e].dial /\ (Cold(e)' <=> Cold(e))
      BY DEF Calm, Cold
  <2> QED BY <1>0, <2>1, <2>2, <2>3
<1>3. \A m \in post' : m \in post \/ m.kind \in Said \ {"accept"}
    BY DEF Calm
<1>4. ASSUME ~spoilt' PROVE  ~spoilt
    BY <1>4, Zenon DEF Calm
<1>5. ColdIsSilent'
  <2> SUFFICES ASSUME NEW e \in Devices, Cold(e)
               PROVE  /\ ~dev'[e].deferred /\ phase'[e] \notin {"local_confirmed", "confirmed"}
                      /\ ~spoilt' =>
                            /\ phase'[Other(e)] \notin {"peer_confirmed", "confirmed"}
                            /\ Settled(events'[Other(e)], {"peer_ok"})
                            /\ \A m \in post' : m.kind = "accept" => m.to = e
      BY <1>2 DEF ColdIsSilent
  <2>1. Other(e) \in Devices
      BY Two
  <2>2. ~dev'[e].deferred /\ phase'[e] \notin {"local_confirmed", "confirmed"}
      BY <1>1, <1>2 DEF ColdIsSilent, Lost
  <2>3. ASSUME ~spoilt'
        PROVE  /\ phase'[Other(e)] \notin {"peer_confirmed", "confirmed"}
               /\ Settled(events'[Other(e)], {"peer_ok"})
               /\ \A m \in post' : m.kind = "accept" => m.to = e
      BY <1>1, <1>2, <1>3, <1>4, <2>1, <2>3 DEF ColdIsSilent, Lost
  <2> QED BY <2>2, <2>3
<1>6. GatedWaits'
    BY <1>1, <1>2 DEF GatedWaits
<1>7. BareIsAlone'
  <2> SUFFICES ASSUME ~spoilt', NEW e \in Devices, Cold(e)', Bare(e)', dev'[e].dial # "gated"
               PROVE  \/ ~Bare(Other(e))'
                      \/ dev'[Other(e)].dial = "gated" /\ dev'[Other(e)].session = None_
      BY DEF BareIsAlone
  <2>1. Other(e) \in Devices /\ ~spoilt
      BY <1>4, Two
  <2> QED BY <1>1, <1>2, <2>1 DEF BareIsAlone
<1>8. BareHearsNothing'
  <2> SUFFICES ASSUME ~spoilt', NEW e \in Devices, Cold(e)', Bare(e)',
                      NEW m \in post', m.kind = "accept", m.to = e
               PROVE  ~Reach(e, m.session)'
      BY DEF BareHearsNothing
  <2>1. m \in post /\ ~Reach(e, m.session)
      BY <1>1, <1>2, <1>3, <1>4 DEF BareHearsNothing
  <2>2. m.session # None_
      BY <1>1, <2>1 DEF Numbered, None_
  <2>3. \A n \in post' : n.kind \in Shaking => n \in post
      BY <1>3 DEF Said, Shaking
  <2> QED BY <1>2, <2>1, <2>2, <2>3 DEF Reach
<1> QED BY <1>5, <1>6, <1>7, <1>8 DEF ColdInv

LEMMA CalmLive ==
    ASSUME WordsInv, WordsTyped', NEW d \in Devices, Calm(d)
    PROVE  LiveInv'
<1> DEFINE o == Other(d)
<1>0. o \in Devices /\ o # d /\ Other(o) = d /\ Other(d) = o /\ \A e \in Devices : e = d \/ e = o
    BY Two
<1> HIDE DEF o
<1>1. WordsTyped /\ OneShake /\ Numbered /\ LiveIsShown /\ AcceptedIsShown /\ Agreed /\ HelloDue /\ AcceptDue
    BY DEF WordsInv, ShakeInv, LiveInv
<1>2. /\ accepted' = accepted
      /\ \A e \in Devices : dev'[e].session # None_ =>
            /\ Stays(e) /\ events'[e] = events[e] /\ phase'[e] = phase[e]
      /\ \A e \in Devices : dev'[e].greeted = dev[e].greeted \/ Greets(e)
    BY <1>0 DEF Calm, Ends
<1>3. \A m \in post' : m.kind \in Shaking => m \in post
    BY DEF Calm, Said, Shaking
<1>4. ASSUME ~spoilt'
      PROVE  /\ ~spoilt
             /\ \A m \in post : m.kind \in {"hello", "accept"} =>
                   m \in post' \/ (m.session # dev[m.to].session /\ dev[m.to].dial = "no")
  <2>1. ~spoilt
      BY <1>4, Zenon DEF Calm
  <2> QED BY <1>4, <2>1 DEF Calm
<1>5. \A e \in Devices : None_ \notin accepted[e]
    BY <1>1 DEF Numbered, None_
<1>6. \A e \in Devices : dev'[e].session # None_ => (Live(e)' <=> Live(e))
    BY <1>2 DEF Live, Stays
<1>7. LiveIsShown'
  <2> SUFFICES ASSUME NEW e \in Devices, Live(e)' PROVE  Shown(e)'
      BY DEF LiveIsShown
  <2>1. dev'[e].session # None_
      BY DEF Live
  <2> QED BY <1>1, <1>2, <1>6, <2>1 DEF LiveIsShown, Shown
<1>8. AcceptedIsShown'
  <2> SUFFICES ASSUME NEW e \in Devices, dev'[e].session \in accepted'[e]
               PROVE  /\ dev'[e].pend = None_ /\ phase'[e] \in {"local_confirmed", "confirmed"}
                      /\ Settled(events'[e], Resets \cup {"started"})
      BY DEF AcceptedIsShown
  <2> QED BY <1>1, <1>2, <1>5 DEF AcceptedIsShown, Stays
<1>9. Agreed'
  <2> SUFFICES ASSUME ~spoilt', NEW e \in Devices
               PROVE  /\ dev'[e].session \in accepted'[Other(e)] => Live(e)'
                      /\ \A m \in post' : m.kind = "resp" => m.session \notin accepted'[Other(m.to)]
      BY DEF Agreed
  <2>1. Other(e) \in Devices /\ ~spoilt
      BY <1>4, Two
  <2>2. ASSUME dev'[e].session \in accepted'[Other(e)] PROVE  Live(e)'
      BY <1>1, <1>2, <1>5, <1>6, <2>1, <2>2 DEF Agreed, Stays
  <2>3. \A m \in post' : m.kind = "resp" => m.session \notin accepted'[Other(m.to)]
      BY <1>1, <1>2, <1>3, <2>1 DEF Agreed, Shaking
  <2> QED BY <2>2, <2>3
<1>10. ASSUME ~spoilt', NEW e \in Devices, NEW s, Hello(e, s), s = dev[e].session \/ dev[e].dial # "no"
       PROVE  Hello(e, s)'
    BY <1>4, <1>10 DEF Hello
<1>11. HelloDue'
  <2> SUFFICES ASSUME ~spoilt', NEW e \in Devices
               PROVE  /\ /\ dev'[e].session # None_ /\ dev'[Other(e)].session = dev'[e].session
                         /\ ~dev'[e].hello
                         => Hello(e, dev[e].session)' \/ dev'[Other(e)].greeted # dev'[e].session
                      /\ \A m \in post' :
                            m.kind = "resp" /\ m.to = e /\ dev'[Other(e)].greeted = m.session
                                => Hello(e, m.session)'
      BY DEF HelloDue
  <2>1. Other(e) \in Devices /\ Other(Other(e)) = e /\ ~spoilt
      BY <1>4, Two
  <2>2. ASSUME dev'[e].session # None_, dev'[Other(e)].session = dev'[e].session, ~dev'[e].hello,
               dev'[Other(e)].greeted = dev'[e].session
        PROVE  Hello(e, dev[e].session)'
    <3> DEFINE s == dev[e].session
    <3>1. /\ dev'[e].session = s /\ dev[Other(e)].session = s /\ ~dev[e].hello /\ s # None_
        BY <1>2, <2>1, <2>2 DEF Stays
    <3>2. CASE Greets(Other(e))
        BY <2>1, <3>1, <3>2 DEF Greets, Hello
    <3>3. CASE dev[Other(e)].greeted = s
      <4>1. Hello(e, s)
          BY <1>1, <2>1, <3>1, <3>3 DEF HelloDue
      <4>2. \E m \in post' : m.kind = "hello" /\ m.to = e /\ m.session = s
          BY <1>10, <4>1 DEF Hello
      <4> QED BY <3>1, <4>2 DEF Hello
    <3> QED BY <1>2, <2>1, <2>2, <3>1, <3>2, <3>3
  <2>3. ASSUME NEW m \in post', m.kind = "resp", m.to = e, dev'[Other(e)].greeted = m.session
        PROVE  Hello(e, m.session)'
    <3>1. m \in post /\ dev[e].dial # "no"
        BY <1>1, <1>3, <2>3 DEF OneShake, Shaking
    <3>2. CASE Greets(Other(e))
        BY <2>1, <2>3, <3>2 DEF Greets, Hello
    <3>3. CASE dev[Other(e)].greeted = m.session
      <4>1. Hello(e, m.session)
          BY <1>1, <2>1, <2>3, <3>1, <3>3 DEF HelloDue
      <4> QED BY <1>10, <3>1, <4>1
    <3> QED BY <1>2, <2>1, <2>3, <3>2, <3>3
  <2> QED BY <2>2, <2>3
<1>12. AcceptDue'
  <2> SUFFICES ASSUME ~spoilt', NEW e \in Devices, NEW s, s = dev'[e].session, s # None_,
                      dev'[Other(e)].session = s, s \in accepted'[Other(e)]
               PROVE  \/ Told(e)'
                      \/ \E m \in post' : m.kind = "accept" /\ m.to = e /\ m.session = s
                      \/ /\ dev'[Other(e)].deferred
                         /\ \/ \E m \in post' : m.kind = "hello" /\ m.to = Other(e) /\ m.session = s
                            \/ dev'[e].greeted # s
      BY DEF AcceptDue, Hello
  <2>1. Other(e) \in Devices /\ Other(Other(e)) = e /\ ~spoilt
      BY <1>4, Two
  <2>2. dev[e].session = s /\ dev[Other(e)].session = s /\ s \in accepted[Other(e)]
      BY <1>2, <2>1 DEF Stays
  <2>3. \/ Told(e)
        \/ \E m \in post : m.kind = "accept" /\ m.to = e /\ m.session = s
        \/ dev[Other(e)].deferred /\ (Hello(Other(e), s) \/ dev[e].greeted # s)
      BY <1>1, <2>1, <2>2 DEF AcceptDue
  <2>4. CASE Told(e)
      BY <1>2, <2>4 DEF Told
  <2>5. ASSUME NEW m \in post, m.kind = "accept", m.to = e, m.session = s PROVE  m \in post'
      BY <1>4, <2>2, <2>5
  <2>6. CASE dev[Other(e)].deferred /\ (Hello(Other(e), s) \/ dev[e].greeted # s)
    <3>1. dev'[Other(e)].deferred
        BY <1>2, <2>1, <2>6 DEF Stays
    <3>2. CASE Hello(Other(e), s)
        BY <1>10, <2>1, <2>2, <3>1, <3>2 DEF Hello
    <3>3. CASE Greets(e)
        BY <2>2, <3>1, <3>3 DEF Greets
    <3> QED BY <1>2, <2>6, <3>1, <3>2, <3>3
  <2> QED BY <2>3, <2>4, <2>5, <2>6
<1> QED BY <1>7, <1>8, <1>9, <1>11, <1>12 DEF LiveInv

LEMMA CalmKeeps ==
    ASSUME WordsInv, WordsTyped', NEW d \in Devices, Calm(d)
    PROVE  WordsInv'
BY CalmShake, CalmCold, CalmLive DEF WordsInv

-----------------------------------------------------------------------------
\* What an action makes of its device.

Becomes(d, r) == r \in DeviceStates /\ dev' = [dev EXCEPT ![d] = r]

LEMMA Becoming ==
    ASSUME WordsTyped, NEW d \in Devices, NEW r, Becomes(d, r)
    PROVE  dev' \in [Devices -> DeviceStates] /\ dev'[d] = r /\ dev'[Other(d)] = dev[Other(d)]
<1>1. dev \in [Devices -> DeviceStates] /\ Other(d) \in Devices /\ Other(d) # d
    BY Two DEF WordsTyped
<1> QED BY <1>1 DEF Becomes

LEMMA DeviceTyped ==
    ASSUME WordsTyped, NEW d \in Devices
    PROVE  /\ Other(d) \in Devices /\ Other(d) # d /\ Other(Other(d)) = d
           /\ dev \in [Devices -> DeviceStates] /\ dev[d] \in DeviceStates
           /\ dev[d].trust \in BOOLEAN /\ dev[d].pend \in Nat /\ dev[d].session \in Nat
           /\ dev[d].hello \in BOOLEAN /\ dev[d].announced \in BOOLEAN
           /\ dev[d].deferred \in BOOLEAN /\ dev[d].echoed \in BOOLEAN /\ dev[d].greeted \in Nat
           /\ dev[d].dial \in {"no", "plain", "gated"} /\ None_ \in Nat
BY Two DEF WordsTyped, DeviceStates, None_

LEMMA LetterTyped ==
    ASSUME WordsTyped, NEW m \in post
    PROVE  m.to \in Devices /\ m.session \in Nat /\ m.kind \in Shaking \cup Said
BY DEF WordsTyped, Letters

LEMMA DialSteps ==
    ASSUME WordsTyped, NEW d \in Devices
    PROVE  /\ Redial(d) => Becomes(d, [dev[d] EXCEPT !.dial = "plain"])
           /\ DialFails(d) => Becomes(d, [dev[d] EXCEPT !.dial = "no"])
           /\ WindowCloses(d) => Becomes(d, [dev[d] EXCEPT !.window = FALSE])
           /\ Greet(d) => Becomes(d, [dev[d] EXCEPT !.greeted = dev[d].session])
BY DeviceTyped DEF Becomes, DeviceStates, Redial, DialFails, WindowCloses, Greet

LEMMA ScanStep ==
    ASSUME WordsTyped, NEW d \in Devices, Scan(d)
    PROVE  /\ dev' \in [Devices -> DeviceStates]
           /\ dev'[d] = [dev[d] EXCEPT !.trust = TRUE,
                                       !.dial = IF dev[d].trust /\ dev[d].pend = None_
                                                THEN "plain" ELSE "gated"]
           /\ dev'[Other(d)] = [dev[Other(d)] EXCEPT !.window = TRUE]
<1> DEFINE x == IF dev[d].trust /\ dev[d].pend = None_ THEN "plain" ELSE "gated"
           r == [dev[d] EXCEPT !.trust = TRUE, !.dial = x]
           q == [dev[Other(d)] EXCEPT !.window = TRUE]
<1>0. dev \in [Devices -> DeviceStates] /\ Other(d) \in Devices /\ Other(d) # d
    BY DeviceTyped
<1>1. r \in DeviceStates /\ q \in DeviceStates
    BY <1>0 DEF DeviceStates
<1>2. dev' = [dev EXCEPT ![d].trust = TRUE, ![d].dial = x, ![Other(d)].window = TRUE]
    BY DEF Scan
<1>3. dev' = [dev EXCEPT ![d] = r, ![Other(d)] = q]
    BY <1>0, <1>2
<1> HIDE DEF r, q
<1>4. dev' \in [Devices -> DeviceStates] /\ dev'[d] = r /\ dev'[Other(d)] = q
    BY <1>0, <1>1, <1>3
<1> QED BY <1>4 DEF r, q

LEMMA AcceptStep ==
    ASSUME WordsTyped, NEW d \in Devices, Accept(d)
    PROVE  Becomes(d, [dev[d] EXCEPT !.pend = None_, !.deferred = dev[d].deferred \/ ~dev[d].hello])
<1> DEFINE b == dev[d].deferred \/ ~dev[d].hello
           r == [dev[d] EXCEPT !.pend = None_, !.deferred = b]
<1>1. \A c \in BOOLEAN : [dev[d] EXCEPT !.pend = None_, !.deferred = c] \in DeviceStates
    BY DeviceTyped DEF DeviceStates
<1>2. b \in BOOLEAN
    OBVIOUS
<1>3. dev' = [dev EXCEPT ![d] = r]
    BY DeviceTyped DEF Accept
<1> QED BY <1>1, <1>2, <1>3 DEF Becomes

LEMMA EndSteps ==
    ASSUME WordsTyped, NEW d \in Devices
    PROVE  /\ Reject(d) => Becomes(d, [dev[d] EXCEPT !.session = None_, !.trust = FALSE, !.pend = None_,
                                                     !.deferred = FALSE, !.hello = FALSE,
                                                     !.announced = FALSE])
           /\ Revoke(d) => Becomes(d, [dev[d] EXCEPT !.session = None_, !.trust = FALSE, !.hello = FALSE,
                                                     !.announced = FALSE])
           /\ ReapWords(d) => Becomes(d, [dev[d] EXCEPT !.session = None_, !.trust = FALSE, !.pend = None_])
           /\ LinkLost(d) => Becomes(d, [dev[d] EXCEPT !.session = None_])
<1>0. None_ \in Nat /\ dev[d] \in DeviceStates
    BY DeviceTyped
<1>1. /\ [dev[d] EXCEPT !.session = None_, !.trust = FALSE, !.pend = None_, !.deferred = FALSE,
                        !.hello = FALSE, !.announced = FALSE] \in DeviceStates
      /\ [dev[d] EXCEPT !.session = None_, !.trust = FALSE, !.hello = FALSE, !.announced = FALSE]
             \in DeviceStates
      /\ [dev[d] EXCEPT !.session = None_, !.trust = FALSE, !.pend = None_] \in DeviceStates
      /\ [dev[d] EXCEPT !.session = None_] \in DeviceStates
    BY <1>0 DEF DeviceStates
<1>2. /\ Reject(d) => dev' = [dev EXCEPT ![d] =
             [dev[d] EXCEPT !.session = None_, !.trust = FALSE, !.pend = None_, !.deferred = FALSE,
                            !.hello = FALSE, !.announced = FALSE]]
      /\ Revoke(d) => dev' = [dev EXCEPT ![d] =
             [dev[d] EXCEPT !.session = None_, !.trust = FALSE, !.hello = FALSE, !.announced = FALSE]]
      /\ ReapWords(d) => dev' = [dev EXCEPT ![d] =
             [dev[d] EXCEPT !.session = None_, !.trust = FALSE, !.pend = None_]]
      /\ LinkLost(d) => dev' = [dev EXCEPT ![d] = [dev[d] EXCEPT !.session = None_]]
    BY DEF Reject, Revoke, ReapWords, LinkLost, MetaGone, Closed
<1> QED BY <1>1, <1>2 DEF Becomes

LEMMA ShakeSteps ==
    ASSUME WordsTyped, NEW m \in post
    PROVE  /\ Respond(m) => \/ dev' = dev
                            \/ Becomes(m.to, [dev[m.to] EXCEPT !.trust = TRUE, !.session = m.session,
                                                 !.pend = IF ~dev[m.to].trust THEN m.session
                                                          ELSE dev[m.to].pend])
           /\ Establish(m) =>
                 LET lands == dev[m.to].trust /\ dev[m.to].session = None_
                 IN  Becomes(m.to, [dev[m.to] EXCEPT
                        !.dial = "no", !.session = IF lands THEN m.session ELSE dev[m.to].session,
                        !.pend = IF lands /\ dev[m.to].dial = "gated" THEN m.session
                                 ELSE dev[m.to].pend])
<1> DEFINE d == m.to
           lands == dev[d].trust /\ dev[d].session = None_
           r == [dev[d] EXCEPT !.trust = TRUE, !.session = m.session,
                               !.pend = IF ~dev[d].trust THEN m.session ELSE dev[d].pend]
           q == [dev[d] EXCEPT !.dial = "no", !.session = IF lands THEN m.session ELSE dev[d].session,
                               !.pend = IF lands /\ dev[d].dial = "gated" THEN m.session ELSE dev[d].pend]
<1>0. d \in Devices /\ m.session \in Nat /\ dev \in [Devices -> DeviceStates]
    BY LetterTyped DEF WordsTyped
<1>1. r \in DeviceStates
    BY <1>0 DEF DeviceStates
<1>2. q \in DeviceStates
  <2>1. dev[d] \in DeviceStates /\ dev[d].session \in Nat /\ dev[d].pend \in Nat
      BY <1>0 DEF DeviceStates
  <2>2. \A s, p \in Nat : [dev[d] EXCEPT !.dial = "no", !.session = s, !.pend = p] \in DeviceStates
      BY <2>1 DEF DeviceStates
  <2> QED BY <1>0, <2>1, <2>2
<1>3. Respond(m) => dev' = dev \/ dev' = [dev EXCEPT ![d] = r]
    BY <1>0 DEF Respond
<1>4. Establish(m) => dev' = [dev EXCEPT ![d] = q]
    BY <1>0 DEF Establish
<1> QED BY <1>1, <1>2, <1>3, <1>4 DEF Becomes

LEMMA RecvSteps ==
    ASSUME WordsTyped, NEW m \in post
    PROVE  /\ RecvHello(m) => \E b \in BOOLEAN :
                 Becomes(m.to, [dev[m.to] EXCEPT !.hello = TRUE, !.deferred = FALSE, !.announced = b])
           /\ RecvAccept(m) => \E b \in BOOLEAN : Becomes(m.to, [dev[m.to] EXCEPT !.echoed = b])
           /\ RecvVerify(m) => Becomes(m.to, [dev[m.to] EXCEPT
                 !.pend = IF dev[m.to].trust /\ ~InFlow(m.to) THEN dev[m.to].session ELSE dev[m.to].pend])
           /\ RecvBye(m) => Becomes(m.to, [dev[m.to] EXCEPT !.session = None_, !.hello = FALSE,
                                                            !.announced = FALSE, !.echoed = FALSE])
           /\ RecvReject(m) \/ RecvRevoke(m) =>
                 Becomes(m.to, [dev[m.to] EXCEPT !.session = None_, !.trust = FALSE, !.pend = None_,
                                                 !.deferred = FALSE, !.echoed = FALSE, !.hello = FALSE,
                                                 !.announced = FALSE])
<1> DEFINE d == m.to
<1>0. d \in Devices /\ m.session \in Nat /\ dev \in [Devices -> DeviceStates] /\ None_ \in Nat
    BY LetterTyped, DeviceTyped DEF WordsTyped
<1>1. ASSUME RecvHello(m)
      PROVE  \E b \in BOOLEAN :
                Becomes(d, [dev[d] EXCEPT !.hello = TRUE, !.deferred = FALSE, !.announced = b])
  <2>1. PICK b \in BOOLEAN : b = (dev[d].announced \/ (dev[d].pend # None_ /\ ~dev[d].announced))
      OBVIOUS
  <2>2. dev' = [dev EXCEPT ![d] = [dev[d] EXCEPT !.hello = TRUE, !.deferred = FALSE, !.announced = b]]
      BY <1>0, <1>1, <2>1 DEF RecvHello
  <2>3. dev[d] \in DeviceStates
      BY <1>0
  <2>4. \A c \in BOOLEAN :
          [dev[d] EXCEPT !.hello = TRUE, !.deferred = FALSE, !.announced = c] \in DeviceStates
      BY <2>3 DEF DeviceStates
  <2> QED BY <2>2, <2>4 DEF Becomes
<1>2. ASSUME RecvAccept(m) PROVE  \E b \in BOOLEAN : Becomes(d, [dev[d] EXCEPT !.echoed = b])
  <2> DEFINE echo == ~InFlow(d) /\ dev[d].trust /\ dev[d].hello /\ ~dev[d].echoed
  <2>1. PICK b \in BOOLEAN : b = (dev[d].echoed \/ echo)
      OBVIOUS
  <2>2. dev' = [dev EXCEPT ![d] = [dev[d] EXCEPT !.echoed = b]]
      BY <1>0, <1>2, <2>1 DEF RecvAccept
  <2>3. [dev[d] EXCEPT !.echoed = b] \in DeviceStates
      BY <1>0 DEF DeviceStates
  <2> QED BY <2>2, <2>3 DEF Becomes
<1>3. ASSUME RecvVerify(m)
      PROVE  Becomes(d, [dev[d] EXCEPT
                !.pend = IF dev[d].trust /\ ~InFlow(d) THEN dev[d].session ELSE dev[d].pend])
  <2> DEFINE p == IF dev[d].trust /\ ~InFlow(d) THEN dev[d].session ELSE dev[d].pend
  <2>1. dev' = [dev EXCEPT ![d] = [dev[d] EXCEPT !.pend = p]]
      BY <1>0, <1>3 DEF RecvVerify
  <2>2. p \in Nat /\ \A n \in Nat : [dev[d] EXCEPT !.pend = n] \in DeviceStates
      BY <1>0 DEF DeviceStates
  <2> QED BY <2>1, <2>2 DEF Becomes
<1>4. /\ [dev[d] EXCEPT !.session = None_, !.hello = FALSE, !.announced = FALSE, !.echoed = FALSE]
             \in DeviceStates
      /\ [dev[d] EXCEPT !.session = None_, !.trust = FALSE, !.pend = None_, !.deferred = FALSE,
                        !.echoed = FALSE, !.hello = FALSE, !.announced = FALSE] \in DeviceStates
  <2>1. dev[d] \in DeviceStates
      BY <1>0
  <2> QED BY <1>0, <2>1 DEF DeviceStates
<1>5. RecvBye(m) => dev' = [dev EXCEPT ![d] =
          [dev[d] EXCEPT !.session = None_, !.hello = FALSE, !.announced = FALSE, !.echoed = FALSE]]
    BY <1>0 DEF RecvBye, MetaGone, Closed
<1>6. RecvReject(m) \/ RecvRevoke(m) => dev' = [dev EXCEPT ![d] =
          [dev[d] EXCEPT !.session = None_, !.trust = FALSE, !.pend = None_, !.deferred = FALSE,
                         !.echoed = FALSE, !.hello = FALSE, !.announced = FALSE]]
    BY <1>0 DEF RecvReject, RecvRevoke, Forgotten, MetaGone, Closed
<1> QED BY <1>1, <1>2, <1>3, <1>4, <1>5, <1>6 DEF Becomes

LEMMA SealedLetters ==
    ASSUME WordsTyped, NEW d \in Devices, NEW kinds, kinds \subseteq Said
    PROVE  /\ Sealed(d, kinds) \subseteq Letters
           /\ \A m \in Sealed(d, kinds) :
                 /\ m.to = Other(d) /\ m.session = dev[d].session /\ m.session # None_
                 /\ m.kind \in kinds
           /\ \A k \in kinds : dev[d].session # None_ =>
                 \E m \in Sealed(d, kinds) : m.kind = k /\ m.to = Other(d) /\ m.session = dev[d].session
<1>1. dev[d].session \in Nat /\ Other(d) \in Devices
    BY DeviceTyped
<1>2. Sealed(d, kinds) = IF dev[d].session = None_ THEN {}
                         ELSE {Letter(Other(d), dev[d].session, k) : k \in kinds}
    BY DEF Sealed
<1>3. \A k \in kinds : Letter(Other(d), dev[d].session, k) \in Letters
    BY <1>1 DEF Letter, Letters
<1>4. \A k \in kinds : LET m == Letter(Other(d), dev[d].session, k)
                       IN  m.to = Other(d) /\ m.session = dev[d].session /\ m.kind = k
    BY DEF Letter
<1> QED BY <1>2, <1>3, <1>4

LEMMA Posting ==
    ASSUME WordsTyped, NEW d \in Devices, NEW evs \in Seq(EventKinds), Post(d, evs)
    PROVE  /\ events' \in [Devices -> Seq(EventKinds)]
           /\ events'[d] = events[d] \o evs /\ events'[Other(d)] = events[Other(d)]
<1> DEFINE K == Seq(EventKinds)
<1>1. events \in [Devices -> K] /\ Other(d) \in Devices /\ Other(d) # d /\ events[d] \o evs \in K
    BY Two, Joined DEF WordsTyped
<1> HIDE DEF K
<1>2. events' = [events EXCEPT ![d] = events[d] \o evs]
    BY DEF Post
<1>3. events' \in [Devices -> K] /\ events'[d] = events[d] \o evs /\ events'[Other(d)] = events[Other(d)]
    BY <1>1, <1>2
<1> QED BY <1>3 DEF K

\* What each action posts to the core of its device.
Posts(d, evs) == evs \in Seq(EventKinds) /\ Post(d, evs)

LEMMA PostSteps ==
    ASSUME WordsTyped
    PROVE  /\ \A d \in Devices : ReapWords(d) => Posts(d, <<"reset">>)
           /\ \A d \in Devices : LinkLost(d) => Posts(d, <<"lost">>)
           /\ \A m \in post : Respond(m) =>
                 events' = events \/ Posts(m.to, IF ~dev[m.to].trust THEN <<"started">> ELSE <<>>)
           /\ \A m \in post : Establish(m) =>
                 Posts(m.to, IF /\ dev[m.to].trust /\ dev[m.to].session = None_
                                /\ dev[m.to].dial = "gated"
                             THEN <<"started">> ELSE <<>>)
           /\ \A m \in post : RecvAccept(m) =>
                 Posts(m.to, IF InFlow(m.to) THEN <<"peer_ok">> ELSE <<>>)
           /\ \A m \in post : RecvVerify(m) =>
                 Posts(m.to, IF dev[m.to].trust /\ ~InFlow(m.to) THEN <<"started">> ELSE <<>>)
           /\ \A m \in post : RecvBye(m) => Posts(m.to, <<"lost">>)
           /\ \A m \in post : RecvReject(m) =>
                 \E q : Posts(m.to, q) /\ Settled(q, {"peer_ok"})
           /\ \A m \in post : RecvRevoke(m) =>
                 \E q : Posts(m.to, q) /\ Settled(q, {"peer_ok"})
<1>1. /\ <<>> \in Seq(EventKinds) /\ <<"started">> \in Seq(EventKinds)
      /\ <<"peer_ok">> \in Seq(EventKinds) /\ <<"lost">> \in Seq(EventKinds)
      /\ <<"reset">> \in Seq(EventKinds) /\ <<"peer_no">> \in Seq(EventKinds)
    BY Short DEF EventKinds, Resets
<1>2. \A q \in {<<>>, <<"peer_no">>, <<"reset">>} :
          q \o <<"lost">> \in Seq(EventKinds) /\ Settled(q \o <<"lost">>, {"peer_ok"})
  <2>1. \A q \in {<<>>, <<"peer_no">>, <<"reset">>, <<"lost">>} : Settled(q, {"peer_ok"})
      BY Short DEF EventKinds, Resets
  <2> QED BY <1>1, <2>1, Joined
<1>3. \A d \in Devices : ReapWords(d) => Posts(d, <<"reset">>)
    BY <1>1 DEF ReapWords, Posts
<1>4. \A d \in Devices : LinkLost(d) => Posts(d, <<"lost">>)
    BY <1>1 DEF LinkLost, Posts
<1>5. \A m \in post : Respond(m) =>
          events' = events \/ Posts(m.to, IF ~dev[m.to].trust THEN <<"started">> ELSE <<>>)
    BY <1>1 DEF Respond, Posts
<1>6. \A m \in post : Establish(m) =>
          Posts(m.to, IF dev[m.to].trust /\ dev[m.to].session = None_ /\ dev[m.to].dial = "gated"
                      THEN <<"started">> ELSE <<>>)
    BY <1>1 DEF Establish, Posts
<1>7. \A m \in post : RecvAccept(m) => Posts(m.to, IF InFlow(m.to) THEN <<"peer_ok">> ELSE <<>>)
    BY <1>1 DEF RecvAccept, Posts
<1>8. \A m \in post : RecvVerify(m) =>
          Posts(m.to, IF dev[m.to].trust /\ ~InFlow(m.to) THEN <<"started">> ELSE <<>>)
    BY <1>1 DEF RecvVerify, Posts
<1>9. \A m \in post : RecvBye(m) => Posts(m.to, <<"lost">>)
    BY <1>1 DEF RecvBye, Posts
<1>10. \A m \in post : RecvReject(m) => \E q : Posts(m.to, q) /\ Settled(q, {"peer_ok"})
  <2> SUFFICES ASSUME NEW m \in post, RecvReject(m) PROVE  \E q : Posts(m.to, q) /\ Settled(q, {"peer_ok"})
      OBVIOUS
  <2>1. PICK q \in {<<>>, <<"peer_no">>, <<"reset">>} : Post(m.to, q \o <<"lost">>)
      BY DEF RecvReject
  <2> QED BY <1>2, <2>1 DEF Posts
<1>11. \A m \in post : RecvRevoke(m) => \E q : Posts(m.to, q) /\ Settled(q, {"peer_ok"})
  <2> SUFFICES ASSUME NEW m \in post, RecvRevoke(m) PROVE  \E q : Posts(m.to, q) /\ Settled(q, {"peer_ok"})
      OBVIOUS
  <2>1. PICK q \in {<<>>, <<"peer_no">>, <<"reset">>} : Post(m.to, q \o <<"lost">>)
      BY DEF RecvRevoke
  <2> QED BY <1>2, <2>1 DEF Posts
<1> QED BY <1>3, <1>4, <1>5, <1>6, <1>7, <1>8, <1>9, <1>10, <1>11

LEMMA WordsType ==
    ASSUME WordsTyped, [WordsNext]_wordsVars
    PROVE  WordsTyped'
<1>0. /\ dev \in [Devices -> DeviceStates] /\ phase \in [Devices -> Phases]
      /\ events \in [Devices -> Seq(EventKinds)] /\ post \subseteq Letters
      /\ shakes \in Nat /\ mishaps \in Nat /\ accepted \in [Devices -> SUBSET Nat]
      /\ spoilt \in BOOLEAN
    BY DEF WordsTyped
<1>1. \A ph \in Phases : LocalConfirmed(ph) \in Phases /\ Lost(ph) \in Phases
    BY DEF Phases, Flow, LocalConfirmed, Lost
<1>2. Mishap => mishaps' \in Nat
    BY <1>0 DEF Mishap
<1>3. Spoils => mishaps' \in Nat /\ spoilt' \in BOOLEAN
    BY <1>2 DEF Spoils
<1>4. \A d \in Devices : \A kinds \in SUBSET Said : Sealed(d, kinds) \in SUBSET Letters
    BY SealedLetters
<1>5. CASE UNCHANGED wordsVars
    BY <1>0, <1>5 DEF WordsTyped, wordsVars
<1>6. ASSUME NEW d \in Devices, Scan(d) \/ Redial(d) \/ DialFails(d) \/ WindowCloses(d) PROVE  WordsTyped'
  <2>1. dev' \in [Devices -> DeviceStates]
      BY <1>6, ScanStep, DialSteps, Becoming
  <2>2. /\ phase' = phase /\ events' = events /\ accepted' = accepted /\ spoilt' = spoilt
        /\ mishaps' = mishaps \/ Mishap
        /\ \/ post' = post /\ shakes' = shakes
           \/ shakes' = shakes + 1 /\ post' = post \cup {Letter(Other(d), shakes + 1, "init")}
      BY <1>6 DEF Scan, Redial, DialFails, WindowCloses, Dialing
  <2>3. Letter(Other(d), shakes + 1, "init") \in Letters
      BY <1>0, DeviceTyped DEF Letter, Letters, Shaking
  <2>4. post' \subseteq Letters /\ shakes' \in Nat
      BY <1>0, <2>2, <2>3
  <2> QED BY <1>0, <1>2, <2>1, <2>2, <2>4 DEF WordsTyped
<1>7. ASSUME NEW d \in Devices, Greet(d) \/ Accept(d) PROVE  WordsTyped'
  <2>1. dev' \in [Devices -> DeviceStates]
      BY <1>7, AcceptStep, DialSteps, Becoming
  <2>2. post' \subseteq Letters
    <3>1. \E kinds \in SUBSET Said : post' \subseteq post \cup Sealed(d, kinds)
      <4>1. {"hello"} \in SUBSET Said /\ {"accept"} \in SUBSET Said
          BY DEF Said
      <4>2. post' \subseteq post \cup Sealed(d, {"hello"}) \/ post' \subseteq post \cup Sealed(d, {"accept"})
          BY <1>7 DEF Greet, Accept
      <4> QED BY <4>1, <4>2
    <3> QED BY <1>0, <1>4, <3>1
  <2>3. phase' \in [Devices -> Phases]
    <3>1. phase' = phase \/ phase' = [phase EXCEPT ![d] = LocalConfirmed(phase[d])]
        BY <1>7 DEF Greet, Accept
    <3> HIDE DEF LocalConfirmed, Phases
    <3> QED BY <1>0, <1>1, <3>1
  <2>4. accepted' \in [Devices -> SUBSET Nat]
    <3>1. accepted' = accepted \/ accepted' = [accepted EXCEPT ![d] = accepted[d] \cup {dev[d].pend}]
        BY <1>7 DEF Greet, Accept
    <3>2. accepted[d] \cup {dev[d].pend} \in SUBSET Nat
        BY <1>0, DeviceTyped
    <3> QED BY <1>0, <3>1, <3>2
  <2>5. mishaps' \in Nat
      BY <1>0, <1>3, <1>7 DEF Greet, Accept
  <2>6. spoilt' \in BOOLEAN
      BY <1>0, <1>3, <1>7 DEF Greet, Accept
  <2>7. events' = events /\ shakes' = shakes
      BY <1>7 DEF Greet, Accept
  <2> QED BY <1>0, <2>1, <2>2, <2>3, <2>4, <2>5, <2>6, <2>7 DEF WordsTyped
<1>8. ASSUME NEW d \in Devices, Reject(d) \/ Revoke(d) PROVE  WordsTyped'
  <2>1. dev' \in [Devices -> DeviceStates]
      BY <1>8, EndSteps, Becoming
  <2>2. post' \subseteq Letters
    <3>1. {"reject", "bye"} \in SUBSET Said /\ {"revoke"} \in SUBSET Said
        BY DEF Said
    <3>2. post' = post \cup Sealed(d, {"reject", "bye"}) \/ post' = post \cup Sealed(d, {"revoke"})
        BY <1>8 DEF Reject, Revoke
    <3> QED BY <1>0, <1>4, <3>1, <3>2
  <2>3. phase' \in [Devices -> Phases]
    <3>1. phase' = [phase EXCEPT ![d] = Lost(phase[d])]
        BY <1>8 DEF Reject, Revoke
    <3> HIDE DEF Lost, Phases
    <3> QED BY <1>0, <1>1, <3>1
  <2>4. mishaps' \in Nat
      BY <1>2, <1>8 DEF Reject, Revoke
  <2>5. events' = events /\ shakes' = shakes /\ accepted' = accepted /\ spoilt' = spoilt
      BY <1>8 DEF Reject, Revoke
  <2> QED BY <1>0, <2>1, <2>2, <2>3, <2>4, <2>5 DEF WordsTyped
<1>9. ASSUME NEW d \in Devices, ReapWords(d) \/ LinkLost(d) PROVE  WordsTyped'
  <2>1. dev' \in [Devices -> DeviceStates]
      BY <1>9, EndSteps, Becoming
  <2>2. events' \in [Devices -> Seq(EventKinds)]
      BY <1>9, PostSteps, Posting DEF Posts
  <2>3. mishaps' \in Nat
      BY <1>2, <1>9 DEF ReapWords, LinkLost
  <2>4. phase' = phase /\ post' = post /\ shakes' = shakes /\ accepted' = accepted /\ spoilt' = spoilt
      BY <1>9 DEF ReapWords, LinkLost
  <2> QED BY <1>0, <2>1, <2>2, <2>3, <2>4 DEF WordsTyped
<1>10. ASSUME NEW d \in Devices, SasEvent(d) PROVE  WordsTyped'
  <2> DEFINE K == Seq(EventKinds)
  <2>1. events[d] \in K /\ Tail(events[d]) \in K /\ Head(events[d]) \in EventKinds
      BY <1>0, <1>10, Taken DEF SasEvent
  <2>2. \A ph \in Phases, e \in EventKinds : PhaseAfter(e, ph) \in Phases
      BY DEF PhaseAfter, EventKinds, Resets, Phases, Flow, Lost
  <2>3. events' = [events EXCEPT ![d] = Tail(events[d])]
      BY <1>10 DEF SasEvent
  <2>4. phase' = [phase EXCEPT ![d] = PhaseAfter(Head(events[d]), phase[d])]
      BY <1>10 DEF SasEvent
  <2>5. dev' = dev /\ post' = post /\ shakes' = shakes /\ mishaps' = mishaps /\ accepted' = accepted
        /\ spoilt' = spoilt
      BY <1>10 DEF SasEvent
  <2>6. events \in [Devices -> K]
      BY <1>0
  <2> HIDE DEF K
  <2>7. events' \in [Devices -> K]
      BY <2>1, <2>3, <2>6
  <2>8. phase' \in [Devices -> Phases]
      BY <1>0, <2>1, <2>2, <2>4
  <2> QED BY <1>0, <2>5, <2>7, <2>8 DEF WordsTyped, K
<1>11. ASSUME NEW m \in post, Respond(m) \/ Establish(m) PROVE  WordsTyped'
  <2>0. m.to \in Devices /\ m.session \in Nat
      BY LetterTyped
  <2>1. dev' \in [Devices -> DeviceStates]
      BY <1>0, <1>11, <2>0, ShakeSteps, Becoming
  <2>2. events' \in [Devices -> Seq(EventKinds)]
    <3>1. Respond(m) => events' = events \/ \E q \in Seq(EventKinds) : Post(m.to, q)
        BY PostSteps DEF Posts
    <3>2. Establish(m) => \E q \in Seq(EventKinds) : Post(m.to, q)
        BY PostSteps DEF Posts
    <3> QED BY <1>0, <1>11, <2>0, <3>1, <3>2, Posting
  <2>3. post' \subseteq post \cup {Letter(Other(m.to), m.session, "resp")}
      BY <1>11 DEF Respond, Establish
  <2>4. Letter(Other(m.to), m.session, "resp") \in Letters
      BY <2>0, DeviceTyped DEF Letter, Letters, Shaking
  <2>5. /\ phase' = phase /\ shakes' = shakes /\ mishaps' = mishaps /\ accepted' = accepted
        /\ spoilt' = spoilt
      BY <1>11 DEF Respond, Establish
  <2> QED BY <1>0, <2>1, <2>2, <2>3, <2>4, <2>5 DEF WordsTyped
<1>12. ASSUME NEW m \in post,
              RecvHello(m) \/ RecvAccept(m) \/ RecvReject(m) \/ RecvRevoke(m) \/ RecvBye(m) \/ RecvVerify(m)
       PROVE  WordsTyped'
  <2>0. m.to \in Devices
      BY LetterTyped
  <2>1. dev' \in [Devices -> DeviceStates]
      BY <1>12, <2>0, RecvSteps, Becoming
  <2>2. events' \in [Devices -> Seq(EventKinds)]
    <3>1. CASE RecvHello(m)
        BY <1>0, <3>1 DEF RecvHello
    <3>2. CASE ~RecvHello(m)
      <4>1. PICK q \in Seq(EventKinds) : Post(m.to, q)
          BY <1>12, <3>2, PostSteps DEF Posts
      <4> QED BY <2>0, <4>1, Posting
    <3> QED BY <3>1, <3>2
  <2>3. \E kinds \in SUBSET Said : Take(m, kinds)
    <3>1. \A b, c \in BOOLEAN :
              ((IF b THEN {"accept"} ELSE {}) \cup (IF c THEN {"verify"} ELSE {})) \in SUBSET Said
        BY DEF Said
    <3>2. {} \in SUBSET Said /\ \A b \in BOOLEAN : (IF b THEN {"accept"} ELSE {}) \in SUBSET Said
        BY DEF Said
    <3>3. RecvHello(m) => \E b, c \in BOOLEAN :
              Take(m, (IF b THEN {"accept"} ELSE {}) \cup (IF c THEN {"verify"} ELSE {}))
      <4> DEFINE b == dev[m.to].deferred /\ dev[m.to].pend = None_
                 c == dev[m.to].pend # None_ /\ ~dev[m.to].announced
      <4>1. b \in BOOLEAN /\ c \in BOOLEAN
          OBVIOUS
      <4>2. RecvHello(m) => Take(m, (IF b THEN {"accept"} ELSE {}) \cup (IF c THEN {"verify"} ELSE {}))
          BY DEF RecvHello
      <4> HIDE DEF b, c
      <4> QED BY <4>1, <4>2
    <3>4. RecvAccept(m) => Take(m, {}) \/ Take(m, {"accept"})
        BY DEF RecvAccept
    <3>5. {"accept"} \in SUBSET Said
        BY DEF Said
    <3>6. RecvReject(m) \/ RecvRevoke(m) \/ RecvBye(m) \/ RecvVerify(m) => Take(m, {})
        BY DEF RecvReject, RecvRevoke, RecvBye, RecvVerify
    <3>7. CASE RecvHello(m)
        BY <3>1, <3>3, <3>7
    <3>8. CASE ~RecvHello(m)
        BY <1>12, <3>2, <3>4, <3>5, <3>6, <3>8
    <3> QED BY <3>7, <3>8
  <2>4. PICK kinds \in SUBSET Said : Take(m, kinds)
      BY <2>3
  <2>5. post' \subseteq Letters
      BY <1>0, <1>4, <2>0, <2>4 DEF Take
  <2>6. /\ phase' = phase /\ shakes' = shakes /\ mishaps' = mishaps /\ accepted' = accepted
        /\ spoilt' = spoilt
      BY <2>4 DEF Take
  <2> QED BY <1>0, <2>1, <2>2, <2>5, <2>6 DEF WordsTyped
<1>13. ASSUME NEW m \in post, LetterLost(m) \/ Unreadable_(m) PROVE  WordsTyped'
  <2>1. /\ post' \subseteq post /\ dev' = dev /\ phase' = phase /\ events' = events
        /\ shakes' = shakes /\ accepted' = accepted
      BY <1>13 DEF LetterLost, Unreadable_
  <2>2. mishaps' \in Nat
      BY <1>0, <1>3, <1>13 DEF LetterLost, Unreadable_
  <2>3. spoilt' \in BOOLEAN
      BY <1>0, <1>3, <1>13 DEF LetterLost, Unreadable_
  <2> QED BY <1>0, <2>1, <2>2, <2>3 DEF WordsTyped
<1> QED BY <1>5, <1>6, <1>7, <1>8, <1>9, <1>10, <1>11, <1>12, <1>13 DEF WordsNext

-----------------------------------------------------------------------------
\* The calm actions.

LEMMA Endings ==
    ASSUME WordsTyped, NEW d \in Devices,
           \/ Reject(d) \/ Revoke(d) \/ ReapWords(d) \/ LinkLost(d)
           \/ \E m \in post : m.to = d /\ (RecvReject(m) \/ RecvRevoke(m) \/ RecvBye(m))
    PROVE  Calm(d)
<1>0. Other(d) \in Devices /\ Other(d) # d /\ \A e \in Devices : e = d \/ e = Other(d)
    BY Two
<1>1. /\ dev'[Other(d)] = dev[Other(d)]
      /\ dev'[d].session = None_ /\ dev'[d].pend \in {dev[d].pend, None_}
      /\ (dev'[d].trust => dev[d].trust /\ dev'[d].pend = dev[d].pend)
      /\ (dev'[d].deferred => dev[d].deferred)
      /\ dev'[d].greeted = dev[d].greeted /\ dev'[d].dial = dev[d].dial
  <2>0. dev[d] \in DeviceStates
      BY DeviceTyped
  <2>1. CASE Reject(d) \/ Revoke(d) \/ ReapWords(d) \/ LinkLost(d)
    <3>1. /\ dev'[Other(d)] = dev[Other(d)]
          /\ \/ dev'[d] = [dev[d] EXCEPT !.session = None_, !.trust = FALSE, !.pend = None_,
                                         !.deferred = FALSE, !.hello = FALSE, !.announced = FALSE]
             \/ dev'[d] = [dev[d] EXCEPT !.session = None_, !.trust = FALSE, !.hello = FALSE,
                                         !.announced = FALSE]
             \/ dev'[d] = [dev[d] EXCEPT !.session = None_, !.trust = FALSE, !.pend = None_]
             \/ dev'[d] = [dev[d] EXCEPT !.session = None_]
      <4>1. \A r : Becomes(d, r) => dev'[d] = r /\ dev'[Other(d)] = dev[Other(d)]
          BY Becoming
      <4>2. CASE Reject(d)
          BY <4>1, <4>2, EndSteps
      <4>3. CASE Revoke(d)
          BY <4>1, <4>3, EndSteps
      <4>4. CASE ReapWords(d)
          BY <4>1, <4>4, EndSteps
      <4>5. CASE LinkLost(d)
          BY <4>1, <4>5, EndSteps
      <4> QED BY <2>1, <4>2, <4>3, <4>4, <4>5
    <3> QED BY <2>0, <3>1 DEF DeviceStates
  <2>2. ASSUME NEW m \in post, m.to = d, RecvReject(m) \/ RecvRevoke(m) \/ RecvBye(m)
        PROVE  /\ dev'[Other(d)] = dev[Other(d)]
               /\ \/ dev'[d] = [dev[d] EXCEPT !.session = None_, !.hello = FALSE, !.announced = FALSE,
                                              !.echoed = FALSE]
                  \/ dev'[d] = [dev[d] EXCEPT !.session = None_, !.trust = FALSE, !.pend = None_,
                                              !.deferred = FALSE, !.echoed = FALSE, !.hello = FALSE,
                                              !.announced = FALSE]
      BY <2>2, RecvSteps, Becoming
  <2> QED BY <2>0, <2>1, <2>2 DEF DeviceStates
<1>2. /\ Ends(d) /\ Stays(Other(d)) /\ dev'[Other(d)].greeted = dev[Other(d)].greeted
      /\ dev'[d].greeted = dev[d].greeted
      /\ \A e \in Devices : dev'[e].dial = dev[e].dial
    BY <1>0, <1>1 DEF Ends, Stays
<1>3. /\ events'[Other(d)] = events[Other(d)]
      /\ Settled(events[d], {"peer_ok"}) => Settled(events'[d], {"peer_ok"})
  <2>1. CASE events' = events
      BY <2>1
  <2>2. ASSUME NEW q, Posts(d, q), Settled(q, {"peer_ok"})
        PROVE  /\ events'[Other(d)] = events[Other(d)]
               /\ Settled(events[d], {"peer_ok"}) => Settled(events'[d], {"peer_ok"})
    <3>1. q \in Seq(EventKinds) /\ events[d] \in Seq(EventKinds)
        BY <2>2 DEF Posts, WordsTyped
    <3>2. events'[d] = events[d] \o q /\ events'[Other(d)] = events[Other(d)]
        BY <2>2, <3>1, Posting DEF Posts
    <3> QED BY <2>2, <3>1, <3>2, Joined
  <2>3. events' = events \/ \E q : Posts(d, q) /\ Settled(q, {"peer_ok"})
    <3>1. Settled(<<"lost">>, {"peer_ok"}) /\ Settled(<<"reset">>, {"peer_ok"})
        BY Short DEF EventKinds, Resets
    <3>2. CASE Reject(d) \/ Revoke(d)
        BY <3>2 DEF Reject, Revoke
    <3>3. CASE ReapWords(d) \/ LinkLost(d)
        BY <3>1, <3>3, PostSteps
    <3>4. CASE \E m \in post : m.to = d /\ (RecvReject(m) \/ RecvRevoke(m) \/ RecvBye(m))
        BY <3>1, <3>4, PostSteps
    <3> QED BY <3>2, <3>3, <3>4
  <2> QED BY <2>1, <2>2, <2>3
<1>4. /\ phase'[Other(d)] = phase[Other(d)] /\ phase'[d] \in {phase[d], Lost(phase[d])}
      /\ accepted' = accepted /\ shakes' = shakes /\ (spoilt => spoilt')
  <2>1. CASE Reject(d) \/ Revoke(d)
    <3>1. phase' = [phase EXCEPT ![d] = Lost(phase[d])] /\ spoilt' = spoilt
          /\ accepted' = accepted /\ shakes' = shakes
        BY <2>1 DEF Reject, Revoke
    <3> HIDE DEF Lost
    <3> QED BY <1>0, <3>1 DEF WordsTyped
  <2>2. CASE ReapWords(d) \/ LinkLost(d)
      BY <2>2 DEF ReapWords, LinkLost
  <2>3. CASE \E m \in post : m.to = d /\ (RecvReject(m) \/ RecvRevoke(m) \/ RecvBye(m))
      BY <2>3 DEF RecvReject, RecvRevoke, RecvBye, Take
  <2> QED BY <2>1, <2>2, <2>3
<1>5. \A m \in post' : m \notin post =>
          /\ m.to = Other(d) /\ m.session = dev[d].session /\ m.session # None_
          /\ m.kind \in Said \ {"accept"}
  <2>1. {"reject", "bye"} \subseteq Said \ {"accept"} /\ {"revoke"} \subseteq Said \ {"accept"}
        /\ {} \subseteq Said \ {"accept"} /\ Said \ {"accept"} \subseteq Said
      BY DEF Said
  <2>2. \E kinds \in SUBSET (Said \ {"accept"}) : post' \subseteq post \cup Sealed(d, kinds)
      BY <2>1 DEF Reject, Revoke, ReapWords, LinkLost, RecvReject, RecvRevoke, RecvBye, Take
  <2>3. PICK kinds \in SUBSET (Said \ {"accept"}) : post' \subseteq post \cup Sealed(d, kinds)
      BY <2>2
  <2>4. kinds \subseteq Said
      BY <2>1
  <2> QED BY <2>3, <2>4, SealedLetters
<1>6. \A m \in post \ post' : m.kind \in {"reject", "revoke", "bye"}
    BY DEF Reject, Revoke, ReapWords, LinkLost, RecvReject, RecvRevoke, RecvBye, Take, Reads
<1> QED BY <1>2, <1>3, <1>4, <1>5, <1>6 DEF Calm, Shaking

LEMMA Pauses ==
    ASSUME WordsTyped, OneShake, NEW d \in Devices,
           \/ Greet(d) \/ WindowCloses(d)
           \/ \E m \in post : m.to = d /\ (LetterLost(m) \/ Unreadable_(m))
           \/ \E m \in post : m.to = d /\ RecvVerify(m) /\ (~dev[d].trust \/ InFlow(d))
    PROVE  Calm(d)
<1>0. Other(d) \in Devices /\ Other(d) # d /\ \A e \in Devices : e = d \/ e = Other(d)
    BY Two
<1>a. dev[d] \in DeviceStates
    BY DeviceTyped
<1>1. CASE Greet(d)
  <2>1. dev'[d] = [dev[d] EXCEPT !.greeted = dev[d].session] /\ dev'[Other(d)] = dev[Other(d)]
      BY <1>1, DialSteps, Becoming
  <2>2. /\ dev[d].session # None_ /\ post' = post \cup Sealed(d, {"hello"}) /\ phase' = phase
        /\ events' = events /\ shakes' = shakes /\ accepted' = accepted /\ spoilt' = spoilt
      BY <1>1 DEF Greet
  <2>3. {"hello"} \subseteq Said \ {"accept"} /\ {"hello"} \subseteq Said
      BY DEF Said
  <2>4. /\ \A m \in Sealed(d, {"hello"}) :
              m.to = Other(d) /\ m.session = dev[d].session /\ m.kind \in Said \ {"accept"}
        /\ \E m \in Sealed(d, {"hello"}) :
              m.kind = "hello" /\ m.to = Other(d) /\ m.session = dev[d].session
      BY <2>2, <2>3, SealedLetters
  <2>5. Stays(d) /\ Stays(Other(d)) /\ Greets(d) /\ \A e \in Devices : dev'[e].dial = dev[e].dial
      BY <1>0, <1>a, <2>1, <2>2, <2>4 DEF Stays, Greets, DeviceStates
  <2> QED BY <2>1, <2>2, <2>4, <2>5 DEF Calm
<1>2. CASE WindowCloses(d)
  <2>1. dev'[d] = [dev[d] EXCEPT !.window = FALSE] /\ dev'[Other(d)] = dev[Other(d)]
      BY <1>2, DialSteps, Becoming
  <2>2. /\ post' = post /\ phase' = phase
        /\ events' = events /\ shakes' = shakes /\ accepted' = accepted /\ spoilt' = spoilt
      BY <1>2 DEF WindowCloses
  <2>3. Stays(d) /\ Stays(Other(d)) /\ dev'[d].greeted = dev[d].greeted
        /\ \A e \in Devices : dev'[e].dial = dev[e].dial
      BY <1>0, <1>a, <2>1 DEF Stays, DeviceStates
  <2> QED BY <2>1, <2>2, <2>3 DEF Calm
<1>3. ASSUME NEW m \in post, m.to = d, LetterLost(m) \/ Unreadable_(m) PROVE  Calm(d)
  <2>1. /\ post' = post \ {m} /\ dev' = dev /\ phase' = phase
        /\ events' = events /\ shakes' = shakes /\ accepted' = accepted
      BY <1>3 DEF LetterLost, Unreadable_
  <2>2. spoilt => spoilt'
      BY <1>3, Zenon DEF LetterLost, Unreadable_, Spoils
  <2>3. CASE LetterLost(m)
    <3>1. spoilt'
        BY <2>3 DEF LetterLost, Spoils
    <3> QED BY <2>1, <2>2, <3>1 DEF Calm, Stays
  <2>4. CASE Unreadable_(m)
    <3>1. m.kind = "resp" => dev[d].dial # "no"
        BY <1>3 DEF OneShake
    <3>2. m.kind \notin Shaking /\ m.session # dev[d].session
        BY <1>3, <2>4, <3>1 DEF Unreadable_, Shaking
    <3>3. ~spoilt' => dev[d].dial = "no"
        BY <1>3, <2>4 DEF Unreadable_, Spoils
    <3> QED BY <1>3, <2>1, <2>2, <3>2, <3>3 DEF Calm, Stays
  <2> QED BY <1>3, <2>3, <2>4
<1>4. ASSUME NEW m \in post, m.to = d, RecvVerify(m), ~dev[d].trust \/ InFlow(d) PROVE  Calm(d)
  <2>1. dev'[d] = [dev[d] EXCEPT !.pend = dev[d].pend] /\ dev'[Other(d)] = dev[Other(d)]
      BY <1>4, RecvSteps, Becoming
  <2>2. Posts(d, <<>>)
      BY <1>4, PostSteps
  <2>3. events'[d] = events[d] \o <<>> /\ events'[Other(d)] = events[Other(d)]
      BY <2>2, Posting DEF Posts
  <2>4. events[d] \o <<>> = events[d]
      BY ConcatEmptySeq DEF WordsTyped
  <2>5. /\ Take(m, {}) /\ m.kind = "verify"
      BY <1>4 DEF RecvVerify, Reads
  <2>6. Sealed(d, {}) = {}
      BY DEF Sealed
  <2>7. /\ post' = post \ {m} /\ phase' = phase /\ shakes' = shakes /\ accepted' = accepted
        /\ spoilt' = spoilt
      BY <1>4, <2>5, <2>6 DEF Take
  <2>8. Stays(d) /\ Stays(Other(d)) /\ dev'[d].greeted = dev[d].greeted
        /\ \A e \in Devices : dev'[e].dial = dev[e].dial
      BY <1>0, <1>a, <2>1 DEF Stays, DeviceStates
  <2> QED BY <2>1, <2>3, <2>4, <2>5, <2>7, <2>8 DEF Calm, Shaking
<1> QED BY <1>1, <1>2, <1>3, <1>4

-----------------------------------------------------------------------------
\* An event reaches a core.

LEMMA SasEventKeeps ==
    ASSUME WordsInv, WordsTyped', NEW d \in Devices, SasEvent(d)
    PROVE  WordsInv'
<1> DEFINE o == Other(d)
           q == events[d]
           t == Tail(q)
<1>0. o \in Devices /\ o # d /\ Other(o) = d /\ Other(d) = o /\ \A e \in Devices : e = d \/ e = o
    BY Two
<1>1. /\ WordsTyped /\ SessionsTrusted /\ OneShake /\ Dropped /\ Numbered /\ ColdIsSilent
      /\ GatedWaits /\ BareIsAlone /\ BareHearsNothing /\ LiveIsShown /\ AcceptedIsShown /\ Agreed
      /\ HelloDue /\ AcceptDue
    BY DEF WordsInv, ShakeInv, ColdInv, LiveInv
<1>2. /\ dev' = dev /\ post' = post /\ shakes' = shakes /\ accepted' = accepted /\ spoilt' = spoilt
      /\ q # <<>> /\ q \in Seq(EventKinds)
    BY <1>1 DEF SasEvent, WordsTyped
<1>3. events'[d] = t /\ events'[o] = events[o]
  <2> DEFINE K == Seq(EventKinds)
  <2>1. events \in [Devices -> K] /\ events' = [events EXCEPT ![d] = t]
      BY <1>1 DEF SasEvent, WordsTyped
  <2> HIDE DEF K, t
  <2> QED BY <1>0, <2>1
<1>4. phase'[d] = PhaseAfter(Head(q), phase[d]) /\ phase'[o] = phase[o] /\ phase[d] \in Phases
  <2>1. phase \in [Devices -> Phases] /\ phase' = [phase EXCEPT ![d] = PhaseAfter(Head(q), phase[d])]
      BY <1>1 DEF SasEvent, WordsTyped
  <2> HIDE DEF o, q
  <2> QED BY <1>0, <2>1
<1>5. /\ Head(q) \in EventKinds
      /\ \A bad : Settled(q, bad) => Settled(t, bad) /\ Head(q) \notin bad
      /\ \A k, bad : After(q, k, bad) => (Head(q) = k /\ Settled(t, bad)) \/ After(t, k, bad)
    BY <1>2, Taken
<1> HIDE DEF o, t
<1>6. ShakeInv'
    BY <1>1, <1>2 DEF ShakeInv, SessionsTrusted, OneShake, Dropped, Opening, Numbered, Unused
<1>7. ColdInv'
  <2>1. ASSUME phase[d] \notin {"local_confirmed", "confirmed"}
        PROVE  phase'[d] \notin {"local_confirmed", "confirmed"}
      BY <1>4, <1>5, <2>1 DEF PhaseAfter, EventKinds, Resets, Lost
  <2>2. ASSUME phase[d] \notin {"peer_confirmed", "confirmed"}, Settled(q, {"peer_ok"})
        PROVE  phase'[d] \notin {"peer_confirmed", "confirmed"} /\ Settled(t, {"peer_ok"})
    <3>1. Head(q) # "peer_ok" /\ Settled(t, {"peer_ok"})
        BY <1>5, <2>2
    <3> QED BY <1>4, <1>5, <2>2, <3>1 DEF PhaseAfter, EventKinds, Resets, Lost
  <2>3. ColdIsSilent'
    <3> SUFFICES ASSUME NEW e \in Devices, Cold(e)
                 PROVE  /\ ~dev[e].deferred /\ phase'[e] \notin {"local_confirmed", "confirmed"}
                        /\ ~spoilt =>
                              /\ phase'[Other(e)] \notin {"peer_confirmed", "confirmed"}
                              /\ Settled(events'[Other(e)], {"peer_ok"})
                              /\ \A m \in post : m.kind = "accept" => m.to = e
        BY <1>2 DEF ColdIsSilent, Cold
    <3> QED BY <1>0, <1>1, <1>3, <1>4, <2>1, <2>2 DEF ColdIsSilent
  <2> QED BY <1>1, <1>2, <2>3 DEF ColdInv, GatedWaits, BareIsAlone, BareHearsNothing, Cold, Bare, Reach
<1>8. LiveInv'
  <2>1. LiveIsShown'
    <3>1. ASSUME Shown(d) PROVE  Shown(d)'
      <4>1. CASE After(q, "started", Resets)
        <5>1. CASE Head(q) = "started" /\ Settled(t, Resets)
            BY <1>3, <1>4, <5>1 DEF Shown, PhaseAfter, Flow
        <5>2. CASE After(t, "started", Resets)
            BY <1>3, <5>2 DEF Shown
        <5> QED BY <1>5, <4>1, <5>1, <5>2
      <4>2. CASE phase[d] \in Flow /\ Settled(q, Resets)
        <5>1. Head(q) \in {"started", "peer_ok"} /\ Settled(t, Resets)
            BY <1>5, <4>2 DEF EventKinds
        <5>2. phase'[d] \in Flow
            BY <1>4, <4>2, <5>1 DEF PhaseAfter, Flow
        <5> QED BY <1>3, <5>1, <5>2 DEF Shown
      <4> QED BY <3>1, <4>1, <4>2 DEF Shown
    <3>2. Shown(o) => Shown(o)'
        BY <1>3, <1>4 DEF Shown
    <3>3. \A e \in Devices : Live(e)' => Live(e)
        BY <1>2 DEF Live
    <3> QED BY <1>0, <1>1, <3>1, <3>2, <3>3 DEF LiveIsShown
  <2>2. AcceptedIsShown'
    <3>1. ASSUME phase[d] \in {"local_confirmed", "confirmed"}, Settled(q, Resets \cup {"started"})
          PROVE  phase'[d] \in {"local_confirmed", "confirmed"} /\ Settled(t, Resets \cup {"started"})
      <4>1. Head(q) = "peer_ok" /\ Settled(t, Resets \cup {"started"})
          BY <1>5, <3>1 DEF EventKinds
      <4> QED BY <1>4, <3>1, <4>1 DEF PhaseAfter
    <3> SUFFICES ASSUME NEW e \in Devices, dev[e].session \in accepted[e]
                 PROVE  /\ dev[e].pend = None_ /\ phase'[e] \in {"local_confirmed", "confirmed"}
                        /\ Settled(events'[e], Resets \cup {"started"})
        BY <1>2 DEF AcceptedIsShown
    <3> QED BY <1>0, <1>1, <1>3, <1>4, <3>1 DEF AcceptedIsShown
  <2>3. Agreed' /\ HelloDue'
      BY <1>1, <1>2 DEF Agreed, HelloDue, Hello, Live
  <2>4. AcceptDue'
    <3>1. ASSUME Told(d), Shown(d) PROVE  Told(d)'
      <4> DEFINE bad == Resets \cup {"started"}
      <4>1. CASE After(q, "peer_ok", bad)
        <5>1. CASE Head(q) = "peer_ok" /\ Settled(t, bad)
          <6>1. ~After(t, "started", Resets)
              BY <5>1 DEF After, Settled
          <6>2. ~After(q, "started", Resets)
              BY <1>5, <5>1, <6>1
          <6>3. phase[d] \in Flow
              BY <3>1, <6>2 DEF Shown
          <6>4. phase'[d] \in {"peer_confirmed", "confirmed"}
              BY <1>4, <5>1, <6>3 DEF PhaseAfter, Flow
          <6> QED BY <1>3, <5>1, <6>4 DEF Told
        <5>2. CASE After(t, "peer_ok", bad)
            BY <1>3, <5>2 DEF Told
        <5> QED BY <1>5, <4>1, <5>1, <5>2
      <4>2. CASE phase[d] \in {"peer_confirmed", "confirmed"} /\ Settled(q, bad)
        <5>1. Head(q) = "peer_ok" /\ Settled(t, bad)
            BY <1>5, <4>2 DEF EventKinds
        <5> QED BY <1>3, <1>4, <4>2, <5>1 DEF PhaseAfter, Told
      <4> QED BY <3>1, <4>1, <4>2 DEF Told
    <3>2. Told(o) => Told(o)'
        BY <1>3, <1>4 DEF Told
    <3> SUFFICES ASSUME ~spoilt, NEW e \in Devices, NEW s, s = dev[e].session, s # None_,
                        dev[Other(e)].session = s, s \in accepted[Other(e)]
                 PROVE  \/ Told(e)'
                        \/ \E m \in post : m.kind = "accept" /\ m.to = e /\ m.session = s
                        \/ dev[Other(e)].deferred /\ (Hello(Other(e), s) \/ dev[e].greeted # s)
        BY <1>2 DEF AcceptDue, Hello
    <3>3. Shown(e)
        BY <1>1 DEF Agreed, LiveIsShown
    <3>4. Told(e) => Told(e)'
        BY <1>0, <3>1, <3>2, <3>3
    <3> QED BY <1>1, <3>4 DEF AcceptDue
  <2> QED BY <2>1, <2>2, <2>3, <2>4 DEF LiveInv
<1> QED BY <1>6, <1>7, <1>8 DEF WordsInv

-----------------------------------------------------------------------------
\* Dialling: no session and no words change.

Dials ==
    /\ \A e \in Devices :
          /\ dev'[e].pend = dev[e].pend /\ dev'[e].session = dev[e].session
          /\ dev'[e].hello = dev[e].hello /\ dev'[e].deferred = dev[e].deferred
          /\ dev'[e].greeted = dev[e].greeted
    /\ events' = events /\ phase' = phase /\ accepted' = accepted /\ spoilt' = spoilt
    /\ \A m \in post : m.kind \in Said => m \in post'
    /\ \A m \in post' : m.kind # "init" => m \in post

LEMMA DialsLive ==
    ASSUME WordsInv, Dials
    PROVE  LiveInv'
<1>1. LiveIsShown /\ AcceptedIsShown /\ Agreed /\ HelloDue /\ AcceptDue
    BY DEF WordsInv, LiveInv
<1>2. \A e \in Devices : Other(e) \in Devices
    BY Two
<1>3. \A e \in Devices : /\ Live(e)' <=> Live(e)
                         /\ Shown(e)' <=> Shown(e)
                         /\ Told(e)' <=> Told(e)
    BY DEF Dials, Live, Shown, Told
<1>4. \A e \in Devices : \A s : Hello(e, s) => \E m \in post' : m.kind = "hello" /\ m.to = e /\ m.session = s
    BY DEF Dials, Hello, Said
<1>5. LiveIsShown' /\ AcceptedIsShown'
    BY <1>1, <1>3 DEF LiveIsShown, AcceptedIsShown, Dials
<1>6. Agreed'
    BY <1>1, <1>2, <1>3 DEF Agreed, Dials
<1>7. HelloDue'
  <2> SUFFICES ASSUME ~spoilt, NEW e \in Devices
               PROVE  /\ /\ dev[e].session # None_ /\ dev[Other(e)].session = dev[e].session
                         /\ ~dev[e].hello
                         => Hello(e, dev[e].session)' \/ dev[Other(e)].greeted # dev[e].session
                      /\ \A m \in post' :
                            m.kind = "resp" /\ m.to = e /\ dev[Other(e)].greeted = m.session
                                => Hello(e, m.session)'
      BY <1>2 DEF HelloDue, Dials
  <2>1. dev[e].session # None_ /\ dev[Other(e)].session = dev[e].session /\ ~dev[e].hello
             => Hello(e, dev[e].session) \/ dev[Other(e)].greeted # dev[e].session
      BY <1>1 DEF HelloDue
  <2>2. Hello(e, dev[e].session) => Hello(e, dev[e].session)'
      BY <1>4 DEF Hello, Dials
  <2>3. ASSUME NEW m \in post', m.kind = "resp", m.to = e, dev[Other(e)].greeted = m.session
        PROVE  Hello(e, m.session)'
    <3>1. m \in post
        BY <2>3 DEF Dials
    <3>2. Hello(e, m.session)
        BY <1>1, <2>3, <3>1 DEF HelloDue
    <3> QED BY <1>4, <3>2 DEF Hello
  <2> QED BY <2>1, <2>2, <2>3
<1>8. AcceptDue'
  <2> SUFFICES ASSUME ~spoilt, NEW e \in Devices, NEW s, s = dev[e].session, s # None_,
                      dev[Other(e)].session = s, s \in accepted[Other(e)]
               PROVE  \/ Told(e)'
                      \/ \E m \in post' : m.kind = "accept" /\ m.to = e /\ m.session = s
                      \/ /\ dev[Other(e)].deferred
                         /\ \/ \E m \in post' : m.kind = "hello" /\ m.to = Other(e) /\ m.session = s
                            \/ dev[e].greeted # s
      BY <1>2 DEF AcceptDue, Hello, Dials
  <2>1. \/ Told(e)
        \/ \E m \in post : m.kind = "accept" /\ m.to = e /\ m.session = s
        \/ dev[Other(e)].deferred /\ (Hello(Other(e), s) \/ dev[e].greeted # s)
      BY <1>1 DEF AcceptDue
  <2>2. ASSUME NEW m \in post, m.kind = "accept" PROVE  m \in post'
      BY <2>2 DEF Dials, Said
  <2> QED BY <1>2, <1>3, <1>4, <2>1, <2>2
<1> QED BY <1>5, <1>6, <1>7, <1>8 DEF LiveInv

LEMMA DialKeeps ==
    ASSUME WordsInv, WordsTyped', NEW d \in Devices, Scan(d) \/ Redial(d)
    PROVE  WordsInv'
<1> DEFINE o == Other(d)
           s == shakes + 1
           n == Letter(o, s, "init")
<1>0. o \in Devices /\ o # d /\ Other(o) = d /\ Other(d) = o /\ \A e \in Devices : e = d \/ e = o
    BY Two
<1>1. /\ WordsTyped /\ SessionsTrusted /\ OneShake /\ Numbered /\ ColdIsSilent
      /\ GatedWaits /\ BareIsAlone /\ BareHearsNothing
    BY DEF WordsInv, ShakeInv, ColdInv
<1>2. /\ shakes' = s /\ post' = post \cup {n} /\ phase' = phase /\ events' = events
      /\ accepted' = accepted /\ spoilt' = spoilt /\ \A e \in Devices : dev[e].dial = "no"
    BY DEF Scan, Redial, Dialing
<1>3. n.to = o /\ n.session = s /\ n.kind = "init" /\ shakes \in Nat /\ s \in Nat /\ s > shakes
    BY <1>1 DEF Letter, WordsTyped
<1> HIDE DEF n, o
<1>4. /\ \A e \in Devices :
            /\ dev'[e].pend = dev[e].pend /\ dev'[e].session = dev[e].session
            /\ dev'[e].hello = dev[e].hello /\ dev'[e].deferred = dev[e].deferred
            /\ dev'[e].greeted = dev[e].greeted
      /\ dev'[o].dial = "no" /\ dev'[o].trust = dev[o].trust
      /\ dev'[d].trust \in {dev[d].trust, TRUE}
      /\ \/ dev'[d].dial = "plain" /\ dev'[d].trust = dev[d].trust
         \/ /\ dev'[d].dial = "gated"
            /\ ~dev[d].trust \/ dev[d].pend # None_
  <2>1. CASE Scan(d)
    <3> DEFINE x == IF dev[d].trust /\ dev[d].pend = None_ THEN "plain" ELSE "gated"
    <3>1. /\ dev'[d] = [dev[d] EXCEPT !.trust = TRUE, !.dial = x]
          /\ dev'[o] = [dev[o] EXCEPT !.window = TRUE]
        BY <1>1, <2>1, ScanStep DEF o
    <3>2. \/ x = "plain" /\ dev[d].trust = TRUE
          \/ x = "gated" /\ (~dev[d].trust \/ dev[d].pend # None_)
      <4>1. dev[d].trust \in BOOLEAN
          BY <1>1, DeviceTyped
      <4> QED BY <4>1
    <3> HIDE DEF x
    <3>3. dev[d] \in DeviceStates /\ dev[o] \in DeviceStates
        BY <1>0, <1>1, DeviceTyped
    <3>4. /\ dev'[d].pend = dev[d].pend /\ dev'[d].session = dev[d].session
          /\ dev'[d].hello = dev[d].hello /\ dev'[d].deferred = dev[d].deferred
          /\ dev'[d].greeted = dev[d].greeted /\ dev'[d].trust = TRUE /\ dev'[d].dial = x
        BY <3>1, <3>3 DEF DeviceStates
    <3>5. /\ dev'[o].pend = dev[o].pend /\ dev'[o].session = dev[o].session
          /\ dev'[o].hello = dev[o].hello /\ dev'[o].deferred = dev[o].deferred
          /\ dev'[o].greeted = dev[o].greeted /\ dev'[o].trust = dev[o].trust
          /\ dev'[o].dial = dev[o].dial
        BY <3>1, <3>3 DEF DeviceStates
    <3>6. x = "plain" => dev'[d].trust = dev[d].trust
        BY <3>2, <3>4, <3>3 DEF DeviceStates
    <3> QED BY <1>0, <1>2, <3>2, <3>4, <3>5, <3>6
  <2>2. CASE Redial(d)
    <3>1. dev'[d] = [dev[d] EXCEPT !.dial = "plain"] /\ dev'[o] = dev[o]
        BY <1>1, <2>2, DialSteps, Becoming DEF o
    <3> QED BY <1>0, <1>1, <1>2, <3>1, DeviceTyped DEF DeviceStates
  <2> QED BY <2>1, <2>2
<1>5. \A m \in post : m.kind \notin Shaking /\ m.session < s /\ m.session # s /\ m.session # None_
  <2>1. \A m \in post : m.kind \notin Shaking
      BY <1>1, <1>2, LetterTyped, Two DEF OneShake, Shaking
  <2>2. \A m \in post : m.session \in 1 .. shakes
      BY <1>1 DEF Numbered
  <2> QED BY <1>3, <2>1, <2>2 DEF None_
<1>6. ShakeInv'
  <2>1. SessionsTrusted'
      BY <1>0, <1>1, <1>4 DEF SessionsTrusted
  <2>2. OneShake'
      BY <1>0, <1>2, <1>3, <1>4, <1>5 DEF OneShake, Shaking
  <2>3. Opening'
      BY <1>2, <1>3 DEF Opening, Shaking
  <2>4. Dropped'
      BY <2>3 DEF Dropped
  <2>5. Numbered'
    <3>1. \A e \in Devices :
            /\ dev'[e].session <= s /\ dev'[e].pend <= s /\ dev'[e].greeted <= s
            /\ accepted[e] \subseteq 1 .. s
      <4>1. \A e \in Devices : dev[e].session \in Nat /\ dev[e].pend \in Nat /\ dev[e].greeted \in Nat
          BY <1>1, DeviceTyped
      <4> QED BY <1>1, <1>3, <1>4, <4>1 DEF Numbered
    <3>2. \A e \in Devices : \A x : x = s => Unused(e, x)'
      <4>1. \A e \in Devices :
              /\ dev[e].session # s /\ dev[e].pend # s /\ dev[e].greeted # s
              /\ s \notin accepted[e]
          BY <1>1, <1>3 DEF Numbered
      <4> QED BY <1>2, <1>4, <4>1 DEF Unused
    <3>3. \A m \in post' : m.session \in 1 .. s
        BY <1>1, <1>2, <1>3 DEF Numbered
    <3>4. \A m \in post' : m.kind \in Shaking => m = n
        BY <1>2, <1>5
    <3>5. \A m \in post' : m = n \/ m.session # s
        BY <1>2, <1>5
    <3>6. \A m \in post' : m.kind # "resp"
        BY <1>3, <3>4 DEF Shaking
    <3>7. \A m \in post' : m.kind = "init" =>
              (\A e \in Devices : Unused(e, m.session)') /\ \A k \in post' : k = m \/ k.session # m.session
        BY <1>3, <3>2, <3>4, <3>5 DEF Shaking
    <3> QED BY <1>2, <3>1, <3>3, <3>6, <3>7 DEF Numbered
  <2> QED BY <2>1, <2>2, <2>4, <2>5 DEF ShakeInv
<1>7. ColdInv'
  <2>1. \A e \in Devices : Cold(e)' <=> Cold(e)
      BY <1>2 DEF Cold
  <2>2. Bare(o)' <=> Bare(o)
      BY <1>0, <1>4 DEF Bare
  <2>3. ColdIsSilent'
    <3>1. \A e \in Devices : Other(e) \in Devices
        BY Two
    <3>2. \A m \in post' : m.kind = "accept" => m \in post
        BY <1>2, <1>3
    <3> QED BY <1>1, <1>2, <1>4, <2>1, <3>1, <3>2 DEF ColdIsSilent
  <2>4. dev'[d].dial = "gated" /\ Bare(d)' => dev'[d].session = None_ /\ ~dev[d].trust
      BY <1>1, <1>4 DEF Bare, SessionsTrusted
  <2>5. GatedWaits'
      BY <1>0, <1>4, <2>4 DEF GatedWaits
  <2>6. dev'[d].dial = "plain" => (Bare(d)' <=> Bare(d))
      BY <1>4 DEF Bare
  <2>7. BareIsAlone'
    <3> SUFFICES ASSUME ~spoilt, NEW e \in Devices, Cold(e), Bare(e)', dev'[e].dial # "gated"
                 PROVE  \/ ~Bare(Other(e))'
                        \/ dev'[Other(e)].dial = "gated" /\ dev'[Other(e)].session = None_
        BY <1>2, <2>1 DEF BareIsAlone
    <3>1. CASE e = d
        BY <1>0, <1>1, <1>2, <1>4, <2>2, <2>6, <3>1 DEF BareIsAlone
    <3>2. CASE e = o
      <4>1. ~Bare(d)
          BY <1>0, <1>1, <1>2, <2>2, <3>2 DEF BareIsAlone
      <4> QED BY <1>0, <1>4, <2>4, <2>6, <3>2, <4>1
    <3> QED BY <1>0, <3>1, <3>2
  <2>8. BareHearsNothing'
    <3> SUFFICES ASSUME ~spoilt, NEW e \in Devices, Cold(e), Bare(e)',
                        NEW m \in post', m.kind = "accept", m.to = e
                 PROVE  ~Reach(e, m.session)'
        BY <1>2, <2>1 DEF BareHearsNothing
    <3>1. m \in post /\ m.session # s /\ m.session # None_
        BY <1>2, <1>3, <1>5
    <3>2. \A k \in post' : k.kind \in Shaking => k.session # m.session
        BY <1>2, <1>3, <1>5, <3>1
    <3>3. dev[e].session # m.session
      <4>1. CASE Bare(e)
          BY <1>1, <3>1, <4>1 DEF BareHearsNothing, Reach
      <4>2. CASE ~Bare(e)
          BY <1>0, <1>1, <1>4, <2>2, <2>4, <2>6, <3>1, <4>2
      <4> QED BY <4>1, <4>2
    <3> QED BY <1>4, <3>2, <3>3 DEF Reach
  <2> QED BY <2>3, <2>5, <2>7, <2>8 DEF ColdInv
<1>8. Dials
    BY <1>2, <1>3, <1>4 DEF Dials
<1> QED BY <1>6, <1>7, <1>8, DialsLive DEF WordsInv

LEMMA DialFailsKeeps ==
    ASSUME WordsInv, WordsTyped', NEW d \in Devices, DialFails(d)
    PROVE  WordsInv'
<1> DEFINE o == Other(d)
<1>0. o \in Devices /\ o # d /\ Other(o) = d /\ Other(d) = o /\ \A e \in Devices : e = d \/ e = o
    BY Two
<1>1. /\ WordsTyped /\ SessionsTrusted /\ OneShake /\ Dropped /\ Numbered /\ ColdIsSilent
      /\ GatedWaits /\ BareIsAlone /\ BareHearsNothing
    BY DEF WordsInv, ShakeInv, ColdInv
<1>2. /\ shakes' = shakes /\ post' = post /\ phase' = phase /\ events' = events
      /\ accepted' = accepted /\ spoilt' = spoilt /\ dev[d].dial # "no" /\ ~Opening
    BY DEF DialFails, Opening, Shaking
<1> HIDE DEF o
<1>3. dev'[d] = [dev[d] EXCEPT !.dial = "no"] /\ dev'[o] = dev[o]
    BY <1>1, DialSteps, Becoming DEF o
<1>4. /\ \A e \in Devices :
            /\ dev'[e].pend = dev[e].pend /\ dev'[e].session = dev[e].session
            /\ dev'[e].hello = dev[e].hello /\ dev'[e].deferred = dev[e].deferred
            /\ dev'[e].greeted = dev[e].greeted /\ dev'[e].trust = dev[e].trust
      /\ \A e \in Devices : dev'[e].dial = "no"
  <2>1. dev[o].dial = "no"
      BY <1>0, <1>1, <1>2 DEF OneShake
  <2> QED BY <1>0, <1>1, <1>3, <2>1, DeviceTyped DEF DeviceStates
<1>5. ShakeInv'
  <2>1. SessionsTrusted' /\ Dropped' /\ OneShake'
      BY <1>1, <1>2, <1>4 DEF SessionsTrusted, Dropped, OneShake, Opening, Shaking
  <2>2. Numbered'
      BY <1>1, <1>2, <1>4 DEF Numbered, Opening, Shaking
  <2> QED BY <2>1, <2>2 DEF ShakeInv
<1>6. ColdInv'
  <2>1. \A e \in Devices : (Cold(e)' <=> Cold(e)) /\ (Bare(e)' <=> Bare(e)) /\ Other(e) \in Devices
      BY <1>2, <1>4, Two DEF Cold, Bare
  <2>2. ColdIsSilent'
      BY <1>1, <1>2, <1>4, <2>1 DEF ColdIsSilent
  <2>3. GatedWaits'
      BY <1>4 DEF GatedWaits
  <2>4. BareIsAlone'
    <3> SUFFICES ASSUME ~spoilt, NEW e \in Devices, Cold(e), Bare(e) PROVE  ~Bare(Other(e))
        BY <1>2, <2>1 DEF BareIsAlone
    <3>1. ~dev[o].trust
        BY <1>1, <1>2 DEF Dropped, o
    <3> QED BY <1>0, <3>1 DEF Bare
  <2>5. BareHearsNothing'
      BY <1>1, <1>2, <1>4, <2>1 DEF BareHearsNothing, Reach
  <2> QED BY <2>2, <2>3, <2>4, <2>5 DEF ColdInv
<1>7. Dials
    BY <1>2, <1>4 DEF Dials
<1> QED BY <1>5, <1>6, <1>7, DialsLive DEF WordsInv

-----------------------------------------------------------------------------
\* The handshake is answered.

LEMMA RespondKeeps ==
    ASSUME WordsInv, WordsTyped', NEW m \in post, Respond(m)
    PROVE  WordsInv'
<1> DEFINE d == m.to
           o == Other(d)
           s == m.session
           n == Letter(o, s, "resp")
<1>0. /\ o \in Devices /\ o # d /\ Other(o) = d /\ Other(d) = o /\ d \in Devices /\ m.to = d
      /\ \A e \in Devices : e = d \/ e = o
  <2>1. m.to \in Devices
      BY LetterTyped DEF WordsInv, ShakeInv
  <2> QED BY <2>1, Two
<1>1. /\ WordsTyped /\ SessionsTrusted /\ OneShake /\ Dropped /\ Numbered /\ ColdIsSilent
      /\ GatedWaits /\ BareIsAlone /\ BareHearsNothing
      /\ LiveIsShown /\ AcceptedIsShown /\ Agreed /\ HelloDue /\ AcceptDue
    BY DEF WordsInv, ShakeInv, ColdInv, LiveInv
<1>2. /\ m.kind = "init" /\ phase' = phase /\ shakes' = shakes /\ accepted' = accepted /\ spoilt' = spoilt
    BY DEF Respond
<1>3. /\ \A e \in Devices : Unused(e, s)
      /\ \A k \in post : k = m \/ k.session # s
      /\ \A k \in post : k.kind \in Shaking => k = m
      /\ dev[o].dial # "no" /\ dev[d].dial = "no" /\ s \in 1 .. shakes /\ s # None_ /\ s = shakes
      /\ \A k \in post : k.session # None_
    BY <1>0, <1>1, <1>2 DEF Numbered, OneShake, Shaking, None_
<1>4. CASE /\ ~dev[d].trust /\ dev' = dev /\ events' = events
           /\ post' = post \ {m}
  <2>1. ShakeInv'
    <3>0. \A k \in post' : k \in post
        BY <1>4
    <3>1. SessionsTrusted' /\ OneShake'
        BY <1>1, <1>2, <1>4, <3>0 DEF SessionsTrusted, OneShake
    <3>2. Dropped'
      <4>1. \A e \in Devices : dev[e].dial # "no" => Other(e) = d
          BY <1>0, <1>3
      <4> QED BY <1>2, <1>4, <4>1 DEF Dropped
    <3>3. Numbered'
        BY <1>1, <1>2, <1>4 DEF Numbered, Unused
    <3> QED BY <3>1, <3>2, <3>3 DEF ShakeInv
  <2>2. ColdInv'
    <3>1. ColdIsSilent' /\ GatedWaits' /\ BareIsAlone'
        BY <1>1, <1>2, <1>4 DEF ColdIsSilent, GatedWaits, BareIsAlone, Cold, Bare
    <3>2. BareHearsNothing'
        BY <1>1, <1>2, <1>4 DEF BareHearsNothing, Cold, Bare, Reach
    <3> QED BY <3>1, <3>2 DEF ColdInv
  <2>3. Dials
      BY <1>2, <1>4 DEF Dials, Said
  <2> QED BY <2>1, <2>2, <2>3, DialsLive DEF WordsInv
<1>5. CASE /\ dev' = [dev EXCEPT ![d].trust = TRUE, ![d].session = s,
                                 ![d].pend = IF ~dev[d].trust THEN s ELSE dev[d].pend]
           /\ Post(d, IF ~dev[d].trust THEN <<"started">> ELSE <<>>)
           /\ post' = (post \ {m}) \cup {n}
  <2> DEFINE evs == IF ~dev[d].trust THEN <<"started">> ELSE <<>>
  <2>1. /\ dev'[d].trust = TRUE /\ dev'[d].session = s /\ dev'[d].hello = dev[d].hello
        /\ dev'[d].deferred = dev[d].deferred /\ dev'[d].greeted = dev[d].greeted
        /\ dev'[d].dial = dev[d].dial
        /\ \/ ~dev[d].trust /\ dev'[d].pend = s
           \/ dev[d].trust /\ dev'[d].pend = dev[d].pend
        /\ dev'[o] = dev[o]
    <3>1. dev \in [Devices -> DeviceStates]
        BY <1>1 DEF WordsTyped
    <3> QED BY <1>0, <1>5, <3>1 DEF DeviceStates
  <2>2. /\ evs \in Seq(EventKinds) /\ Settled(evs, {"peer_ok"}) /\ events[d] \in Seq(EventKinds)
        /\ ~dev[d].trust => After(evs, "started", Resets)
      BY <1>0, <1>1, Short DEF EventKinds, Resets, WordsTyped
  <2>3. events'[d] = events[d] \o evs /\ events'[o] = events[o]
      BY <1>0, <1>1, <1>5, <2>2, Posting
  <2> HIDE DEF evs
  <2>4. n.to = o /\ n.session = s /\ n.kind = "resp"
      BY DEF Letter
  <2> HIDE DEF n, o, d, s
  <2>5. \A k \in post' : k = n \/ (k \in post /\ k.kind \notin Shaking /\ k.session # s)
      BY <1>3, <1>5
  <2>6. \A k \in post : k.kind \notin Shaking => k \in post'
      BY <1>2, <1>5 DEF Shaking
  <2>7. n \in post' /\ \A k \in post' : k.kind \in Shaking => k = n
      BY <1>5, <2>5
  <2>8. ShakeInv'
    <3>1. SessionsTrusted'
        BY <1>0, <1>1, <2>1 DEF SessionsTrusted
    <3>2. OneShake'
      <4>1. \A e \in Devices : dev'[e].dial = dev[e].dial
          BY <1>0, <2>1
      <4>2. \A k \in post' : k.kind \in Shaking => k = n /\ k.kind # "init" /\ k.to = o /\ k.session = shakes
          BY <1>3, <2>4, <2>7
      <4> QED BY <1>0, <1>1, <1>2, <1>3, <4>1, <4>2 DEF OneShake, Shaking
    <3>3. Dropped'
        BY <2>4, <2>7 DEF Dropped, Opening, Shaking
    <3>4. Numbered'
      <4>1. \A e \in Devices :
              /\ dev'[e].session <= shakes /\ dev'[e].pend <= shakes /\ dev'[e].greeted <= shakes
              /\ accepted[e] \subseteq 1 .. shakes
        <5>1. s <= shakes
            BY <1>3
        <5> QED BY <1>0, <1>1, <2>1, <5>1 DEF Numbered
      <4>2. \A k \in post' : k.session \in 1 .. shakes
          BY <1>1, <1>3, <2>4, <2>5 DEF Numbered
      <4>3. \A x : x = s => Unused(o, x)'
          BY <1>0, <1>2, <1>3, <2>1 DEF Unused
      <4>4. \A k \in post' : k.kind = "init" => FALSE
          BY <2>4, <2>7 DEF Shaking
      <4>5. \A k \in post' : k.kind = "resp" =>
                Unused(k.to, k.session)' /\ \A l \in post' : l.to # k.to => l.session # k.session
        <5> SUFFICES ASSUME NEW k \in post', k.kind = "resp"
                     PROVE  Unused(k.to, k.session)' /\ \A l \in post' : l.to # k.to => l.session # k.session
            OBVIOUS
        <5>1. k = n /\ k.to = o /\ k.session = s
            BY <2>4, <2>7 DEF Shaking
        <5>2. Unused(o, k.session)'
            BY <4>3, <5>1
        <5> QED BY <2>5, <5>1, <5>2
      <4> QED BY <1>2, <4>1, <4>2, <4>4, <4>5 DEF Numbered
    <3> QED BY <3>1, <3>2, <3>3, <3>4 DEF ShakeInv
  <2>9. ColdInv'
    <3>1. \A e \in Devices : /\ Cold(e)' <=> Cold(e)
                             /\ Bare(e)' => Bare(e)
                             /\ dev'[e].dial = dev[e].dial /\ dev'[e].deferred = dev[e].deferred
      <4>1. Bare(d)' => Bare(d)
          BY <1>3, <2>1 DEF Bare
      <4> QED BY <1>0, <1>2, <2>1, <4>1 DEF Cold, Bare
    <3>2. \A e \in Devices : Settled(events[e], {"peer_ok"}) => Settled(events'[e], {"peer_ok"})
        BY <1>0, <2>2, <2>3, Joined
    <3>3. \A k \in post' : k.kind = "accept" => k \in post /\ k.session # s
        BY <2>4, <2>5
    <3>4. ColdIsSilent'
      <4>1. \A e \in Devices : Other(e) \in Devices
          BY Two
      <4> QED BY <1>1, <1>2, <3>1, <3>2, <3>3, <4>1 DEF ColdIsSilent
    <3>5. GatedWaits'
        BY <1>0, <1>1, <1>3, <2>1, <3>1 DEF GatedWaits
    <3>6. BareIsAlone'
      <4> SUFFICES ASSUME ~spoilt, NEW e \in Devices, Cold(e), Bare(e)', dev'[e].dial # "gated"
                   PROVE  \/ ~Bare(Other(e))'
                          \/ dev'[Other(e)].dial = "gated" /\ dev'[Other(e)].session = None_
          BY <1>2, <3>1 DEF BareIsAlone
      <4>1. CASE e = d
          BY <1>0, <1>1, <2>1, <3>1, <4>1 DEF BareIsAlone
      <4>2. CASE e = o
          BY <1>0, <1>1, <1>3, <3>1, <4>2 DEF BareIsAlone
      <4> QED BY <1>0, <4>1, <4>2
    <3>7. BareHearsNothing'
      <4> SUFFICES ASSUME ~spoilt, NEW e \in Devices, Cold(e), Bare(e)',
                          NEW k \in post', k.kind = "accept", k.to = e
                   PROVE  ~Reach(e, k.session)'
          BY <1>2, <3>1 DEF BareHearsNothing
      <4>1. k \in post /\ k.session # s /\ dev[e].session # k.session
          BY <1>1, <3>1, <3>3 DEF BareHearsNothing, Reach
      <4>2. dev'[e].session # k.session
          BY <1>0, <2>1, <4>1
      <4> QED BY <2>4, <2>7, <4>1, <4>2 DEF Reach
    <3> QED BY <3>4, <3>5, <3>6, <3>7 DEF ColdInv
  <2>10. LiveInv'
    <3>0. /\ dev[d].session # s /\ dev[d].pend # s /\ dev[d].greeted # s /\ s \notin accepted[d]
          /\ dev[o].session # s /\ s \notin accepted[o]
        BY <1>0, <1>3 DEF Unused
    <3>1. dev'[d].session # dev'[o].session
        BY <2>1, <3>0
    <3>2. Live(o)' <=> Live(o)
        BY <1>2, <2>1 DEF Live
    <3>3. LiveIsShown'
      <4>1. Live(d)' => Shown(d)'
        <5>1. Live(d)' => ~dev[d].trust
            BY <1>2, <2>1, <3>0 DEF Live
        <5>2. ~dev[d].trust => After(events'[d], "started", Resets)
            BY <2>2, <2>3, Joined
        <5> QED BY <5>1, <5>2 DEF Shown
      <4>2. Live(o)' => Shown(o)'
          BY <1>0, <1>1, <1>2, <2>3, <3>2 DEF LiveIsShown, Shown
      <4> QED BY <1>0, <4>1, <4>2 DEF LiveIsShown
    <3>4. AcceptedIsShown'
        BY <1>0, <1>1, <1>2, <2>1, <2>3, <3>0 DEF AcceptedIsShown
    <3>5. Agreed'
      <4>1. \A k \in post' : k.kind = "resp" => k.to = o /\ k.session = s
          BY <2>4, <2>7 DEF Shaking
      <4>2. spoilt \/ (dev'[o].session \in accepted'[d] => Live(o)')
          BY <1>0, <1>1, <1>2, <2>1, <3>2 DEF Agreed
      <4>3. dev'[d].session \notin accepted'[o]
          BY <1>2, <2>1, <3>0
      <4> QED BY <1>0, <1>2, <3>0, <4>1, <4>2, <4>3 DEF Agreed
    <3>6. HelloDue'
      <4>1. \A e \in Devices : dev'[Other(e)].session # dev'[e].session
          BY <1>0, <3>1
      <4>2. \A k \in post' : k.kind = "resp" => k.to = o /\ k.session = s
          BY <2>4, <2>7 DEF Shaking
      <4> QED BY <1>0, <2>1, <3>0, <4>1, <4>2 DEF HelloDue
    <3>7. AcceptDue'
      <4>1. \A e \in Devices : dev'[Other(e)].session # dev'[e].session
          BY <1>0, <3>1
      <4> QED BY <4>1 DEF AcceptDue
    <3> QED BY <3>3, <3>4, <3>5, <3>6, <3>7 DEF LiveInv
  <2> QED BY <2>8, <2>9, <2>10 DEF WordsInv
<1> QED
  <2>1. CASE ~dev[d].trust /\ ~dev[d].window
      BY <1>4, <2>1 DEF Respond
  <2>2. CASE ~(~dev[d].trust /\ ~dev[d].window)
      BY <1>5, <2>2 DEF Respond
  <2> QED BY <2>1, <2>2

LEMMA EstablishKeeps ==
    ASSUME WordsInv, WordsTyped', NEW m \in post, Establish(m)
    PROVE  WordsInv'
<1> DEFINE d == m.to
           o == Other(d)
           s == m.session
           lands == dev[d].trust /\ dev[d].session = None_
<1>0. /\ o \in Devices /\ o # d /\ Other(o) = d /\ Other(d) = o /\ d \in Devices /\ m.to = d
      /\ m.session = s /\ \A e \in Devices : e = d \/ e = o
  <2>1. m.to \in Devices
      BY LetterTyped DEF WordsInv, ShakeInv
  <2> QED BY <2>1, Two
<1>1. /\ WordsTyped /\ SessionsTrusted /\ OneShake /\ Dropped /\ Numbered /\ ColdIsSilent
      /\ GatedWaits /\ BareIsAlone /\ BareHearsNothing
      /\ LiveIsShown /\ AcceptedIsShown /\ Agreed /\ HelloDue /\ AcceptDue
    BY DEF WordsInv, ShakeInv, ColdInv, LiveInv
<1>2. /\ m.kind = "resp" /\ phase' = phase /\ shakes' = shakes /\ accepted' = accepted /\ spoilt' = spoilt
      /\ post' = post \ {m} /\ dev[d].dial # "no"
    BY DEF Establish
<1>3. /\ Unused(d, s) /\ \A k \in post : k.to = o => k.session # s
      /\ \A k \in post : k.kind \in Shaking => k = m
      /\ dev[o].dial = "no" /\ s \in 1 .. shakes /\ s # None_
      /\ \A k \in post : k.session # None_
    BY <1>0, <1>1, <1>2 DEF Numbered, OneShake, Shaking, None_
<1>4. /\ dev'[d].dial = "no" /\ dev'[d].trust = dev[d].trust /\ dev'[d].hello = dev[d].hello
      /\ dev'[d].deferred = dev[d].deferred /\ dev'[d].greeted = dev[d].greeted
      /\ ~lands => dev'[d].session = dev[d].session /\ dev'[d].pend = dev[d].pend
      /\ lands => /\ dev'[d].session = s
                  /\ dev[d].dial = "gated" => dev'[d].pend = s
                  /\ dev[d].dial # "gated" => dev'[d].pend = dev[d].pend
      /\ dev'[o] = dev[o]
  <2>1. dev' = [dev EXCEPT ![d].dial = "no",
                           ![d].session = IF lands THEN s ELSE dev[d].session,
                           ![d].pend = IF lands /\ dev[d].dial = "gated" THEN s ELSE dev[d].pend]
      BY DEF Establish
  <2>2. dev \in [Devices -> DeviceStates]
      BY <1>1 DEF WordsTyped
  <2> HIDE DEF lands, o, d, s
  <2> QED BY <1>0, <2>1, <2>2 DEF DeviceStates
<1> DEFINE evs == IF lands /\ dev[d].dial = "gated" THEN <<"started">> ELSE <<>>
<1>5. /\ evs \in Seq(EventKinds) /\ Settled(evs, {"peer_ok"}) /\ events[d] \in Seq(EventKinds)
      /\ lands /\ dev[d].dial = "gated" => After(evs, "started", Resets)
    BY <1>0, <1>1, Short DEF EventKinds, Resets, WordsTyped
<1>6. /\ events'[d] = events[d] \o evs /\ events'[o] = events[o]
      /\ events' \in [Devices -> Seq(EventKinds)]
  <2>1. Post(d, evs)
      BY DEF Establish
  <2> QED BY <1>0, <1>1, <1>5, <2>1, Posting
<1>7. ~lands => events' = events
  <2> SUFFICES ASSUME ~lands PROVE  events' = events
      OBVIOUS
  <2>1. events[d] \o evs = events[d]
      BY <1>5, ConcatEmptySeq
  <2> DEFINE K == Seq(EventKinds)
  <2>2. events \in [Devices -> K] /\ events' \in [Devices -> K]
      BY <1>1, <1>6 DEF WordsTyped
  <2> HIDE DEF K, evs, o, d
  <2>3. \A e \in Devices : events'[e] = events[e]
      BY <1>0, <1>6, <2>1
  <2> QED BY <2>2, <2>3
<1>8. lands => dev[d].session = None_ /\ dev[d].trust = TRUE
  <2>1. dev[d].trust \in BOOLEAN
      BY <1>0, <1>1, DeviceTyped
  <2> QED BY <2>1
<1>9. ~lands => dev[d].session # None_ \/ ~dev[d].trust
    OBVIOUS
<1> HIDE DEF d, o, s, lands, evs
<1>10. \A k \in post' : k \in post /\ k.kind \notin Shaking
    BY <1>2, <1>3
<1>11. \A k \in post : k.kind \notin Shaking => k \in post'
    BY <1>2 DEF Shaking
<1>12. \A e \in Devices : dev'[e].dial = "no"
    BY <1>0, <1>3, <1>4
<1>13. ShakeInv'
  <2>1. SessionsTrusted'
      BY <1>0, <1>1, <1>4, <1>8 DEF SessionsTrusted
  <2>2. OneShake' /\ Dropped'
      BY <1>10, <1>12 DEF OneShake, Dropped, Shaking
  <2>3. Numbered'
    <3>1. s <= shakes
        BY <1>3
    <3>2. \A e \in Devices :
            /\ dev'[e].session <= shakes /\ dev'[e].pend <= shakes /\ dev'[e].greeted <= shakes
            /\ accepted[e] \subseteq 1 .. shakes
        BY <1>0, <1>1, <1>4, <3>1 DEF Numbered
    <3> QED BY <1>1, <1>2, <1>10, <3>2 DEF Numbered, Shaking
  <2> QED BY <2>1, <2>2, <2>3 DEF ShakeInv
<1>14. ColdInv'
  <2>1. \A e \in Devices : /\ Cold(e)' <=> Cold(e)
                           /\ Bare(e)' => Bare(e)
                           /\ dev'[e].deferred = dev[e].deferred
    <3>1. Bare(d)' => Bare(d)
        BY <1>3, <1>4 DEF Bare
    <3> QED BY <1>0, <1>2, <1>4, <3>1 DEF Cold, Bare
  <2>2. \A e \in Devices : Settled(events[e], {"peer_ok"}) => Settled(events'[e], {"peer_ok"})
      BY <1>0, <1>5, <1>6, Joined
  <2>3. ColdIsSilent'
    <3>1. \A e \in Devices : Other(e) \in Devices
        BY Two
    <3> QED BY <1>1, <1>2, <1>10, <2>1, <2>2, <3>1 DEF ColdIsSilent
  <2>4. GatedWaits'
      BY <1>12 DEF GatedWaits
  <2>5. BareIsAlone'
    <3> SUFFICES ASSUME ~spoilt, NEW e \in Devices, Cold(e), Bare(e)' PROVE  ~Bare(Other(e))'
        BY <1>2, <2>1 DEF BareIsAlone
    <3>1. CASE e = d
      <4>1. Bare(d) /\ dev[d].dial # "gated"
          BY <1>1, <1>3, <1>4, <1>8, <1>9, <2>1, <3>1, <1>0 DEF GatedWaits, Bare
      <4>2. ~Bare(o)
          BY <1>0, <1>1, <1>3, <3>1, <4>1 DEF BareIsAlone
      <4> QED BY <1>0, <2>1, <3>1, <4>2
    <3>2. CASE e = o
      <4>1. ~Bare(d) \/ (dev[d].dial = "gated" /\ dev[d].session = None_)
          BY <1>0, <1>1, <1>3, <2>1, <3>2 DEF BareIsAlone
      <4>2. CASE ~Bare(d)
          BY <1>0, <2>1, <3>2, <4>2
      <4>3. CASE dev[d].dial = "gated" /\ dev[d].session = None_
          BY <1>0, <1>3, <1>4, <1>9, <3>2, <4>3 DEF Bare
      <4> QED BY <4>1, <4>2, <4>3
    <3> QED BY <1>0, <3>1, <3>2
  <2>6. BareHearsNothing'
    <3> SUFFICES ASSUME ~spoilt, NEW e \in Devices, Cold(e), Bare(e)',
                        NEW k \in post', k.kind = "accept", k.to = e
                 PROVE  ~Reach(e, k.session)'
        BY <1>2, <2>1 DEF BareHearsNothing
    <3>1. ~Reach(e, k.session) /\ k \in post
        BY <1>1, <1>10, <2>1 DEF BareHearsNothing
    <3>2. e = d => k.session # s
        BY <1>0, <1>2, <3>1 DEF Reach, Shaking
    <3>3. dev'[e].session # k.session
        BY <1>0, <1>4, <3>1, <3>2 DEF Reach
    <3> QED BY <1>10, <3>3 DEF Reach
  <2> QED BY <2>3, <2>4, <2>5, <2>6 DEF ColdInv
<1>15. CASE ~lands
  <2>1. Dials
      BY <1>0, <1>2, <1>4, <1>7, <1>10, <1>11, <1>15 DEF Dials, Said, Shaking
  <2> QED BY <1>13, <1>14, <2>1, DialsLive DEF WordsInv
<1>16. CASE lands
  <2>0. /\ dev[d].session # s /\ dev[d].pend # s /\ dev[d].greeted # s /\ s \notin accepted[d]
      BY <1>3 DEF Unused
  <2>1. spoilt \/ s \notin accepted[o]
      BY <1>0, <1>1, <1>2 DEF Agreed
  <2>2. (Live(o)' <=> Live(o)) /\ dev'[d].session = s
      BY <1>2, <1>4, <1>16 DEF Live
  <2>3. \A e \in Devices : \A x :
            Hello(e, x) => \E k \in post' : k.kind = "hello" /\ k.to = e /\ k.session = x
      BY <1>11 DEF Hello, Shaking
  <2>4. LiveIsShown'
    <3>1. Live(d)' => Shown(d)'
      <4>1. Live(d)' => dev[d].dial = "gated"
          BY <1>2, <1>4, <1>16, <2>0, <2>2 DEF Live
      <4>2. dev[d].dial = "gated" => After(events'[d], "started", Resets)
          BY <1>5, <1>6, <1>16, Joined
      <4> QED BY <4>1, <4>2 DEF Shown
    <3>2. Live(o)' => Shown(o)'
        BY <1>0, <1>1, <1>2, <1>6, <2>2 DEF LiveIsShown, Shown
    <3> QED BY <1>0, <3>1, <3>2 DEF LiveIsShown
  <2>5. AcceptedIsShown'
      BY <1>0, <1>1, <1>2, <1>4, <1>6, <2>0, <2>2 DEF AcceptedIsShown
  <2>6. Agreed'
    <3>1. spoilt \/ (dev'[o].session \in accepted'[d] => Live(o)')
        BY <1>0, <1>1, <1>2, <1>4, <2>2 DEF Agreed
    <3>2. spoilt \/ dev'[d].session \notin accepted'[o]
        BY <1>2, <2>1, <2>2
    <3>3. \A k \in post' : k.kind # "resp"
        BY <1>10 DEF Shaking
    <3> QED BY <1>0, <1>2, <3>1, <3>2, <3>3 DEF Agreed
  <2>7. HelloDue'
    <3>1. spoilt \/ (dev[o].greeted = s => Hello(d, s))
        BY <1>0, <1>1, <1>2 DEF HelloDue
    <3>2. dev'[o].greeted = s /\ ~spoilt => Hello(d, dev[d].session)'
      <4> SUFFICES ASSUME dev'[o].greeted = s, ~spoilt PROVE  Hello(d, dev[d].session)'
          OBVIOUS
      <4>1. Hello(d, s)
          BY <1>4, <3>1
      <4>2. \E k \in post' : k.kind = "hello" /\ k.to = d /\ k.session = s
          BY <1>0, <2>3, <4>1
      <4> QED BY <2>2, <4>2 DEF Hello
    <3>3. \A k \in post' : k.kind # "resp"
        BY <1>10 DEF Shaking
    <3>4. dev'[d].greeted # s
        BY <1>4, <2>0
    <3> QED BY <1>0, <1>2, <2>2, <3>2, <3>3, <3>4 DEF HelloDue
  <2>8. AcceptDue'
    <3>1. spoilt \/ dev'[d].session \notin accepted'[o]
        BY <1>2, <2>1, <2>2
    <3>2. dev'[d].session \notin accepted'[d]
        BY <1>2, <2>0, <2>2
    <3> QED BY <1>0, <1>2, <3>1, <3>2 DEF AcceptDue
  <2> QED BY <1>13, <1>14, <2>4, <2>5, <2>6, <2>7, <2>8 DEF LiveInv, WordsInv
<1> QED BY <1>15, <1>16

-----------------------------------------------------------------------------
\* Words are said and heard: no handshake and no session changes.

Speaks(d) ==
    /\ dev'[Other(d)] = dev[Other(d)]
    /\ dev'[d].trust = dev[d].trust /\ dev'[d].session = dev[d].session
    /\ dev'[d].dial = dev[d].dial /\ dev'[d].greeted = dev[d].greeted
    /\ dev'[d].pend \in {dev[d].pend, None_, dev[d].session} /\ (dev[d].hello => dev'[d].hello)
    /\ \A m \in post' : m \notin post =>
          /\ m.to = Other(d) /\ m.session = dev[d].session /\ m.session # None_
          /\ m.kind \in {"accept", "verify"}
    /\ \A m \in post : m \notin post' =>
          /\ m.to = d /\ m.session = dev[d].session /\ m.kind \in {"hello", "accept", "verify"}
          /\ m.kind = "hello" => dev'[d].hello
    /\ accepted'[Other(d)] = accepted[Other(d)]
    /\ \A s \in accepted'[d] : s \in accepted[d] \/ (s = dev[d].pend /\ s # None_)
    /\ events'[Other(d)] = events[Other(d)] /\ phase'[Other(d)] = phase[Other(d)]
    /\ shakes' = shakes /\ (spoilt => spoilt')

LEMMA SpeaksShake ==
    ASSUME WordsInv, WordsTyped', NEW d \in Devices, Speaks(d)
    PROVE  ShakeInv' /\ HelloDue'
<1> DEFINE o == Other(d)
<1>0. o \in Devices /\ o # d /\ Other(o) = d /\ Other(d) = o /\ \A e \in Devices : e = d \/ e = o
    BY Two
<1> HIDE DEF o
<1>1. /\ WordsTyped /\ SessionsTrusted /\ OneShake /\ Dropped /\ Numbered /\ HelloDue
    BY DEF WordsInv, ShakeInv, LiveInv
<1>2. /\ dev'[o] = dev[o]
      /\ dev'[d].trust = dev[d].trust /\ dev'[d].session = dev[d].session
      /\ dev'[d].dial = dev[d].dial /\ dev'[d].greeted = dev[d].greeted
      /\ dev'[d].pend \in {dev[d].pend, None_, dev[d].session} /\ (dev[d].hello => dev'[d].hello)
      /\ accepted'[o] = accepted[o] /\ shakes' = shakes
      /\ \A s \in accepted'[d] : s \in accepted[d] \/ (s = dev[d].pend /\ s # None_)
    BY DEF Speaks, o
<1>3. \A m \in post' : m \in post \/ (m.to = o /\ m.session = dev[d].session /\ m.session # None_
                                       /\ m.kind \in {"accept", "verify"})
    BY DEF Speaks, o
<1>4. /\ \A m \in post' : m.kind \in Shaking => m \in post
      /\ \A m \in post : m.kind \in Shaking => m \in post'
  <2>1. \A m \in post' : m.kind \in Shaking => m \in post
      BY <1>3 DEF Shaking
  <2>2. \A m \in post : m.kind \in Shaking => m \in post'
      BY DEF Shaking, Speaks
  <2> QED BY <2>1, <2>2
<1>5. ~spoilt' => ~spoilt
    BY Zenon DEF Speaks
<1>6. SessionsTrusted'
    BY <1>0, <1>1, <1>2 DEF SessionsTrusted
<1>7. OneShake'
  <2>1. \A e \in Devices : dev'[e].dial = dev[e].dial
      BY <1>0, <1>2
  <2>2. \A m \in post' : m.to \in Devices /\ Other(m.to) \in Devices
      BY Two DEF WordsTyped, Letters
  <2> QED BY <1>1, <1>2, <1>4, <2>1, <2>2 DEF OneShake, Shaking
<1>8. Dropped'
  <2>1. Opening' <=> Opening
      BY <1>4 DEF Opening
  <2>2. \A e \in Devices : dev'[e].dial = dev[e].dial /\ dev'[e].trust = dev[e].trust /\ Other(e) \in Devices
      BY <1>0, <1>2
  <2> QED BY <1>1, <1>5, <2>1, <2>2 DEF Dropped
<1>9. Numbered'
  <2>1. \A e \in Devices : \A s : s # None_ /\ Unused(e, s) => Unused(e, s)'
      BY <1>0, <1>2 DEF Unused
  <2>2. \A m \in post : m.session # None_
      BY <1>1 DEF Numbered, None_
  <2>3. \A e \in Devices :
          /\ dev'[e].session <= shakes' /\ dev'[e].pend <= shakes' /\ dev'[e].greeted <= shakes'
          /\ accepted'[e] \subseteq 1 .. shakes'
    <3>1. \A e \in Devices :
            /\ dev[e].session <= shakes /\ dev[e].pend <= shakes /\ dev[e].greeted <= shakes
            /\ accepted[e] \subseteq 1 .. shakes
        BY <1>1 DEF Numbered
    <3>2. None_ <= shakes /\ (dev[d].pend # None_ => dev[d].pend \in 1 .. shakes)
        BY <1>1, <3>1, DeviceTyped DEF WordsTyped, None_
    <3> HIDE DEF None_
    <3>3. dev'[d].pend <= shakes
        BY <1>2, <3>1, <3>2
    <3>4. accepted'[d] \subseteq 1 .. shakes
        BY <1>2, <3>1, <3>2
    <3> QED BY <1>0, <1>2, <3>1, <3>3, <3>4
  <2>4. \A m \in post' : m.session \in 1 .. shakes'
    <3>1. dev[d].session \in Nat /\ dev[d].session <= shakes /\ shakes \in Nat
        BY <1>1, DeviceTyped DEF Numbered, WordsTyped
    <3>2. dev[d].session # None_ => dev[d].session \in 1 .. shakes
        BY <3>1 DEF None_
    <3> QED BY <1>1, <1>2, <1>3, <3>2 DEF Numbered
  <2>5. ASSUME NEW m \in post', m.kind = "init"
        PROVE  /\ \A e \in Devices : Unused(e, m.session)'
               /\ \A n \in post' : n = m \/ n.session # m.session
    <3>1. m \in post /\ \A e \in Devices : Unused(e, m.session)
        BY <1>1, <1>4, <2>5 DEF Numbered, Shaking
    <3>2. dev[d].session # m.session
        BY <3>1 DEF Unused
    <3> QED BY <1>1, <1>3, <2>1, <2>2, <2>5, <3>1, <3>2 DEF Numbered
  <2>6. ASSUME NEW m \in post', m.kind = "resp"
        PROVE  Unused(m.to, m.session)' /\ \A n \in post' : n.to # m.to => n.session # m.session
    <3>1. m \in post /\ Unused(m.to, m.session) /\ m.to \in Devices
        BY <1>1, <1>4, <2>6 DEF Numbered, Shaking, WordsTyped, Letters
    <3>2. m.to = d => dev[d].session # m.session
        BY <3>1 DEF Unused
    <3>3. Unused(m.to, m.session)'
        BY <2>1, <2>2, <3>1
    <3> QED BY <1>0, <1>1, <1>3, <2>6, <3>1, <3>2, <3>3 DEF Numbered
  <2> QED BY <2>3, <2>4, <2>5, <2>6 DEF Numbered
<1>10. HelloDue'
  <2> SUFFICES ASSUME ~spoilt', NEW e \in Devices
               PROVE  /\ /\ dev'[e].session # None_ /\ dev'[Other(e)].session = dev'[e].session
                         /\ ~dev'[e].hello
                         => Hello(e, dev[e].session)' \/ dev'[Other(e)].greeted # dev'[e].session
                      /\ \A m \in post' :
                            m.kind = "resp" /\ m.to = e /\ dev'[Other(e)].greeted = m.session
                                => Hello(e, m.session)'
      BY DEF HelloDue
  <2>0. ~spoilt /\ Other(e) \in Devices
      BY <1>5, Two
  <2>1. \A f \in Devices : dev'[f].session = dev[f].session /\ dev'[f].greeted = dev[f].greeted
      BY <1>0, <1>2
  <2>2. ASSUME NEW s, Hello(e, s), ~dev'[e].hello \/ s # dev[e].session
        PROVE  \E m \in post' : m.kind = "hello" /\ m.to = e /\ m.session = s
      BY <2>2 DEF Hello, Speaks
  <2>3. ASSUME dev'[e].session # None_, dev'[Other(e)].session = dev'[e].session, ~dev'[e].hello,
               dev'[Other(e)].greeted = dev'[e].session
        PROVE  Hello(e, dev[e].session)'
    <3>1. ~dev[e].hello
        BY <1>0, <1>2, <2>3
    <3>2. Hello(e, dev[e].session)
        BY <1>1, <2>0, <2>1, <2>3, <3>1 DEF HelloDue
    <3>3. \E m \in post' : m.kind = "hello" /\ m.to = e /\ m.session = dev[e].session
        BY <2>2, <2>3, <3>2
    <3> QED BY <2>1, <3>3 DEF Hello
  <2>4. ASSUME NEW m \in post', m.kind = "resp", m.to = e, dev'[Other(e)].greeted = m.session
        PROVE  Hello(e, m.session)'
    <3>1. m \in post /\ Unused(e, m.session)
        BY <1>1, <1>4, <2>4 DEF Shaking, Numbered
    <3>2. Hello(e, m.session)
        BY <1>1, <2>0, <2>1, <2>4, <3>1 DEF HelloDue
    <3>3. \E n \in post' : n.kind = "hello" /\ n.to = e /\ n.session = m.session
        BY <2>2, <3>1, <3>2 DEF Unused
    <3> QED BY <3>3 DEF Hello
  <2> QED BY <2>3, <2>4
<1> QED BY <1>6, <1>7, <1>8, <1>9, <1>10 DEF ShakeInv

LEMMA HelloKeeps ==
    ASSUME WordsInv, WordsTyped', NEW m \in post, RecvHello(m)
    PROVE  WordsInv'
<1> DEFINE d == m.to
           o == Other(d)
           s == m.session
           flush == dev[d].deferred /\ dev[d].pend = None_
           announce == dev[d].pend # None_ /\ ~dev[d].announced
           kinds == (IF flush THEN {"accept"} ELSE {}) \cup (IF announce THEN {"verify"} ELSE {})
<1>0. /\ o \in Devices /\ o # d /\ Other(o) = d /\ Other(d) = o /\ d \in Devices /\ m.to = d
      /\ m.session = s /\ \A e \in Devices : e = d \/ e = o
  <2>1. m.to \in Devices
      BY LetterTyped DEF WordsInv, ShakeInv
  <2> QED BY <2>1, Two
<1>1. /\ WordsTyped /\ SessionsTrusted /\ OneShake /\ Numbered /\ ColdIsSilent
      /\ GatedWaits /\ BareIsAlone /\ BareHearsNothing
      /\ LiveIsShown /\ AcceptedIsShown /\ Agreed /\ AcceptDue
    BY DEF WordsInv, ShakeInv, ColdInv, LiveInv
<1>2. /\ m.kind = "hello" /\ dev[d].session = s
      /\ phase' = phase /\ shakes' = shakes /\ accepted' = accepted /\ spoilt' = spoilt
      /\ events' = events /\ post' = (post \ {m}) \cup Sealed(d, kinds)
    BY DEF RecvHello, Reads, Take
<1>3. s # None_
    BY <1>1 DEF Numbered, None_
<1>4. /\ dev'[d].hello = TRUE /\ dev'[d].deferred = FALSE /\ dev'[d].trust = dev[d].trust
      /\ dev'[d].session = dev[d].session /\ dev'[d].dial = dev[d].dial
      /\ dev'[d].greeted = dev[d].greeted /\ dev'[d].pend = dev[d].pend
      /\ dev'[o] = dev[o]
  <2>1. PICK b \in BOOLEAN :
            Becomes(d, [dev[d] EXCEPT !.hello = TRUE, !.deferred = FALSE, !.announced = b])
      BY <1>1, RecvSteps
  <2>2. /\ dev'[d] = [dev[d] EXCEPT !.hello = TRUE, !.deferred = FALSE, !.announced = b]
        /\ dev'[o] = dev[o]
      BY <1>0, <1>1, <2>1, Becoming
  <2>3. dev[d] \in DeviceStates
      BY <1>0, <1>1, DeviceTyped
  <2> HIDE DEF d, o
  <2> QED BY <2>2, <2>3 DEF DeviceStates
<1>5. /\ \A k \in Sealed(d, kinds) : /\ k.to = o /\ k.session = s /\ k.kind \in {"accept", "verify"}
                                     /\ k.kind = "accept" => flush
      /\ flush => \E k \in Sealed(d, kinds) : k.kind = "accept" /\ k.to = o /\ k.session = s
  <2>1. kinds \subseteq Said /\ kinds \subseteq {"accept", "verify"} /\ ("accept" \in kinds <=> flush)
      BY DEF Said
  <2>a. WordsTyped /\ d \in Devices /\ kinds \subseteq Said /\ o = Other(d)
      BY <1>0, <1>1, <2>1
  <2> HIDE DEF kinds, flush, d, o, s
  <2>2. /\ \A k \in Sealed(d, kinds) : k.to = Other(d) /\ k.session = dev[d].session /\ k.kind \in kinds
        /\ \A c \in kinds : dev[d].session # None_ =>
              \E k \in Sealed(d, kinds) : k.kind = c /\ k.to = Other(d) /\ k.session = dev[d].session
      BY <2>a, SealedLetters
  <2>3. dev[d].session = s /\ s # None_
      BY <1>2, <1>3
  <2>4. \A k \in Sealed(d, kinds) : /\ k.to = o /\ k.session = s /\ k.kind \in {"accept", "verify"}
                                    /\ k.kind = "accept" => flush
      BY <2>a, <2>1, <2>2, <2>3
  <2>5. flush => \E k \in Sealed(d, kinds) : k.kind = "accept" /\ k.to = o /\ k.session = s
      BY <2>a, <2>1, <2>2, <2>3
  <2> QED BY <2>4, <2>5
<1> HIDE DEF kinds, flush, announce
<1>6. flush => dev[d].deferred /\ dev[d].pend = None_
    BY DEF flush
<1>7. dev[d].deferred /\ dev[d].pend = None_ => flush
    BY DEF flush
<1>8. dev[d].trust
    BY <1>0, <1>1, <1>2, <1>3 DEF SessionsTrusted
<1> HIDE DEF d, o, s
<1>9. Speaks(d)
    BY <1>0, <1>2, <1>3, <1>4, <1>5 DEF Speaks
<1>10. \A e \in Devices : /\ Cold(e)' <=> Cold(e)
                          /\ Bare(e)' <=> Bare(e)
                          /\ dev'[e].dial = dev[e].dial /\ dev'[e].session = dev[e].session
                          /\ dev'[e].pend = dev[e].pend /\ dev'[e].greeted = dev[e].greeted
                          /\ (dev'[e].deferred => dev[e].deferred)
                          /\ Other(e) \in Devices
    BY <1>0, <1>2, <1>4 DEF Cold, Bare
<1>11. \A k \in post' : k.kind = "accept" => k \in post \/ (flush /\ k.to = o /\ k.session = s)
    BY <1>2, <1>5
<1>12. flush => ~Cold(d)
    BY <1>0, <1>1, <1>6 DEF ColdIsSilent
<1>13. \A k \in post' : k.kind \in Shaking => k \in post
    BY <1>2, <1>5 DEF Shaking
<1>14. ColdInv'
  <2>1. ColdIsSilent'
    <3> SUFFICES ASSUME NEW e \in Devices, Cold(e)
                 PROVE  /\ ~dev'[e].deferred /\ phase[e] \notin {"local_confirmed", "confirmed"}
                        /\ ~spoilt =>
                              /\ phase[Other(e)] \notin {"peer_confirmed", "confirmed"}
                              /\ Settled(events[Other(e)], {"peer_ok"})
                              /\ \A k \in post' : k.kind = "accept" => k.to = e
        BY <1>2, <1>10 DEF ColdIsSilent
    <3> QED BY <1>0, <1>1, <1>10, <1>11, <1>12 DEF ColdIsSilent
  <2>2. GatedWaits' /\ BareIsAlone'
      BY <1>1, <1>2, <1>10 DEF GatedWaits, BareIsAlone
  <2>3. BareHearsNothing'
    <3> SUFFICES ASSUME ~spoilt, NEW e \in Devices, Cold(e), Bare(e),
                        NEW k \in post', k.kind = "accept", k.to = e
                 PROVE  ~Reach(e, k.session)'
        BY <1>2, <1>10 DEF BareHearsNothing
    <3>1. ~Reach(e, k.session)
      <4>1. CASE k \in post
          BY <1>1, <4>1 DEF BareHearsNothing
      <4>2. CASE flush /\ k.to = o /\ k.session = s
        <5>1. Bare(d) /\ dev[d].session # None_ /\ e = o
            BY <1>2, <1>3, <1>6, <1>8, <4>2 DEF Bare
        <5>2. dev[o].dial = "gated"
            BY <1>0, <1>1, <5>1 DEF BareIsAlone
        <5>3. dev[o].session = None_
            BY <1>1, <5>1, <5>2 DEF GatedWaits
        <5>4. ASSUME NEW n \in post, n.kind \in Shaking, n.to = o, n.session = s PROVE  FALSE
          <6>1. n.kind = "init" => Unused(d, s)
              BY <1>0, <1>1, <5>4 DEF Numbered
          <6>2. n.kind = "resp" => m.session # n.session
              BY <1>0, <1>1, <5>4 DEF Numbered
          <6> QED BY <1>0, <1>2, <5>4, <6>1, <6>2 DEF Unused, Shaking
        <5> QED BY <1>3, <4>2, <5>1, <5>3, <5>4 DEF Reach
      <4> QED BY <1>11, <4>1, <4>2
    <3> QED BY <1>10, <1>13, <3>1 DEF Reach
  <2> QED BY <2>1, <2>2, <2>3 DEF ColdInv
<1>15. LiveIsShown' /\ AcceptedIsShown' /\ Agreed'
  <2>1. \A e \in Devices : /\ Live(e)' <=> Live(e)
                           /\ Shown(e)' <=> Shown(e)
      BY <1>2, <1>10 DEF Live, Shown
  <2>2. LiveIsShown' /\ AcceptedIsShown'
      BY <1>1, <1>2, <1>10, <2>1 DEF LiveIsShown, AcceptedIsShown
  <2>3. \A k \in post' : k.kind = "resp" => k \in post
      BY <1>13 DEF Shaking
  <2>4. Agreed'
      BY <1>1, <1>2, <1>10, <2>1, <2>3 DEF Agreed
  <2> QED BY <2>2, <2>4
<1>16. AcceptDue'
  <2> SUFFICES ASSUME ~spoilt, NEW e \in Devices, NEW x, x = dev[e].session, x # None_,
                      dev[Other(e)].session = x, x \in accepted[Other(e)]
               PROVE  \/ Told(e)'
                      \/ \E k \in post' : k.kind = "accept" /\ k.to = e /\ k.session = x
                      \/ /\ dev'[Other(e)].deferred
                         /\ \/ \E k \in post' : k.kind = "hello" /\ k.to = Other(e) /\ k.session = x
                            \/ dev[e].greeted # x
      BY <1>2, <1>10 DEF AcceptDue, Hello
  <2>1. \/ Told(e)
        \/ \E k \in post : k.kind = "accept" /\ k.to = e /\ k.session = x
        \/ dev[Other(e)].deferred /\ (Hello(Other(e), x) \/ dev[e].greeted # x)
      BY <1>1 DEF AcceptDue
  <2>2. \A k \in post : k.kind = "accept" => k \in post'
      BY <1>2
  <2>3. Told(e) => Told(e)'
      BY <1>2 DEF Told
  <2>4. CASE dev[Other(e)].deferred /\ e = d
    <3>1. dev'[Other(e)].deferred
        BY <1>0, <1>4, <2>4
    <3>2. Hello(o, x) => \E k \in post' : k.kind = "hello" /\ k.to = o /\ k.session = x
        BY <1>0, <1>2 DEF Hello
    <3> QED BY <1>0, <2>1, <2>2, <2>3, <2>4, <3>1, <3>2
  <2>5. CASE dev[Other(e)].deferred /\ e = o
    <3>1. dev[d].pend = None_ /\ x = s
        BY <1>0, <1>1, <1>2, <2>5 DEF AcceptedIsShown
    <3>2. \E k \in post' : k.kind = "accept" /\ k.to = o /\ k.session = s
        BY <1>0, <1>2, <1>5, <1>7, <2>5, <3>1
    <3> QED BY <2>5, <3>1, <3>2
  <2> QED BY <1>0, <2>1, <2>2, <2>3, <2>4, <2>5
<1> QED BY <1>1, <1>9, <1>14, <1>15, <1>16, SpeaksShake, <1>0 DEF LiveInv, WordsInv

LEMMA HearsAcceptKeeps ==
    ASSUME WordsInv, WordsTyped', NEW m \in post, RecvAccept(m)
    PROVE  WordsInv'
<1> DEFINE d == m.to
           o == Other(d)
           s == m.session
           echo == ~InFlow(d) /\ dev[d].trust /\ dev[d].hello /\ ~dev[d].echoed
           kinds == IF echo THEN {"accept"} ELSE {}
           evs == IF InFlow(d) THEN <<"peer_ok">> ELSE <<>>
<1>0. /\ o \in Devices /\ o # d /\ Other(o) = d /\ Other(d) = o /\ d \in Devices /\ m.to = d
      /\ m.session = s /\ \A e \in Devices : e = d \/ e = o
  <2>1. m.to \in Devices
      BY LetterTyped DEF WordsInv, ShakeInv
  <2> QED BY <2>1, Two
<1>1. /\ WordsTyped /\ SessionsTrusted /\ OneShake /\ Numbered /\ ColdIsSilent
      /\ GatedWaits /\ BareIsAlone /\ BareHearsNothing
      /\ LiveIsShown /\ AcceptedIsShown /\ Agreed /\ AcceptDue
    BY DEF WordsInv, ShakeInv, ColdInv, LiveInv
<1>2. /\ m.kind = "accept" /\ dev[d].session = s
      /\ phase' = phase /\ shakes' = shakes /\ accepted' = accepted /\ spoilt' = spoilt
      /\ post' = (post \ {m}) \cup Sealed(d, kinds)
    BY DEF RecvAccept, Reads, Take
<1>3. s # None_
    BY <1>1 DEF Numbered, None_
<1>4. /\ dev'[d].hello = dev[d].hello /\ dev'[d].deferred = dev[d].deferred /\ dev'[d].trust = dev[d].trust
      /\ dev'[d].session = dev[d].session /\ dev'[d].dial = dev[d].dial
      /\ dev'[d].greeted = dev[d].greeted /\ dev'[d].pend = dev[d].pend
      /\ dev'[o] = dev[o]
  <2>1. PICK b \in BOOLEAN : Becomes(d, [dev[d] EXCEPT !.echoed = b])
      BY <1>1, RecvSteps
  <2>2. dev'[d] = [dev[d] EXCEPT !.echoed = b] /\ dev'[o] = dev[o]
      BY <1>0, <1>1, <2>1, Becoming
  <2>3. dev[d] \in DeviceStates
      BY <1>0, <1>1, DeviceTyped
  <2> HIDE DEF d, o
  <2> QED BY <2>2, <2>3 DEF DeviceStates
<1>5. \A k \in Sealed(d, kinds) : k.to = o /\ k.session = s /\ k.kind = "accept" /\ echo
  <2>1. kinds \subseteq Said /\ kinds \subseteq {"accept"} /\ (kinds # {} => echo)
      BY DEF Said
  <2>a. WordsTyped /\ d \in Devices /\ kinds \subseteq Said
      BY <1>0, <1>1, <2>1
  <2>b. o = Other(d) /\ dev[d].session = s
      BY <1>0, <1>2
  <2> HIDE DEF kinds, echo, d, o, s
  <2>2. \A k \in Sealed(d, kinds) : k.to = Other(d) /\ k.session = dev[d].session /\ k.kind \in kinds
      BY <2>a, SealedLetters
  <2> QED BY <2>1, <2>b, <2>2
<1>6. /\ evs \in Seq(EventKinds) /\ events[d] \in Seq(EventKinds)
      /\ Settled(evs, Resets) /\ Settled(evs, Resets \cup {"started"})
      /\ InFlow(d) => After(evs, "peer_ok", Resets \cup {"started"})
  <2>1. /\ <<>> \in Seq(EventKinds) /\ \A bad : Settled(<<>>, bad)
        /\ <<"peer_ok">> \in Seq(EventKinds)
        /\ \A bad : /\ "peer_ok" \notin bad => Settled(<<"peer_ok">>, bad)
                    /\ After(<<"peer_ok">>, "peer_ok", bad)
      BY Short DEF EventKinds
  <2>2. events[d] \in Seq(EventKinds)
      BY <1>0, <1>1 DEF WordsTyped
  <2> QED BY <2>1, <2>2 DEF Resets
<1>7. events'[d] = events[d] \o evs /\ events'[o] = events[o]
  <2>1. Post(d, evs)
      BY DEF RecvAccept
  <2> QED BY <1>0, <1>1, <1>6, <2>1, Posting
<1>8. echo => Bare(d)
    BY DEF Bare, InFlow
<1>9. dev[d].pend # None_ \/ phase[d] \in Flow => InFlow(d)
    BY DEF InFlow
<1> HIDE DEF kinds, echo, evs, d, o, s
<1>10. Speaks(d)
    BY <1>0, <1>2, <1>3, <1>4, <1>5, <1>7 DEF Speaks
<1>11. \A e \in Devices : /\ Cold(e)' <=> Cold(e)
                          /\ Bare(e)' <=> Bare(e)
                          /\ dev'[e].dial = dev[e].dial /\ dev'[e].session = dev[e].session
                          /\ dev'[e].pend = dev[e].pend /\ dev'[e].greeted = dev[e].greeted
                          /\ dev'[e].deferred = dev[e].deferred
                          /\ Other(e) \in Devices
    BY <1>0, <1>2, <1>4 DEF Cold, Bare
<1>12. \A k \in post' : k.kind = "accept" => k \in post \/ (echo /\ k.to = o /\ k.session = s)
    BY <1>2, <1>5
<1>13. \A k \in post' : k.kind \in Shaking => k \in post
    BY <1>2, <1>5 DEF Shaking
<1>14. ~spoilt => ~Cold(o)
    BY <1>0, <1>1, <1>2 DEF ColdIsSilent
<1>15. ~spoilt => ~(echo /\ Cold(d))
  <2>1. Reach(d, s)
      BY <1>2 DEF Reach
  <2> QED BY <1>0, <1>1, <1>2, <1>8, <2>1 DEF BareHearsNothing
<1>16. ColdInv'
  <2>1. ColdIsSilent'
    <3> SUFFICES ASSUME NEW e \in Devices, Cold(e)
                 PROVE  /\ ~dev[e].deferred /\ phase[e] \notin {"local_confirmed", "confirmed"}
                        /\ ~spoilt =>
                              /\ phase[Other(e)] \notin {"peer_confirmed", "confirmed"}
                              /\ Settled(events'[Other(e)], {"peer_ok"})
                              /\ \A k \in post' : k.kind = "accept" => k.to = e
        BY <1>2, <1>11 DEF ColdIsSilent
    <3>1. CASE e = d
        BY <1>0, <1>1, <1>7, <1>12, <1>15, <3>1 DEF ColdIsSilent
    <3>2. CASE e = o
        BY <1>1, <1>14, <3>2 DEF ColdIsSilent
    <3> QED BY <1>0, <3>1, <3>2
  <2>2. GatedWaits' /\ BareIsAlone'
      BY <1>1, <1>2, <1>11 DEF GatedWaits, BareIsAlone
  <2>3. BareHearsNothing'
    <3> SUFFICES ASSUME ~spoilt, NEW e \in Devices, Cold(e), Bare(e),
                        NEW k \in post', k.kind = "accept", k.to = e
                 PROVE  ~Reach(e, k.session)'
        BY <1>2, <1>11 DEF BareHearsNothing
    <3>1. k \in post
        BY <1>0, <1>12, <1>14
    <3>2. ~Reach(e, k.session)
        BY <1>1, <3>1 DEF BareHearsNothing
    <3> QED BY <1>11, <1>13, <3>2 DEF Reach
  <2> QED BY <2>1, <2>2, <2>3 DEF ColdInv
<1>17. LiveIsShown'
  <2>1. \A e \in Devices : Live(e)' <=> Live(e)
      BY <1>2, <1>11 DEF Live
  <2>2. Shown(d) => Shown(d)'
      BY <1>2, <1>6, <1>7, Joined DEF Shown
  <2>3. Shown(o) => Shown(o)'
      BY <1>2, <1>7 DEF Shown
  <2> QED BY <1>0, <1>1, <2>1, <2>2, <2>3 DEF LiveIsShown
<1>18. AcceptedIsShown'
  <2>1. \A e \in Devices : Settled(events[e], Resets \cup {"started"})
                               => Settled(events'[e], Resets \cup {"started"})
    <3>1. Settled(events[d], Resets \cup {"started"}) => Settled(events'[d], Resets \cup {"started"})
        BY <1>6, <1>7, Joined
    <3> QED BY <1>0, <1>7, <3>1
  <2> QED BY <1>1, <1>2, <1>11, <2>1 DEF AcceptedIsShown
<1>19. Agreed'
  <2>1. \A e \in Devices : Live(e)' <=> Live(e)
      BY <1>2, <1>11 DEF Live
  <2>2. \A k \in post' : k.kind = "resp" => k \in post
      BY <1>13 DEF Shaking
  <2> QED BY <1>1, <1>2, <1>11, <2>1, <2>2 DEF Agreed
<1>20. AcceptDue'
  <2> SUFFICES ASSUME ~spoilt, NEW e \in Devices, NEW x, x = dev[e].session, x # None_,
                      dev[Other(e)].session = x, x \in accepted[Other(e)]
               PROVE  \/ Told(e)'
                      \/ \E k \in post' : k.kind = "accept" /\ k.to = e /\ k.session = x
                      \/ /\ dev[Other(e)].deferred
                         /\ \/ \E k \in post' : k.kind = "hello" /\ k.to = Other(e) /\ k.session = x
                            \/ dev[e].greeted # x
      BY <1>2, <1>11 DEF AcceptDue, Hello
  <2>1. \/ Told(e)
        \/ \E k \in post : k.kind = "accept" /\ k.to = e /\ k.session = x
        \/ dev[Other(e)].deferred /\ (Hello(Other(e), x) \/ dev[e].greeted # x)
      BY <1>1 DEF AcceptDue
  <2>2. CASE e = d
    <3>1. Live(d)
        BY <1>1, <2>2 DEF Agreed
    <3>2. dev[d].pend # None_ \/ phase[d] \in Flow
        BY <1>0, <1>1, <3>1 DEF Live, AcceptedIsShown, Flow
    <3>3. After(events'[d], "peer_ok", Resets \cup {"started"})
        BY <1>6, <1>7, <1>9, <3>2, Joined
    <3> QED BY <2>2, <3>3 DEF Told
  <2>3. CASE e = o
    <3>1. Told(o) => Told(o)'
        BY <1>2, <1>7 DEF Told
    <3>2. \A k \in post : k.to = o \/ k.kind = "hello" => k \in post'
        BY <1>0, <1>2
    <3> QED BY <1>0, <2>1, <2>3, <3>1, <3>2 DEF Hello
  <2> QED BY <1>0, <2>2, <2>3
<1> QED BY <1>0, <1>1, <1>10, <1>16, <1>17, <1>18, <1>19, <1>20, SpeaksShake DEF LiveInv, WordsInv

LEMMA VerifyKeeps ==
    ASSUME WordsInv, WordsTyped', NEW m \in post, RecvVerify(m),
           dev[m.to].trust, ~InFlow(m.to)
    PROVE  WordsInv'
<1> DEFINE d == m.to
           o == Other(d)
           s == m.session
<1>0. /\ o \in Devices /\ o # d /\ Other(o) = d /\ Other(d) = o /\ d \in Devices /\ m.to = d
      /\ m.session = s /\ \A e \in Devices : e = d \/ e = o
  <2>1. m.to \in Devices
      BY LetterTyped DEF WordsInv, ShakeInv
  <2> QED BY <2>1, Two
<1>1. /\ WordsTyped /\ SessionsTrusted /\ OneShake /\ Numbered /\ ColdIsSilent
      /\ GatedWaits /\ BareIsAlone /\ BareHearsNothing
      /\ LiveIsShown /\ AcceptedIsShown /\ Agreed /\ AcceptDue
    BY DEF WordsInv, ShakeInv, ColdInv, LiveInv
<1>2. /\ m.kind = "verify" /\ dev[d].session = s
      /\ phase' = phase /\ shakes' = shakes /\ accepted' = accepted /\ spoilt' = spoilt
      /\ post' = post \ {m}
  <2>1. Sealed(d, {}) = {}
      BY DEF Sealed
  <2> QED BY <2>1 DEF RecvVerify, Reads, Take
<1>3. s # None_
    BY <1>1 DEF Numbered, None_
<1>4. /\ dev'[d].hello = dev[d].hello /\ dev'[d].deferred = dev[d].deferred /\ dev'[d].trust = dev[d].trust
      /\ dev'[d].session = dev[d].session /\ dev'[d].dial = dev[d].dial
      /\ dev'[d].greeted = dev[d].greeted /\ dev'[d].pend = s
      /\ dev'[o] = dev[o]
  <2>1. Becomes(d, [dev[d] EXCEPT
            !.pend = IF dev[d].trust /\ ~InFlow(d) THEN dev[d].session ELSE dev[d].pend])
      BY <1>1, RecvSteps
  <2>2. Becomes(d, [dev[d] EXCEPT !.pend = s])
      BY <1>2, <2>1
  <2>3. dev'[d] = [dev[d] EXCEPT !.pend = s] /\ dev'[o] = dev[o]
      BY <1>0, <1>1, <2>2, Becoming
  <2>4. dev[d] \in DeviceStates
      BY <1>0, <1>1, DeviceTyped
  <2> HIDE DEF d, o, s
  <2> QED BY <2>3, <2>4 DEF DeviceStates
<1> DEFINE evs == <<"started">>
<1>5. events'[d] = events[d] \o evs /\ events'[o] = events[o]
  <2>1. Posts(d, evs)
      BY <1>1, PostSteps
  <2> QED BY <1>0, <1>1, <2>1, Posting DEF Posts
<1>6. /\ evs \in Seq(EventKinds) /\ events[d] \in Seq(EventKinds)
      /\ Settled(evs, {"peer_ok"}) /\ After(evs, "started", Resets)
    BY <1>0, <1>1, Short DEF EventKinds, WordsTyped
<1>7. dev[d].pend = None_ /\ phase[d] \notin Flow
    BY DEF InFlow
<1> HIDE DEF d, o, s, evs
<1>8. Speaks(d)
    BY <1>0, <1>2, <1>3, <1>4, <1>5 DEF Speaks
<1>9. \A e \in Devices : /\ Cold(e)' <=> Cold(e)
                         /\ Bare(e)' => Bare(e)
                         /\ dev'[e].dial = dev[e].dial /\ dev'[e].session = dev[e].session
                         /\ dev'[e].greeted = dev[e].greeted /\ dev'[e].deferred = dev[e].deferred
                         /\ Settled(events[e], {"peer_ok"}) => Settled(events'[e], {"peer_ok"})
                         /\ Other(e) \in Devices
  <2>1. \A e \in Devices : Settled(events[e], {"peer_ok"}) => Settled(events'[e], {"peer_ok"})
    <3>1. Settled(events[d], {"peer_ok"}) => Settled(events'[d], {"peer_ok"})
        BY <1>5, <1>6, Joined
    <3> QED BY <1>0, <1>5, <3>1
  <2>2. Bare(d)' => Bare(d)
      BY <1>3, <1>4 DEF Bare
  <2> QED BY <1>0, <1>2, <1>4, <2>1, <2>2 DEF Cold, Bare
<1>10. ColdInv'
  <2>1. ColdIsSilent'
      BY <1>1, <1>2, <1>9 DEF ColdIsSilent
  <2>2. GatedWaits' /\ BareIsAlone'
      BY <1>1, <1>2, <1>9 DEF GatedWaits, BareIsAlone
  <2>3. BareHearsNothing'
      BY <1>1, <1>2, <1>9 DEF BareHearsNothing, Reach
  <2> QED BY <2>1, <2>2, <2>3 DEF ColdInv
<1>11. Live(d)' /\ Shown(d)' /\ ~Live(d)
  <2>1. Live(d)'
      BY <1>2, <1>3, <1>4 DEF Live
  <2>2. Shown(d)'
      BY <1>5, <1>6, Joined DEF Shown
  <2>3. ~Live(d)
      BY <1>0, <1>1, <1>7 DEF Live, AcceptedIsShown, Flow
  <2> QED BY <2>1, <2>2, <2>3
<1>12. (Live(o)' <=> Live(o)) /\ (Shown(o)' <=> Shown(o)) /\ (Told(o)' <=> Told(o))
    BY <1>2, <1>4, <1>5 DEF Live, Shown, Told
<1>13. LiveIsShown'
    BY <1>0, <1>1, <1>11, <1>12 DEF LiveIsShown
<1>14. AcceptedIsShown'
  <2>1. dev[d].session \notin accepted[d]
      BY <1>2, <1>3, <1>11 DEF Live
  <2> QED BY <1>0, <1>1, <1>2, <1>4, <1>5, <2>1 DEF AcceptedIsShown
<1>15. Agreed'
  <2>1. spoilt \/ (dev'[o].session \in accepted'[d] => Live(o)')
      BY <1>0, <1>1, <1>2, <1>4, <1>12 DEF Agreed
  <2>2. \A k \in post' : k.kind = "resp" => k \in post
      BY <1>2
  <2> QED BY <1>0, <1>1, <1>2, <1>11, <2>1, <2>2 DEF Agreed
<1>16. AcceptDue'
  <2> SUFFICES ASSUME ~spoilt, NEW e \in Devices, NEW x, x = dev[e].session, x # None_,
                      dev[Other(e)].session = x, x \in accepted[Other(e)]
               PROVE  \/ Told(e)'
                      \/ \E k \in post' : k.kind = "accept" /\ k.to = e /\ k.session = x
                      \/ /\ dev[Other(e)].deferred
                         /\ \/ \E k \in post' : k.kind = "hello" /\ k.to = Other(e) /\ k.session = x
                            \/ dev[e].greeted # x
      BY <1>2, <1>9 DEF AcceptDue, Hello
  <2>1. \/ Told(e)
        \/ \E k \in post : k.kind = "accept" /\ k.to = e /\ k.session = x
        \/ dev[Other(e)].deferred /\ (Hello(Other(e), x) \/ dev[e].greeted # x)
      BY <1>1 DEF AcceptDue
  <2>2. e = o
      BY <1>0, <1>1, <1>11 DEF Agreed
  <2>3. \A k \in post : k.kind # "verify" => k \in post'
      BY <1>2
  <2> QED BY <1>12, <2>1, <2>2, <2>3 DEF Hello
<1> QED BY <1>0, <1>1, <1>8, <1>10, <1>13, <1>14, <1>15, <1>16, SpeaksShake DEF LiveInv, WordsInv

-----------------------------------------------------------------------------
\* A user accepts.

LEMMA AcceptKeeps ==
    ASSUME WordsInv, WordsTyped', NEW d \in Devices, Accept(d)
    PROVE  WordsInv'
<1> DEFINE o == Other(d)
           p == dev[d].pend
           s == dev[d].session
           bad == Resets \cup {"started"}
<1>0. /\ o \in Devices /\ o # d /\ Other(o) = d /\ Other(d) = o
      /\ \A e \in Devices : e = d \/ e = o
    BY Two
<1>1. /\ WordsTyped /\ SessionsTrusted /\ OneShake /\ Numbered /\ ColdIsSilent
      /\ GatedWaits /\ BareIsAlone /\ BareHearsNothing
      /\ LiveIsShown /\ AcceptedIsShown /\ Agreed /\ HelloDue /\ AcceptDue
    BY DEF WordsInv, ShakeInv, ColdInv, LiveInv
<1>2. p # None_ /\ events' = events /\ shakes' = shakes
    BY DEF Accept
<1>3. /\ dev'[d].hello = dev[d].hello /\ dev'[d].trust = dev[d].trust
      /\ dev'[d].session = s /\ dev'[d].dial = dev[d].dial
      /\ dev'[d].greeted = dev[d].greeted /\ dev'[d].pend = None_
      /\ (dev[d].deferred \/ ~dev[d].hello => dev'[d].deferred)
      /\ dev'[o] = dev[o]
  <2>1. /\ dev'[d] = [dev[d] EXCEPT !.pend = None_, !.deferred = dev[d].deferred \/ ~dev[d].hello]
        /\ dev'[o] = dev[o]
      BY <1>1, AcceptStep, Becoming
  <2>2. dev[d] \in DeviceStates
      BY <1>1, DeviceTyped
  <2> HIDE DEF o
  <2> QED BY <2>1, <2>2 DEF DeviceStates
<1>4. phase'[d] = LocalConfirmed(phase[d]) /\ phase'[o] = phase[o] /\ phase[d] \in Phases
  <2>1. phase \in [Devices -> Phases] /\ phase' = [phase EXCEPT ![d] = LocalConfirmed(phase[d])]
      BY <1>1 DEF WordsTyped, Accept
  <2> HIDE DEF o
  <2> QED BY <1>0, <2>1
<1>5. accepted'[d] = accepted[d] \cup {p} /\ accepted'[o] = accepted[o]
  <2>1. accepted \in [Devices -> SUBSET Nat] /\ accepted' = [accepted EXCEPT ![d] = accepted[d] \cup {p}]
      BY <1>1 DEF WordsTyped, Accept
  <2> HIDE DEF o, p
  <2> QED BY <1>0, <2>1
<1>6. /\ \A k \in post : k \in post'
      /\ \A k \in post' : k \in post \/ (k.to = o /\ k.session = s /\ k.session # None_ /\ k.kind = "accept")
      /\ dev[d].hello /\ s # None_ => \E k \in post' : k.kind = "accept" /\ k.to = o /\ k.session = s
  <2>1. {"accept"} \subseteq Said
      BY DEF Said
  <2>2. /\ \A k \in Sealed(d, {"accept"}) :
              k.to = o /\ k.session = s /\ k.session # None_ /\ k.kind = "accept"
        /\ s # None_ => \E k \in Sealed(d, {"accept"}) : k.kind = "accept" /\ k.to = o /\ k.session = s
      BY <1>1, <2>1, SealedLetters
  <2>3. post' = post \cup (IF dev[d].hello THEN Sealed(d, {"accept"}) ELSE {})
      BY DEF Accept
  <2> HIDE DEF o, s
  <2> QED BY <2>2, <2>3
<1>7. /\ spoilt => spoilt'
      /\ ~spoilt' => Compared(d)
    BY Zenon DEF Accept, Spoils
<1>8. ~spoilt' => dev[o].pend = p \/ p \in accepted[o]
    BY <1>7 DEF Compared
<1>9. \A i \in 1 .. Len(events[d]) : events[d][i] # "started"
    BY <1>1 DEF Accept, ToSet, WordsTyped
<1> HIDE DEF o, p, s
<1>a. p = dev[d].pend /\ s = dev[d].session
    BY DEF p, s
<1>10. Speaks(d)
  <2>1. spoilt => spoilt'
      BY <1>7
  <2> QED BY <1>0, <1>2, <1>3, <1>4, <1>5, <1>6, <1>a, <2>1 DEF Speaks
<1>11. ~Cold(d)' /\ (Cold(o)' <=> Cold(o)) /\ (Bare(o)' <=> Bare(o))
    BY <1>3, <1>5 DEF Cold, Bare
<1>12. ~spoilt' /\ Cold(o) => ~Bare(o)
    BY <1>2, <1>8 DEF Cold, Bare
<1>13. ColdInv'
  <2>1. ColdIsSilent'
    <3> SUFFICES ASSUME Cold(o)
                 PROVE  /\ ~dev'[o].deferred /\ phase'[o] \notin {"local_confirmed", "confirmed"}
                        /\ ~spoilt' =>
                              /\ phase'[d] \notin {"peer_confirmed", "confirmed"}
                              /\ Settled(events'[d], {"peer_ok"})
                              /\ \A k \in post' : k.kind = "accept" => k.to = o
        BY <1>0, <1>11 DEF ColdIsSilent
    <3>1. ~dev[o].deferred /\ phase[o] \notin {"local_confirmed", "confirmed"}
        BY <1>0, <1>1 DEF ColdIsSilent
    <3>2. ASSUME ~spoilt'
          PROVE  /\ phase'[d] \notin {"peer_confirmed", "confirmed"}
                 /\ Settled(events'[d], {"peer_ok"})
                 /\ \A k \in post' : k.kind = "accept" => k.to = o
      <4>1. ~spoilt
          BY <1>7, <3>2
      <4>2. /\ phase[d] \notin {"peer_confirmed", "confirmed"}
            /\ Settled(events[d], {"peer_ok"})
            /\ \A k \in post : k.kind = "accept" => k.to = o
          BY <1>0, <1>1, <4>1 DEF ColdIsSilent
      <4> QED BY <1>2, <1>4, <1>6, <4>2 DEF LocalConfirmed
    <3> QED BY <1>3, <1>4, <3>1, <3>2
  <2>2. GatedWaits'
      BY <1>0, <1>1, <1>3, <1>11 DEF GatedWaits
  <2>3. BareIsAlone' /\ BareHearsNothing'
      BY <1>0, <1>11, <1>12 DEF BareIsAlone, BareHearsNothing
  <2> QED BY <2>1, <2>2, <2>3 DEF ColdInv
<1>14. ASSUME s \in accepted'[d]
       PROVE  /\ s = p /\ s # None_ /\ phase[d] \in Flow
              /\ phase'[d] \in {"local_confirmed", "confirmed"} /\ Settled(events[d], bad)
  <2>1. s = p /\ s # None_
      BY <1>1, <1>2, <1>5, <1>14, <1>a DEF AcceptedIsShown
  <2>2. Shown(d)
      BY <1>1, <1>a, <2>1 DEF LiveIsShown, Live
  <2>3. phase[d] \in Flow /\ Settled(events[d], Resets)
      BY <1>9, <2>2 DEF Shown, After
  <2>4. Settled(events[d], bad)
      BY <1>9, <2>3 DEF Settled
  <2> QED BY <1>4, <2>1, <2>3, <2>4 DEF LocalConfirmed, Flow
<1>15. Live(d) => Live(d)'
    BY <1>3, <1>5, <1>a DEF Live
<1>16. Live(d)' => s \in accepted'[d]
    BY <1>3, <1>a DEF Live
<1>17. (Live(o)' <=> Live(o)) /\ (Shown(o)' <=> Shown(o)) /\ (Told(o)' <=> Told(o))
    BY <1>2, <1>3, <1>4, <1>5 DEF Live, Shown, Told
<1>18. LiveIsShown'
  <2>1. Live(d)' => Shown(d)'
    <3> SUFFICES ASSUME Live(d)' PROVE  Shown(d)'
        OBVIOUS
    <3>1. phase'[d] \in Flow /\ Settled(events[d], bad)
        BY <1>14, <1>16 DEF Flow
    <3>2. Settled(events'[d], Resets)
        BY <1>2, <3>1 DEF Settled
    <3> QED BY <3>1, <3>2 DEF Shown
  <2> QED BY <1>0, <1>1, <1>17, <2>1 DEF LiveIsShown
<1>19. AcceptedIsShown'
  <2>1. dev'[d].session \in accepted'[d] =>
            /\ dev'[d].pend = None_ /\ phase'[d] \in {"local_confirmed", "confirmed"}
            /\ Settled(events'[d], bad)
      BY <1>2, <1>3, <1>14
  <2>2. dev'[o].session \in accepted'[o] =>
            /\ dev'[o].pend = None_ /\ phase'[o] \in {"local_confirmed", "confirmed"}
            /\ Settled(events'[o], bad)
      BY <1>0, <1>1, <1>2, <1>3, <1>4, <1>5 DEF AcceptedIsShown
  <2> QED BY <1>0, <2>1, <2>2 DEF AcceptedIsShown
<1>20. Agreed'
  <2> SUFFICES ASSUME ~spoilt'
               PROVE  \A e \in Devices :
                         /\ dev'[e].session \in accepted'[Other(e)] => Live(e)'
                         /\ \A k \in post' : k.kind = "resp" => k.session \notin accepted'[Other(k.to)]
      BY DEF Agreed
  <2>0. ~spoilt /\ (dev[o].pend = p \/ p \in accepted[o])
      BY <1>7, <1>8
  <2>1. dev'[d].session \in accepted'[o] => Live(d)'
      BY <1>0, <1>1, <1>3, <1>5, <1>15, <1>a, <2>0 DEF Agreed
  <2>2. dev'[o].session \in accepted'[d] => Live(o)'
    <3> SUFFICES ASSUME dev[o].session \in accepted'[d] PROVE  Live(o)
        BY <1>3, <1>17
    <3>1. CASE dev[o].session \in accepted[d]
        BY <1>0, <1>1, <2>0, <3>1 DEF Agreed
    <3>2. CASE dev[o].session = p
        BY <1>2, <2>0, <3>2 DEF Live
    <3> QED BY <1>5, <3>1, <3>2
  <2>3. ASSUME NEW k \in post', k.kind = "resp" PROVE  k.session \notin accepted'[Other(k.to)]
    <3>1. k \in post /\ k.session \notin accepted[Other(k.to)] /\ Unused(k.to, k.session) /\ k.to \in Devices
        BY <1>1, <1>0, <1>6, <2>0, <2>3, LetterTyped DEF Agreed, Numbered
    <3>2. CASE k.to = d
        BY <1>0, <1>5, <3>1, <3>2
    <3>3. CASE k.to = o
        BY <1>0, <1>5, <2>0, <3>1, <3>3 DEF Unused
    <3> QED BY <1>0, <3>1, <3>2, <3>3
  <2> QED BY <1>0, <2>1, <2>2, <2>3
<1>21. AcceptDue'
  <2> SUFFICES ASSUME ~spoilt', NEW e \in Devices, NEW x, x = dev'[e].session, x # None_,
                      dev'[Other(e)].session = x, x \in accepted'[Other(e)]
               PROVE  \/ Told(e)'
                      \/ \E k \in post' : k.kind = "accept" /\ k.to = e /\ k.session = x
                      \/ /\ dev'[Other(e)].deferred
                         /\ \/ \E k \in post' : k.kind = "hello" /\ k.to = Other(e) /\ k.session = x
                            \/ dev'[e].greeted # x
      BY DEF AcceptDue, Hello
  <2>0. /\ ~spoilt /\ dev[d].session = x /\ dev[o].session = x
        /\ \A f \in Devices : dev'[f].greeted = dev[f].greeted
      BY <1>0, <1>3, <1>7, <1>a
  <2>1. \A f \in Devices : Hello(f, x) => \E k \in post' : k.kind = "hello" /\ k.to = f /\ k.session = x
      BY <1>6 DEF Hello
  <2>2. CASE x \in accepted[Other(e)]
    <3>1. \/ Told(e)
          \/ \E k \in post : k.kind = "accept" /\ k.to = e /\ k.session = x
          \/ dev[Other(e)].deferred /\ (Hello(Other(e), x) \/ dev[e].greeted # x)
        BY <1>0, <1>1, <2>0, <2>2 DEF AcceptDue
    <3>2. Told(d) => Told(d)'
        BY <1>2, <1>4 DEF Told, LocalConfirmed
    <3>3. \A f \in Devices : dev[f].deferred => dev'[f].deferred
        BY <1>0, <1>3
    <3> QED BY <1>0, <1>6, <1>17, <2>0, <2>1, <3>1, <3>2, <3>3
  <2>3. CASE e = o /\ x \notin accepted[d]
    <3>1. CASE dev[d].hello
        BY <1>6, <1>a, <2>0, <2>3, <3>1
    <3>2. CASE ~dev[d].hello
      <4>1. Hello(d, x) \/ dev[o].greeted # x
          BY <1>0, <1>1, <2>0, <3>2 DEF HelloDue
      <4> QED BY <1>0, <1>3, <2>0, <2>1, <2>3, <3>2, <4>1
    <3> QED BY <3>1, <3>2
  <2> QED BY <1>0, <1>5, <2>2, <2>3
<1> QED BY <1>10, <1>13, <1>18, <1>19, <1>20, <1>21, SpeaksShake DEF LiveInv, WordsInv

-----------------------------------------------------------------------------

LEMMA WordsStart == WordsInit => WordsInv
<1> SUFFICES ASSUME WordsInit PROVE  WordsInv
    OBVIOUS
<1>0. /\ dev = [d \in Devices |-> NewDevice] /\ phase = [d \in Devices |-> "idle"]
      /\ events = [d \in Devices |-> <<>>] /\ post = {} /\ shakes = 0 /\ mishaps = MaxMishaps
      /\ accepted = [d \in Devices |-> {}] /\ spoilt = FALSE
    BY DEF WordsInit
<1>1. /\ \A d \in Devices : /\ ~dev[d].trust /\ dev[d].pend = 0 /\ dev[d].session = 0
                            /\ dev[d].greeted = 0 /\ dev[d].dial = "no" /\ ~dev[d].deferred
                            /\ phase[d] = "idle" /\ events[d] = <<>> /\ accepted[d] = {}
      /\ NewDevice \in DeviceStates
    BY <1>0 DEF NewDevice, DeviceStates, None_
<1>2. \A d \in Devices : Other(d) \in Devices /\ ~Live(d) /\ ~Bare(d)
    BY <1>1, Two DEF Live, Bare, None_
<1>3. WordsTyped
  <2> DEFINE K == Seq(EventKinds)
  <2>1. <<>> \in K /\ MaxMishaps \in Nat /\ "idle" \in Phases
      BY Short, WordsAssumption DEF Phases
  <2>2. dev \in [Devices -> DeviceStates] /\ phase \in [Devices -> Phases]
      BY <1>0, <1>1, <2>1
  <2> HIDE DEF K
  <2>3. events \in [Devices -> K]
      BY <1>0, <2>1
  <2> QED BY <1>0, <2>1, <2>2, <2>3 DEF WordsTyped, K
<1>4. ShakeInv
    BY <1>0, <1>1, <1>3 DEF ShakeInv, SessionsTrusted, OneShake, Dropped, Numbered, None_
<1>5. ColdInv
  <2>1. \A d \in Devices : Settled(events[d], {"peer_ok"})
      BY <1>1, Short
  <2> QED BY <1>0, <1>1, <1>2, <2>1
          DEF ColdInv, ColdIsSilent, GatedWaits, BareIsAlone, BareHearsNothing
<1>6. LiveInv
    BY <1>0, <1>1, <1>2 DEF LiveInv, LiveIsShown, AcceptedIsShown, Agreed, HelloDue, AcceptDue, None_
<1> QED BY <1>4, <1>5, <1>6 DEF WordsInv

LEMMA WordsStep == WordsInv /\ [WordsNext]_wordsVars => WordsInv'
<1> SUFFICES ASSUME WordsInv, [WordsNext]_wordsVars PROVE  WordsInv'
    OBVIOUS
<1>1. WordsTyped /\ OneShake /\ WordsTyped'
    BY WordsType DEF WordsInv, ShakeInv
<1>2. CASE UNCHANGED wordsVars
  <2>1. ShakeInv'
      BY <1>1, <1>2 DEF WordsInv, wordsVars, ShakeInv, SessionsTrusted, OneShake, Dropped, Numbered,
                        Opening, Unused
  <2>2. ColdInv'
      BY <1>2 DEF WordsInv, wordsVars, ColdInv, ColdIsSilent, GatedWaits, BareIsAlone,
                  BareHearsNothing, Cold, Bare, Reach
  <2>3. LiveInv'
    <3>1. LiveIsShown' /\ AcceptedIsShown' /\ Agreed'
        BY <1>2 DEF WordsInv, wordsVars, LiveInv, LiveIsShown, AcceptedIsShown, Agreed, Live, Shown
    <3>2. HelloDue'
        BY <1>2 DEF WordsInv, wordsVars, LiveInv, HelloDue, Hello
    <3>3. AcceptDue'
        BY <1>2 DEF WordsInv, wordsVars, LiveInv, AcceptDue, Hello, Told
    <3> QED BY <3>1, <3>2, <3>3 DEF LiveInv
  <2> QED BY <2>1, <2>2, <2>3 DEF WordsInv
<1>3. ASSUME NEW d \in Devices,
             \/ Scan(d) \/ Redial(d) \/ WindowCloses(d) \/ DialFails(d) \/ Greet(d)
             \/ Accept(d) \/ Reject(d) \/ Revoke(d) \/ ReapWords(d) \/ LinkLost(d) \/ SasEvent(d)
      PROVE  WordsInv'
  <2>1. CASE Scan(d) \/ Redial(d)
      BY <1>1, <2>1, DialKeeps
  <2>2. CASE DialFails(d)
      BY <1>1, <2>2, DialFailsKeeps
  <2>3. CASE WindowCloses(d) \/ Greet(d)
      BY <1>1, <2>3, Pauses, CalmKeeps
  <2>4. CASE Accept(d)
      BY <1>1, <2>4, AcceptKeeps
  <2>5. CASE Reject(d) \/ Revoke(d) \/ ReapWords(d) \/ LinkLost(d)
      BY <1>1, <2>5, Endings, CalmKeeps
  <2>6. CASE SasEvent(d)
      BY <1>1, <2>6, SasEventKeeps
  <2> QED BY <1>3, <2>1, <2>2, <2>3, <2>4, <2>5, <2>6
<1>4. ASSUME NEW m \in post,
             \/ Respond(m) \/ Establish(m) \/ RecvHello(m) \/ RecvAccept(m) \/ RecvReject(m)
             \/ RecvRevoke(m) \/ RecvBye(m) \/ RecvVerify(m) \/ LetterLost(m) \/ Unreadable_(m)
      PROVE  WordsInv'
  <2>0. m.to \in Devices
      BY <1>1, LetterTyped
  <2>1. CASE Respond(m)
      BY <1>1, <2>1, RespondKeeps
  <2>2. CASE Establish(m)
      BY <1>1, <2>2, EstablishKeeps
  <2>3. CASE RecvHello(m)
      BY <1>1, <2>3, HelloKeeps
  <2>4. CASE RecvAccept(m)
      BY <1>1, <2>4, HearsAcceptKeeps
  <2>5. CASE RecvReject(m) \/ RecvRevoke(m) \/ RecvBye(m)
      BY <1>1, <2>0, <2>5, Endings, CalmKeeps
  <2>6. CASE RecvVerify(m)
    <3>1. CASE dev[m.to].trust /\ ~InFlow(m.to)
        BY <1>1, <2>6, <3>1, VerifyKeeps
    <3>2. CASE ~dev[m.to].trust \/ InFlow(m.to)
        BY <1>1, <2>0, <2>6, <3>2, Pauses, CalmKeeps
    <3> QED BY <3>1, <3>2
  <2>7. CASE LetterLost(m) \/ Unreadable_(m)
      BY <1>1, <2>0, <2>7, Pauses, CalmKeeps
  <2> QED BY <1>4, <2>1, <2>2, <2>3, <2>4, <2>5, <2>6, <2>7
<1> QED BY <1>2, <1>3, <1>4 DEF WordsNext

\* Unless words were accepted unseen or a message was lost, no device shows a pairing
\* confirmed before both users have accepted words (app.rs SasPeerConfirmed).
THEOREM ConfirmedOnTwoWords == WordsSpec => []ConfirmedByTwo
<1>1. WordsInv => ConfirmedByTwo
  <2> SUFFICES ASSUME WordsInv, ~spoilt, NEW d \in Devices, phase[d] = "confirmed", NEW e \in Devices
               PROVE  accepted[e] # {}
      BY DEF ConfirmedByTwo
  <2>1. ColdIsSilent /\ (e = d \/ Other(e) = d)
      BY Two DEF WordsInv, ColdInv
  <2> QED BY <2>1 DEF ColdIsSilent, Cold
<1> QED BY <1>1, WordsStart, WordsStep, PTL DEF WordsSpec

\* Whatever was rejected, revoked, cut off or timed out before: two users who accept the
\* words of the session they share both learn of it (the accept put off until the Hello,
\* inbound.rs Hello and PairConfirm).
THEOREM BothDevicesLearn == WordsSpec => []BothLearn
<1>1. WordsInv => BothLearn
  <2> SUFFICES ASSUME WordsInv, Quiet, ~spoilt, NEW s \in 1 .. shakes,
                      \A d \in Devices : dev[d].session = s /\ s \in accepted[d],
                      NEW d \in Devices
               PROVE  phase[d] = "confirmed"
      BY DEF BothLearn
  <2>1. AcceptedIsShown /\ AcceptDue /\ WordsTyped
      BY DEF WordsInv, LiveInv, ShakeInv
  <2>2. Other(d) \in Devices /\ s # None_
      BY Two, <2>1 DEF WordsTyped, None_
  <2>3. phase[d] \in {"local_confirmed", "confirmed"}
      BY <2>1 DEF AcceptedIsShown
  <2>4. post = {} /\ events[d] = <<>> /\ dev[d].greeted = s
      BY <2>2 DEF Quiet
  <2>5. Told(d)
      BY <2>1, <2>2, <2>4 DEF AcceptDue, Hello
  <2>6. ~After(events[d], "peer_ok", Resets \cup {"started"})
      BY <2>4 DEF After
  <2> QED BY <2>3, <2>5, <2>6 DEF Told
<1> QED BY <1>1, WordsStart, WordsStep, PTL DEF WordsSpec
=============================================================================
