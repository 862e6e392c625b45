----------------------------- MODULE Transport -----------------------------
(***************************************************************************)
(* The session slots of a daemon (transport.rs): the primary slot, the     *)
(* map of secondary slots, and the operations that fill, replace, move,    *)
(* empty and use them.  A slot's session, peer id and generation sit       *)
(* behind three locks; a step here is what the code does under one of      *)
(* them, and the tasks that take those steps interleave.                   *)
(*                                                                         *)
(* A session is known by its peer and a number, and stands for the keys    *)
(* of one handshake.  Addresses, byte counts and clocks are left out.      *)
(***************************************************************************)
EXTENDS Naturals, FiniteSets

CONSTANTS
    Remotes,       \* the remote devices
    Extras,      \* the PeerConn objects secondary slots are made of
    Tasks,       \* what may run at one time
    Primary,     \* the PeerConn of the primary slot
    None,        \* no peer, no session, no slot
    MaxSessions, \* bound on the handshakes with one peer
    MaxGen,      \* bound on the generation of a slot
    Schedules    \* the schedulings explored: may others run between two locks?

ASSUME SlotAssumption ==
    /\ Primary \notin Extras
    /\ None \notin Remotes \cup Extras \cup {Primary} \cup (Remotes \X Nat)
    /\ MaxSessions \in Nat /\ MaxGen \in Nat
    /\ Schedules \subseteq {"between locks", "between operations"}

Conns == Extras \cup {Primary}
Sessions == Remotes \X (1 .. MaxSessions)
Owner(s) == s[1]

VARIABLES
    session,   \* the session in each slot
    label,     \* last_peer_id of each slot
    gen,       \* session_generation of each slot
    extra,     \* the secondary slot of each peer
    born,      \* the sessions the handshakes have made
    task,      \* what each task is doing
    schedule   \* where the runtime switches tasks in this behaviour

slotVars == <<session, label, gen, extra, born, task, schedule>>
slots == <<session, label, gen, extra>>

Ops == {"none", "Install", "Rekey", "Drop", "Purge", "Promote", "Send", "Recv"}
Steps == {"none", "shake", "cur", "live", "extra", "resolve", "commit", "label", "bump",
          "null", "unmap", "take", "move", "read", "seal", "more", "open"}

\* peer: for whom; conn: the slot resolved; own: the session carried; gen: the
\* generation read, and saw: the slot it was read from with its session; cands:
\* the slots a receive tries; again: set_peer_info is running.
Idle == [op |-> "none", at |-> "none", peer |-> None, conn |-> None, own |-> None,
         gen |-> 0, saw |-> None, cands |-> {}, again |-> FALSE]

SlotInit ==
    /\ session = [c \in Conns |-> None] /\ label = [c \in Conns |-> None]
    /\ gen = [c \in Conns |-> 0] /\ extra = [p \in Remotes |-> None]
    /\ born = {}
    /\ task = [t \in Tasks |-> Idle]
    /\ schedule \in Schedules

\* An operation has begun and is not waiting for the network.
Running(t) == task[t].at \notin {"none", "shake"}

MayRun(t) == schedule = "between operations" => \A u \in Tasks \ {t} : ~Running(u)

Goto(t, at) == task' = [task EXCEPT ![t].at = at]
Finish(t) == task' = [task EXCEPT ![t] = Idle]
At(t, op, at) == task[t].op = op /\ task[t].at = at

Start(t, op, at, p, s) ==
    /\ task[t] = Idle
    /\ task' = [task EXCEPT ![t].op = op, ![t].at = at, ![t].peer = p, ![t].own = s]

\* conn_for: the slot that tracks p.
ConnFor(p) == IF label[Primary] = p THEN Primary ELSE extra[p]

\* A PeerConn nothing refers to: a new one has never been seen by anybody.
Unused(c) ==
    /\ \A p \in Remotes : extra[p] # c
    /\ \A t \in Tasks :
          /\ task[t].conn # c /\ \A x \in task[t].cands : x[2] # c
          /\ task[t].op = "Rekey" => task[t].saw[1] # c

-----------------------------------------------------------------------------
\* Installing the session of a handshake.

Handshakes(s) ==
    /\ s \in Sessions \ born
    /\ \A k \in 1 .. (s[2] - 1) : <<s[1], k>> \in born
    /\ born' = born \cup {s}

\* run_initiator, and run_responder for a peer no slot tracks.  A peer with a
\* live session is not dialled.
Install(t, s) ==
    /\ ConnFor(Owner(s)) # None => session[ConnFor(Owner(s))] = None
    /\ Handshakes(s)
    /\ Start(t, "Install", "shake", Owner(s), s)
    /\ UNCHANGED <<slots, schedule>>

\* run_responder and run_rekey_initiator for a peer some slot tracks read its
\* generation before the handshake.
Rekey(t, s) ==
    /\ ConnFor(Owner(s)) # None
    /\ Handshakes(s)
    /\ task[t] = Idle
    /\ LET c == ConnFor(Owner(s))
       IN  task' = [task EXCEPT ![t] = [Idle EXCEPT !.op = "Rekey", !.at = "shake",
                        !.peer = Owner(s), !.own = s, !.gen = gen[c], !.saw = <<c, session[c]>>]]
    /\ UNCHANGED <<slots, schedule>>

\* The messages are exchanged: try_install_session, or the install that compares
\* generations.  Or they are not, and the attempt is given up.
Shaken(t) ==
    /\ task[t].at = "shake"
    /\ Goto(t, IF task[t].op = "Install" THEN "cur" ELSE "resolve") \/ Finish(t)
    /\ UNCHANGED <<slots, born, schedule>>

\* What acquire_conn is called for: the install, then set_peer_info.
Acquired(t, c) ==
    task' = [task EXCEPT ![t].conn = c, ![t].at = IF task[t].again THEN "label" ELSE "commit"]

\* acquire_conn reads the primary's peer first ...
AcquireCur(t) ==
    /\ task[t].at = "cur"
    /\ IF label[Primary] \in {task[t].peer, None} THEN Acquired(t, Primary) ELSE Goto(t, "live")
    /\ UNCHANGED <<slots, born, schedule>>

\* ... then whether it is linked ...
AcquireLive(t) ==
    /\ task[t].at = "live"
    /\ IF session[Primary] = None THEN Acquired(t, Primary) ELSE Goto(t, "extra")
    /\ UNCHANGED <<slots, born, schedule>>

\* ... and else takes the peer's secondary slot, or makes one.
AcquireExtra(t) ==
    /\ task[t].at = "extra"
    /\ \E c \in Extras :
          /\ IF extra[task[t].peer] # None
             THEN c = extra[task[t].peer] /\ UNCHANGED slots
             ELSE /\ Unused(c)
                  /\ extra' = [extra EXCEPT ![task[t].peer] = c]
                  /\ session' = [session EXCEPT ![c] = None]
                  /\ label' = [label EXCEPT ![c] = None]
                  /\ gen' = [gen EXCEPT ![c] = 0]
          /\ Acquired(t, c)
    /\ UNCHANGED <<born, schedule>>

\* try_install_session: only an empty slot is filled.
CommitInstall(t) ==
    /\ At(t, "Install", "commit")
    /\ IF session[task[t].conn] # None
       THEN Finish(t) /\ UNCHANGED session
       ELSE /\ session' = [session EXCEPT ![task[t].conn] = task[t].own]
            /\ Goto(t, "label")
    /\ UNCHANGED <<label, gen, extra, born, schedule>>

\* The slot that tracks the peer, looked up again.
Resolve(t) ==
    /\ task[t].at = "resolve"
    /\ LET c == ConnFor(task[t].peer)
           then == IF task[t].op = "Rekey" THEN "commit"
                   ELSE IF task[t].op = "Send" THEN "read" ELSE "null"
       IN  IF c # None THEN task' = [task EXCEPT ![t].conn = c, ![t].at = then]
           ELSE IF task[t].op = "Purge" THEN Goto(t, "unmap") ELSE Finish(t)
    /\ UNCHANGED <<slots, born, schedule>>

\* install_session_if_generation_for: the session is replaced if the generation
\* is still the one read.
CommitRekey(t) ==
    /\ At(t, "Rekey", "commit")
    /\ LET c == task[t].conn
       IN  IF gen[c] # task[t].gen
           THEN Finish(t) /\ UNCHANGED <<session, gen>>
           ELSE /\ gen[c] < MaxGen
                /\ session' = [session EXCEPT ![c] = task[t].own]
                /\ gen' = [gen EXCEPT ![c] = @ + 1]
                /\ Goto(t, "label")
    /\ UNCHANGED <<label, extra, born, schedule>>

\* Variant: set_peer_info writes the primary's id, whatever slot it was given.
LabelPrimary(t) ==
    /\ task[t].at = "label" /\ task[t].op \in {"Install", "Rekey"}
    /\ label' = [label EXCEPT ![Primary] = task[t].peer]
    /\ IF task[t].again THEN Finish(t)
       ELSE IF task[t].op = "Install" THEN Goto(t, "bump")
       ELSE task' = [task EXCEPT ![t].at = "cur", ![t].again = TRUE]
    /\ UNCHANGED <<session, gen, extra, born, schedule>>

\* last_peer_id follows the session.  set_peer_info then looks for the peer's
\* slot once more and labels it again.
Label(t) ==
    /\ task[t].at = "label" /\ task[t].op \in {"Install", "Rekey"}
    /\ label' = [label EXCEPT ![task[t].conn] = task[t].peer]
    /\ IF task[t].again THEN Finish(t)
       ELSE IF task[t].op = "Install" THEN Goto(t, "bump")
       ELSE task' = [task EXCEPT ![t].at = "cur", ![t].again = TRUE]
    /\ UNCHANGED <<session, gen, extra, born, schedule>>

\* The generation counts every change of a slot's session.
Bump(t) ==
    /\ task[t].at = "bump" /\ gen[task[t].conn] < MaxGen
    /\ gen' = [gen EXCEPT ![task[t].conn] = @ + 1]
    /\ IF task[t].op = "Install" THEN task' = [task EXCEPT ![t].at = "cur", ![t].again = TRUE]
       ELSE IF task[t].op = "Purge" THEN Goto(t, "unmap")
       ELSE Finish(t)
    /\ UNCHANGED <<session, label, extra, born, schedule>>

-----------------------------------------------------------------------------
\* Emptying a slot and moving a session.

\* drop_session empties the primary slot, whoever is in it.
DropPrimary(t) ==
    /\ task[t] = Idle
    /\ task' = [task EXCEPT ![t].op = "Drop", ![t].at = "null", ![t].conn = Primary]
    /\ UNCHANGED <<slots, born, schedule>>

\* drop_session_for and purge_peer look the slot up.
Drop(t, op, p) ==
    /\ Start(t, op, "resolve", p, None)
    /\ UNCHANGED <<slots, born, schedule>>

\* Variant: a drop does not count as a change of the session.
NullUncounted(t) ==
    /\ task[t].at = "null"
    /\ session' = [session EXCEPT ![task[t].conn] = None]
    /\ IF task[t].op = "Purge" THEN Goto(t, "unmap") ELSE Finish(t)
    /\ UNCHANGED <<label, gen, extra, born, schedule>>

Null(t) ==
    /\ task[t].at = "null"
    /\ session' = [session EXCEPT ![task[t].conn] = None]
    /\ Goto(t, "bump")
    /\ UNCHANGED <<label, gen, extra, born, schedule>>

\* purge_peer forgets the secondary slot.
Unmap(t) ==
    /\ task[t].at = "unmap"
    /\ extra' = [extra EXCEPT ![task[t].peer] = None]
    /\ Finish(t)
    /\ UNCHANGED <<session, label, gen, born, schedule>>

\* promote_secondary: a linked secondary leaves the map ...
Promote(t, p) ==
    /\ task[t] = Idle
    /\ extra[p] # None /\ session[extra[p]] # None
    /\ extra' = [extra EXCEPT ![p] = None]
    /\ task' = [task EXCEPT ![t].op = "Promote", ![t].at = "take", ![t].peer = p,
                           ![t].conn = extra[p]]
    /\ UNCHANGED <<session, label, gen, born, schedule>>

\* Variant: the session is copied out of the secondary.
TakeOutCopy(t) ==
    /\ task[t].at = "take"
    /\ LET c == task[t].conn
       IN  IF session[c] = None THEN Finish(t)
           ELSE task' = [task EXCEPT ![t].own = session[c], ![t].conn = Primary, ![t].at = "move"]
    /\ UNCHANGED <<slots, born, schedule>>

\* ... its session is taken out, if it is still there ...
TakeOut(t) ==
    /\ task[t].at = "take"
    /\ LET c == task[t].conn
       IN  /\ session' = [session EXCEPT ![c] = None]
           /\ IF session[c] = None THEN Finish(t)
              ELSE task' = [task EXCEPT ![t].own = session[c], ![t].conn = Primary, ![t].at = "move"]
    /\ UNCHANGED <<label, gen, extra, born, schedule>>

\* ... and put into the primary slot, whatever that holds ...
Move(t) ==
    /\ task[t].at = "move"
    /\ session' = [session EXCEPT ![Primary] = task[t].own]
    /\ Goto(t, "label")
    /\ UNCHANGED <<label, gen, extra, born, schedule>>

\* Variant: the primary keeps its old id.
LabelPromotedKept(t) ==
    /\ At(t, "Promote", "label")
    /\ Goto(t, "bump")
    /\ UNCHANGED <<slots, born, schedule>>

\* ... which is labelled, and the generation counted, afterwards.
LabelPromoted(t) ==
    /\ At(t, "Promote", "label")
    /\ label' = [label EXCEPT ![Primary] = task[t].peer]
    /\ Goto(t, "bump")
    /\ UNCHANGED <<session, gen, extra, born, schedule>>

-----------------------------------------------------------------------------
\* Using a slot.

\* send_encrypted_to.
SendEncrypted(t, p) ==
    /\ Start(t, "Send", "resolve", p, None)
    /\ UNCHANGED <<slots, born, schedule>>

\* send_on reads the generation ...
ReadGen(t) ==
    /\ task[t].at = "read"
    /\ LET c == task[t].conn
       IN  task' = [task EXCEPT ![t].gen = gen[c], ![t].saw = <<c, session[c]>>, ![t].at = "seal"]
    /\ UNCHANGED <<slots, born, schedule>>

\* Variant: the generation is not compared again.
SealsAnyway(t) == task[t].at = "seal" /\ session[task[t].conn] # None

\* ... and encrypts if it finds a session and the same generation under the lock.
Seals(t) ==
    /\ task[t].at = "seal"
    /\ session[task[t].conn] # None /\ gen[task[t].conn] = task[t].gen

Seal(t) ==
    /\ Seals(t)
    /\ Finish(t)
    /\ UNCHANGED <<slots, born, schedule>>

AbortSend(t) ==
    /\ task[t].at = "seal" /\ ~Seals(t)
    /\ Finish(t)
    /\ UNCHANGED <<slots, born, schedule>>

\* recv: a datagram under session s.  The candidates are the primary ...
Recv(t, s) ==
    /\ s \in born /\ task[t] = Idle
    /\ \A u \in Tasks : task[u].op # "Recv"
    /\ task' = [task EXCEPT ![t].op = "Recv", ![t].at = "more", ![t].own = s,
           ![t].cands = IF label[Primary] = None THEN {} ELSE {<<label[Primary], Primary>>}]
    /\ UNCHANGED <<slots, born, schedule>>

\* ... and every secondary.
RecvMore(t) ==
    /\ task[t].at = "more"
    /\ LET secondaries == {p \in Remotes : extra[p] # None}
       IN  task' = [task EXCEPT ![t].at = "open",
                                ![t].cands = @ \cup {<<p, extra[p]>> : p \in secondaries}]
    /\ UNCHANGED <<slots, born, schedule>>

\* Each is tried in turn, the primary first.
Tries(t, x) ==
    /\ task[t].at = "open" /\ x \in task[t].cands
    /\ x[2] = Primary \/ \A y \in task[t].cands : y[2] # Primary

\* The frame belongs to the peer under which the slot that opens it was listed.
Open(t) ==
    /\ \E x \in task[t].cands : Tries(t, x) /\ session[x[2]] = task[t].own
    /\ Finish(t)
    /\ UNCHANGED <<slots, born, schedule>>

TryNext(t) ==
    /\ \E x \in task[t].cands :
          /\ Tries(t, x) /\ session[x[2]] # task[t].own
          /\ task' = [task EXCEPT ![t].cands = @ \ {x}]
    /\ UNCHANGED <<slots, born, schedule>>

\* No session opens it.
Undecryptable(t) ==
    /\ task[t].at = "open" /\ task[t].cands = {}
    /\ Finish(t)
    /\ UNCHANGED <<slots, born, schedule>>

-----------------------------------------------------------------------------

SlotNext ==
    \E t \in Tasks :
        /\ MayRun(t)
        /\ \/ \E s \in Sessions : Install(t, s) \/ Rekey(t, s) \/ Recv(t, s)
           \/ \E p \in Remotes : \/ Drop(t, "Drop", p) \/ Drop(t, "Purge", p)
                               \/ Promote(t, p) \/ SendEncrypted(t, p)
           \/ DropPrimary(t) \/ Shaken(t)
           \/ AcquireCur(t) \/ AcquireLive(t) \/ AcquireExtra(t) \/ Resolve(t)
           \/ CommitInstall(t) \/ CommitRekey(t) \/ Label(t) \/ Bump(t)
           \/ Null(t) \/ Unmap(t) \/ TakeOut(t) \/ Move(t) \/ LabelPromoted(t)
           \/ ReadGen(t) \/ Seal(t) \/ AbortSend(t)
           \/ RecvMore(t) \/ Open(t) \/ TryNext(t) \/ Undecryptable(t)

SlotSpec == SlotInit /\ [][SlotNext]_slotVars
-----------------------------------------------------------------------------
\* Nobody is between two locks.
AtRest == \A t \in Tasks : ~Running(t)

WholeOperations == schedule = "between operations"

Linked(c) == session[c] # None /\ (c = Primary \/ \E p \in Remotes : extra[p] = c)

\* Whatever the scheduling, the keys of a handshake sit in one place: promotion
\* moves a session and leaves none behind, so no nonce is used from two slots.
OneHolder ==
    LET Carried(t) == IF At(t, "Promote", "move") THEN {task[t].own} ELSE {}
    IN  /\ \A c, d \in Conns : c # d /\ session[c] # None => session[c] # session[d]
        /\ \A t \in Tasks : \A c \in Conns : session[c] \notin Carried(t)

\* The slots implement the promise of SessionKeys, whatever the scheduling: installs,
\* rekeys, drops and promotions that cross at any lock never bring back the keys of a
\* session that was given up, replaced or dropped, and never have them in two places.
Installs == {"Install", "Rekey"}
Handshaking(k) ==
    /\ k.op \in Installs /\ ~k.again
    /\ k.at \in {"shake", "cur", "live", "extra", "resolve", "commit"}
OwnedBy(ts) == {task[t].own : t \in ts}
Fresh == OwnedBy({t \in Tasks : Handshaking(task[t])})
InMotion == OwnedBy({t \in Tasks : task[t].at = "move"})

Handed ==
    INSTANCE SessionKeys WITH
        Keys <- Sessions, Slots <- Conns, Front <- Primary,
        made <- born, fresh <- Fresh, slot <- session, moving <- InMotion
KeysAreHandedOn == Handed!KSpec

\* recv hands a datagram on under the name of the device whose session opened
\* it, through installs, rekeys, purges and promotions that run to their end.
ReceivedFromOwner ==
    WholeOperations =>
        \A t \in Tasks : \A x \in task[t].cands :
            Tries(t, x) /\ session[x[2]] = task[t].own => x[1] = Owner(task[t].own)

\* The session of c has changed and its generation does not count it yet.
Changing(c) ==
    \E t \in Tasks :
        /\ task[t].conn = c
        /\ \/ task[t].at = "bump"
           \/ task[t].at = "label" /\ task[t].op # "Rekey" /\ ~task[t].again

\* Whatever the scheduling, a frame is encrypted under the very session that was in the
\* slot when the send read its generation: rekeys, reconnects, drops and promotions that
\* cut in between make send_on give up, except while an install or a promotion has put
\* its session in place and has yet to count it.
SealsWhatItRead ==
    \A t \in Tasks :
        Seals(t) => session[task[t].conn] = task[t].saw[2] \/ Changing(task[t].conn)

\* Between operations a linked slot carries the id of the device its session is
\* with, whichever way the session came in.
SlotNamesItsPeer ==
    WholeOperations /\ AtRest => \A c \in Conns : Linked(c) => label[c] = Owner(session[c])

\* A rekey that finds the generation it read replaces the session it saw: every
\* way of changing a slot counts, so a slow handshake never undoes a newer one.
RekeyReplacesWhatItSaw ==
    WholeOperations =>
        \A t \in Tasks :
            /\ At(t, "Rekey", "commit")
            /\ gen[task[t].conn] = task[t].gen /\ task[t].saw[1] = task[t].conn
            => session[task[t].conn] = task[t].saw[2]

\* The slot a lookup by peer id finds is the one that holds the device's live
\* session: set_peer_info labels the slot the session landed on.
LinkedPeerIsFound ==
    WholeOperations /\ AtRest =>
        \A c \in Conns : Linked(c) => ConnFor(Owner(session[c])) = c
=============================================================================
