----------------------------- MODULE PairTrust -----------------------------
(***************************************************************************)
(* Who a daemon trusts: the trusted set in memory, peers.json on disk and  *)
(* the pairings that wait for the user's verdict, under the tasks that     *)
(* change them: the event loop's commands, the receive loop, the pending   *)
(* reaper and the handshake tasks (handshake.rs, driver/peers.rs,          *)
(* driver/commands.rs, driver/inbound.rs, driver/pairing.rs).              *)
(*                                                                         *)
(* A step ends where the code awaits a lock or the disk.  Two locks are    *)
(* held across steps: the disk lock by a save, which reads the trusted set *)
(* under it, and the trusted lock by a handshake that admits a new peer,   *)
(* while it stores that peer.  Time is abstracted: a deadline may have     *)
(* passed whenever the code looks at it.                                   *)
(***************************************************************************)
EXTENDS FiniteSets

CONSTANTS
    Devices,      \* the devices a user may pair with
    Handshakes  \* the handshake tasks that may run at one time

VARIABLES
    trusted,    \* TrustedSet: the peers trusted in memory
    disk,       \* the peers stored in peers.json
    pending,    \* PendingSet: the pairings the user has not ruled on
    window,     \* whether the pairing window is open
    linked,     \* the peers with a live session
    job,        \* what each task is doing, and its next step
    snap,       \* what the save that holds the disk lock read of trusted
    unverified, \* history: trusted peers whose last verification was not accepted
    refused,    \* history: peers whose removal was acknowledged last
    faults      \* history: what has happened so far, of Faults

trustVars == <<trusted, disk, pending, window, linked, job, snap, unverified,
               refused, faults>>
trustHistory == <<unverified, refused, faults>>

Tasks == {"cmd", "recv", "reaper"} \cup Handshakes

ASSUME HandshakesAssumption == Handshakes \cap {"cmd", "recv", "reaper"} = {}

Ops == {"none", "Unpair", "Revoke", "Reject", "Pair", "PeerRevoked",
        "PeerRejected", "Verify", "Roam", "Reap", "Respond", "Dial"}
Steps == {"none", "clear", "distrust", "purge", "save", "read", "write",
          "saved", "failed", "repend", "insert", "upsert", "unstored",
          "pend", "dial", "install", "note", "addr"}

\* write: peers.json could not be written.  read: it could not be read at
\* start-up.  restart: the daemon restarted.  stale: a peer was stored after it
\* had left the trusted set.  sweep: an entry left the pending set because its
\* time was up, or for lack of room, and not by the reaper.  late: a revocation
\* by the peer cleared the pending entry of a newer pairing.
Faults == {"write", "read", "restart", "stale", "sweep", "late"}

Idle == [op |-> "none", at |-> "none", who |-> {}, back |-> {}, gate |-> FALSE]

TrustInit ==
    /\ trusted = {} /\ disk = {} /\ pending = {}
    /\ window = FALSE /\ linked = {}
    /\ job = [t \in Tasks |-> Idle] /\ snap = {}
    /\ unverified = {} /\ refused = {} /\ faults = {}

-----------------------------------------------------------------------------

\* The lock on TrustedSet: held over the store of a peer admitted on first use.
TrustFree == \A h \in Handshakes : ~(job[h].op = "Respond" /\ job[h].at = "upsert")

\* Variant: peers.json is read and written without the lock.
DiskUnlocked == TRUE

\* peers_disk_lock.
DiskFree == \A t \in Tasks : job[t].at \notin {"read", "write"}

Begin(t, op, at, who, gate) ==
    /\ job[t] = Idle
    /\ job' = [job EXCEPT ![t] =
          [op |-> op, at |-> at, who |-> who, back |-> {}, gate |-> gate]]

Goto(t, at) == job' = [job EXCEPT ![t].at = at]
Finish(t) == job' = [job EXCEPT ![t] = Idle]

-----------------------------------------------------------------------------
\* Saving the whole trusted set: save_peers_with_retry.  Only the last attempt
\* is modelled: one that fails before it has no effect.

LockDisk(t) ==
    /\ job[t].at = "save" /\ DiskFree
    /\ Goto(t, "read")
    /\ UNCHANGED <<trusted, disk, pending, window, linked, snap, trustHistory>>

\* save_current_peers takes the trusted lock while it holds the disk lock.
ReadTrusted(t) ==
    /\ job[t].at = "read" /\ TrustFree
    /\ snap' = trusted
    /\ Goto(t, "write")
    /\ UNCHANGED <<trusted, disk, pending, window, linked, trustHistory>>

WritePeers(t) ==
    /\ job[t].at = "write"
    /\ \/ disk' = snap /\ faults' = faults /\ Goto(t, "saved")
       \/ disk' = disk /\ faults' = faults \cup {"write"} /\ Goto(t, "failed")
    /\ snap' = {}
    /\ UNCHANGED <<trusted, pending, window, linked, unverified, refused>>

-----------------------------------------------------------------------------
\* Removing trust.

\* Unpair takes a copy of the set, then clears it.
CmdUnpair ==
    /\ job["cmd"] = Idle /\ TrustFree
    /\ job' = [job EXCEPT !["cmd"] = [op |-> "Unpair", at |-> "clear",
                  who |-> Devices, back |-> trusted, gate |-> FALSE]]
    /\ UNCHANGED <<trusted, disk, pending, window, linked, snap, trustHistory>>

Clear ==
    /\ job["cmd"].at = "clear" /\ TrustFree
    /\ trusted' = {} /\ unverified' = {}
    /\ Goto("cmd", "save")
    /\ UNCHANGED <<disk, pending, window, linked, snap, refused, faults>>

CmdRevoke(p) ==
    /\ Begin("cmd", "Revoke", "distrust", {p}, FALSE)
    /\ UNCHANGED <<trusted, disk, pending, window, linked, snap, trustHistory>>

\* PairConfirm with accept = false.
CmdReject(p) ==
    /\ p \in pending
    /\ Begin("cmd", "Reject", "distrust", {p}, FALSE)
    /\ pending' = pending \ {p}
    /\ UNCHANGED <<trusted, disk, window, linked, snap, trustHistory>>

\* Msg::Revoke from a linked peer.
RecvRevoke(p) ==
    /\ p \in linked
    /\ Begin("recv", "PeerRevoked", "distrust", {p}, FALSE)
    /\ UNCHANGED <<trusted, disk, pending, window, linked, snap, trustHistory>>

\* Msg::PairConfirm with accept = false from a linked peer.
RecvReject(p) ==
    /\ p \in linked
    /\ Begin("recv", "PeerRejected", "distrust", {p}, FALSE)
    /\ pending' = pending \ {p}
    /\ UNCHANGED <<trusted, disk, window, linked, snap, trustHistory>>

\* Variant: the reaper forgets the entries and leaves their trust.
ReapForgets(expired) ==
    /\ expired # {} /\ expired \subseteq pending
    /\ job["reaper"] = Idle
    /\ pending' = pending \ expired
    /\ UNCHANGED <<trusted, disk, window, linked, job, snap, trustHistory>>

\* The reaper's tick takes every entry whose window is over.
Reap(expired) ==
    /\ expired # {} /\ expired \subseteq pending
    /\ Begin("reaper", "Reap", "distrust", expired, FALSE)
    /\ pending' = pending \ expired
    /\ UNCHANGED <<trusted, disk, window, linked, snap, trustHistory>>

\* Variant: a rejection by the peer is not saved.
DistrustUnsaved(t) ==
    /\ job[t].at = "distrust" /\ TrustFree
    /\ job' = [job EXCEPT ![t].back = trusted \cap job[t].who,
                         ![t].at = IF job[t].op = "PeerRejected" THEN "saved" ELSE "save"]
    /\ trusted' = trusted \ job[t].who
    /\ unverified' = unverified \ job[t].who
    /\ UNCHANGED <<disk, pending, window, linked, snap, refused, faults>>

\* The peers leave the set in memory.  A removal the peer asked for is saved
\* only when there was something to remove.
Distrust(t) ==
    /\ job[t].at = "distrust" /\ TrustFree
    /\ LET back == trusted \cap job[t].who
           next == IF job[t].op = "Reap" THEN "purge"
                   ELSE IF job[t].op \in {"PeerRevoked", "PeerRejected"} /\ back = {}
                   THEN "saved"
                   ELSE "save"
       IN  job' = [job EXCEPT ![t].back = back, ![t].at = next]
    /\ trusted' = trusted \ job[t].who
    /\ unverified' = unverified \ job[t].who
    /\ UNCHANGED <<disk, pending, window, linked, snap, refused, faults>>

\* The reaper drops the sessions before it saves.
Purge(t) ==
    /\ job[t].at = "purge"
    /\ linked' = linked \ job[t].who
    /\ Goto(t, "save")
    /\ UNCHANGED <<trusted, disk, pending, window, snap, trustHistory>>

\* The removal is on disk.  A removal the peer asked for goes on when the save
\* failed, too: the error is only logged.
Removed(t) ==
    /\ \/ job[t].at = "saved"
       \/ job[t].at = "failed" /\ job[t].op \in {"PeerRevoked", "PeerRejected"}
    /\ linked' = IF job[t].op = "Reap" THEN linked ELSE linked \ job[t].who
    /\ IF job[t].op = "PeerRevoked"
       THEN /\ pending' = pending \ job[t].who
            /\ faults' = IF job[t].who \cap unverified \cap pending = {}
                         THEN faults ELSE faults \cup {"late"}
       ELSE UNCHANGED <<pending, faults>>
    /\ refused' = IF job[t].op \in {"Unpair", "Revoke", "Reject"}
                  THEN refused \cup (job[t].who \ trusted) ELSE refused
    /\ Finish(t)
    /\ UNCHANGED <<trusted, disk, window, snap, unverified>>

\* The removal is not on disk: the command or the reaper puts trust back.
\* Unpair overwrites the set with its copy.
PutBack(t) ==
    /\ job[t].at = "failed" /\ job[t].op \notin {"PeerRevoked", "PeerRejected"}
    /\ TrustFree
    /\ trusted' = IF job[t].op = "Unpair" THEN job[t].back ELSE trusted \cup job[t].back
    /\ unverified' = trusted' \cap (unverified \cup (job[t].back \cap pending))
    /\ refused' = refused \ trusted'
    /\ IF job[t].op \in {"Reject", "Reap"} THEN Goto(t, "repend") ELSE Finish(t)
    /\ UNCHANGED <<disk, pending, window, linked, snap, faults>>

\* ... and a rejection or the reaper puts the pending entries back.
Repend(t) ==
    /\ job[t].at = "repend"
    /\ pending' = pending \cup job[t].who
    /\ unverified' = unverified \cup (job[t].who \cap trusted)
    /\ Finish(t)
    /\ UNCHANGED <<trusted, disk, window, linked, snap, refused, faults>>

-----------------------------------------------------------------------------
\* Storing one peer: upsert_peer_persist, which reads and writes peers.json
\* under the disk lock and needs nothing else meanwhile.

Store(who) ==
    /\ disk' = disk \cup who
    /\ faults' = IF who \subseteq trusted THEN faults ELSE faults \cup {"stale"}

StoreFails ==
    /\ disk' = disk
    /\ faults' = faults \cup {"write"}

\* PairFromUri, PairAccept, PairFromPin: whether the pairing is gated is read
\* before the peer is inserted.
CmdPair(p) ==
    /\ TrustFree
    /\ Begin("cmd", "Pair", "insert", {p}, ~(p \in trusted /\ p \notin pending))
    /\ UNCHANGED <<trusted, disk, pending, window, linked, snap, trustHistory>>

InsertPaired ==
    /\ job["cmd"].at = "insert" /\ TrustFree
    /\ trusted' = trusted \cup job["cmd"].who
    /\ refused' = refused \ job["cmd"].who
    /\ Goto("cmd", "upsert")
    /\ UNCHANGED <<disk, pending, window, linked, snap, unverified, faults>>

\* start_initiator runs one initiator at a time.
InitiatorFree == \A h \in Handshakes : job[h].op # "Dial"

\* The peer is dialled unless no address is known or an initiator runs.
StorePaired ==
    /\ job["cmd"].op = "Pair" /\ job["cmd"].at = "upsert" /\ DiskFree
    /\ Store(job["cmd"].who)
    /\ \/ Finish("cmd")
       \/ /\ InitiatorFree
          /\ \E h \in Handshakes :
                /\ job[h] = Idle
                /\ job' = [job EXCEPT !["cmd"] = Idle,
                       ![h] = [job["cmd"] EXCEPT !.op = "Dial", !.at = "dial"]]
    /\ UNCHANGED <<trusted, pending, window, linked, snap, unverified, refused>>

StorePairedFails ==
    /\ job["cmd"].op = "Pair" /\ job["cmd"].at = "upsert" /\ DiskFree
    /\ StoreFails
    /\ Goto("cmd", "unstored")
    /\ UNCHANGED <<trusted, pending, window, linked, snap, unverified, refused>>

\* The peer is taken out again, whether or not this command put it in.
DropPaired ==
    /\ job["cmd"].at = "unstored" /\ TrustFree
    /\ trusted' = trusted \ job["cmd"].who
    /\ unverified' = unverified \ job["cmd"].who
    /\ Finish("cmd")
    /\ UNCHANGED <<disk, pending, window, linked, snap, refused, faults>>

\* persist_last_addr: the peer is looked up in the trusted set first, and
\* stored in a later step.
AfterNote(t) == IF job[t].op = "Dial" /\ job[t].gate THEN Goto(t, "pend") ELSE Finish(t)

NoteAddr(t) ==
    /\ job[t].at = "note" /\ TrustFree
    /\ IF job[t].who \subseteq trusted THEN Goto(t, "addr") ELSE AfterNote(t)
    /\ UNCHANGED <<trusted, disk, pending, window, linked, snap, trustHistory>>

StoreAddr(t) ==
    /\ job[t].at = "addr" /\ DiskFree
    /\ Store(job[t].who) \/ StoreFails
    /\ AfterNote(t)
    /\ UNCHANGED <<trusted, pending, window, linked, snap, unverified, refused>>

\* A frame from a linked peer came from a new address.
RecvRoam(p) ==
    /\ p \in linked
    /\ Begin("recv", "Roam", "note", {p}, FALSE)
    /\ UNCHANGED <<trusted, disk, pending, window, linked, snap, trustHistory>>

-----------------------------------------------------------------------------
\* Waiting for the user's verdict.

\* Entries whose time is up, and one more when the set is full, make room for
\* the new one; their trust stays.
Pend(t) ==
    /\ job[t].at = "pend"
    /\ \E gone \in SUBSET (pending \ job[t].who) :
          /\ pending' = (pending \ gone) \cup job[t].who
          /\ faults' = IF gone \cap unverified = {} THEN faults ELSE faults \cup {"sweep"}
    /\ unverified' = unverified \cup (job[t].who \cap trusted)
    /\ IF job[t].op = "Respond" THEN Goto(t, "install") ELSE Finish(t)
    /\ UNCHANGED <<trusted, disk, window, linked, snap, refused>>

\* PairPending lists the entries and drops those whose time is up.
CmdList ==
    /\ job["cmd"] = Idle
    /\ \E gone \in SUBSET pending :
          /\ pending' = pending \ gone
          /\ faults' = IF gone \cap unverified = {} THEN faults ELSE faults \cup {"sweep"}
    /\ UNCHANGED <<trusted, disk, window, linked, job, snap, unverified, refused>>

\* PairConfirm with accept = true.
CmdAccept(p) ==
    /\ job["cmd"] = Idle /\ p \in pending
    /\ pending' = pending \ {p}
    /\ unverified' = unverified \ {p}
    /\ UNCHANGED <<trusted, disk, window, linked, job, snap, refused, faults>>

\* Msg::PairVerifyStarted from a linked peer that is trusted and not pending.
RecvVerify(p) ==
    /\ p \in linked /\ TrustFree
    /\ p \in trusted /\ p \notin pending
    /\ Begin("recv", "Verify", "pend", {p}, FALSE)
    /\ UNCHANGED <<trusted, disk, pending, window, linked, snap, trustHistory>>

-----------------------------------------------------------------------------
\* Handshakes.

\* PairShow opens the window, time closes it.
CmdShow ==
    /\ job["cmd"] = Idle
    /\ window' = TRUE
    /\ UNCHANGED <<trusted, disk, pending, linked, job, snap, trustHistory>>

WindowCloses ==
    /\ window' = FALSE
    /\ UNCHANGED <<trusted, disk, pending, linked, job, snap, trustHistory>>

\* run_responder: a trusted peer is let in.
RespondKnown(h, p) ==
    /\ TrustFree /\ p \in trusted
    /\ Begin(h, "Respond", "install", {p}, FALSE)
    /\ UNCHANGED <<trusted, disk, pending, window, linked, snap, trustHistory>>

\* run_responder: an unknown peer is admitted while the window is open.  The
\* trusted lock stays held until the peer is stored.
RespondNew(h, p) ==
    /\ TrustFree /\ p \notin trusted /\ window
    /\ Begin(h, "Respond", "upsert", {p}, FALSE)
    /\ trusted' = trusted \cup {p}
    /\ refused' = refused \ {p}
    /\ UNCHANGED <<disk, pending, window, linked, snap, unverified, faults>>

StoreNew(h) ==
    /\ job[h].op = "Respond" /\ job[h].at = "upsert" /\ DiskFree
    /\ Store(job[h].who)
    /\ Goto(h, "pend")
    /\ UNCHANGED <<trusted, pending, window, linked, snap, unverified, refused>>

StoreNewFails(h) ==
    /\ job[h].op = "Respond" /\ job[h].at = "upsert" /\ DiskFree
    /\ StoreFails
    /\ trusted' = trusted \ job[h].who
    /\ unverified' = unverified \ job[h].who
    /\ Finish(h)
    /\ UNCHANGED <<pending, window, linked, snap, refused>>

\* Discovery, a redial or a rekey starts a handshake with a trusted peer.
Redial(h, p) ==
    /\ TrustFree /\ p \in trusted /\ InitiatorFree
    /\ Begin(h, "Dial", "dial", {p}, FALSE)
    /\ UNCHANGED <<trusted, disk, pending, window, linked, snap, trustHistory>>

\* run_initiator, run_rekey_initiator: the answer arrived and the peer is still
\* trusted, or the handshake is given up.
Answered(h) ==
    /\ job[h].at = "dial"
    /\ \/ TrustFree /\ job[h].who \subseteq trusted /\ Goto(h, "install")
       \/ Finish(h)
    /\ UNCHANGED <<trusted, disk, pending, window, linked, snap, trustHistory>>

\* The new session takes its slot, or another one keeps it.  Trust is not part
\* of that decision.
Install(h) ==
    /\ job[h].at = "install"
    /\ \/ linked' = linked \cup job[h].who /\ Goto(h, "note")
       \/ linked' = linked /\ Finish(h)
    /\ UNCHANGED <<trusted, disk, pending, window, snap, trustHistory>>

LinkDrops(p) ==
    /\ linked' = linked \ {p}
    /\ UNCHANGED <<trusted, disk, pending, window, job, snap, trustHistory>>

\* The daemon stops or crashes, and starts again from what peers.json holds.
Restart ==
    /\ \/ trusted' = disk /\ faults' = faults \cup {"restart"}
       \/ trusted' = {} /\ faults' = faults \cup {"restart", "read"}
    /\ pending' = {} /\ window' = FALSE /\ linked' = {}
    /\ job' = [t \in Tasks |-> Idle] /\ snap' = {}
    /\ unverified' = unverified \cap trusted'
    /\ UNCHANGED <<disk, refused>>

-----------------------------------------------------------------------------

\* The next step of a task that has begun something.
Continue(t) ==
    \/ LockDisk(t) \/ ReadTrusted(t) \/ WritePeers(t)
    \/ Distrust(t) \/ Purge(t) \/ Removed(t) \/ PutBack(t) \/ Repend(t)
    \/ NoteAddr(t) \/ StoreAddr(t) \/ Pend(t)
    \/ t = "cmd" /\ (Clear \/ InsertPaired \/ StorePaired \/ StorePairedFails \/ DropPaired)
    \/ t \in Handshakes /\ (StoreNew(t) \/ StoreNewFails(t) \/ Answered(t) \/ Install(t))

\* What a command or a frame about one peer begins.
Request(p) ==
    \/ CmdRevoke(p) \/ CmdReject(p) \/ CmdAccept(p) \/ CmdPair(p)
    \/ RecvRevoke(p) \/ RecvReject(p) \/ RecvVerify(p) \/ RecvRoam(p)
    \/ LinkDrops(p)

Handshake(h, p) == RespondKnown(h, p) \/ RespondNew(h, p) \/ Redial(h, p)

TrustNext ==
    \/ \E t \in Tasks : Continue(t)
    \/ CmdUnpair \/ CmdList \/ CmdShow \/ WindowCloses \/ Restart
    \/ \E p \in Devices : Request(p)
    \/ \E h \in Handshakes, p \in Devices : Handshake(h, p)
    \/ \E expired \in SUBSET pending : Reap(expired)

TrustSpec == TrustInit /\ [][TrustNext]_trustVars

\* Every task that can go on does: the runtime polls a task whose lock is free
\* or whose file operation is over.
FairTrustSpec == TrustSpec /\ \A t \in Tasks : WF_trustVars(Continue(t))

-----------------------------------------------------------------------------

Jobs == [op : Ops, at : Steps, who : SUBSET Devices, back : SUBSET Devices, gate : BOOLEAN]

\* Every variable has its type, at most one save holds the disk lock and what
\* it read is forgotten with the lock.
TrustTypeOK ==
    /\ trusted \subseteq Devices /\ disk \subseteq Devices /\ pending \subseteq Devices
    /\ window \in BOOLEAN /\ linked \subseteq Devices
    /\ job \in [Tasks -> Jobs] /\ snap \subseteq Devices
    /\ unverified \subseteq trusted /\ refused \subseteq Devices /\ faults \subseteq Faults

Storing(p) == \E t \in Tasks : job[t].at = "upsert" /\ p \in job[t].who

\* A peer trusted in memory is on disk, or a task is about to store it
\* (upsert_peer_persist, save_peers_with_retry): as long as every write lands,
\* no interleaving of saves and pairings forgets a paired peer over a restart.
TrustSurvivesRestart ==
    "write" \notin faults => \A p \in trusted : p \in disk \/ Storing(p)

\* A save under way that will leave p out.
Removing(p) ==
    \E t \in Tasks : \/ job[t].at \in {"purge", "save", "read"}
                     \/ job[t].at = "write" /\ p \notin snap

\* A peer on disk is trusted in memory, or a save is about to take it out: a
\* revocation, a rejection or an expiry reaches peers.json, whatever it races
\* with, except for a file that could not be read or written and a peer stored
\* by a task that looked it up before it was removed.
RemovalReachesDisk ==
    faults \cap {"write", "read", "stale"} = {} =>
        \A p \in disk \ trusted : Removing(p)

\* A pairing whose verification was never accepted is pending or being taken
\* back, so that the reaper finds it (run_pending_reaper); only a restart, an
\* entry dropped by PairPending or by the next pairing, and the peer's own
\* revocation racing a newer pairing turn it into trust nobody confirmed.
UnverifiedStaysPending ==
    faults \cap {"restart", "sweep", "late"} = {} =>
        \A p \in unverified :
            \/ p \in pending
            \/ \E t \in Tasks : job[t].at = "distrust" /\ p \in job[t].who

\* A command is answered (peers.rs, save_peers_with_retry: the retries must not
\* make the reply hang forever).  The code breaks this: a save holds the disk lock and
\* waits for the trusted lock, which run_responder holds while it waits for the
\* disk lock to store a new peer.
CommandsAnswered == job["cmd"] # Idle ~> job["cmd"] = Idle

\* Once Revoke, Reject or Unpair is acknowledged, the peer is not on disk until
\* it is paired again, or a save is about to take it out (commands.rs: revoke
\* must succeed on disk before it is acknowledged).  The code breaks this:
\* persist_last_addr stores a peer it looked up before the removal.
RevokeIsDurable == \A p \in refused \cap disk : Removing(p)

=============================================================================
