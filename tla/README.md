# FluxSync in TLA+

A formal model of [FluxSync](../src/README.md), a clipboard that several devices
on one LAN share without a server. The modules here are translated from the Rust
source under `src/crates`; paths below are relative to it unless they start with
`src/`. TLC model-checks the modules on small instances, TLAPS proves
the safety properties for every value of the constants. `PROJECT.json` lists the
runs, the mutants that show each property can fail, the source lines of every
definition, the hazards, the findings and the theorems.

    tlc -workers 2 -config MCLinks_life.cfg MCLinks.tla
    tlapm NumberingProofs.tla

## The system

One daemon (`fluxsyncd`) runs per device. Inside it, a single event loop owns
the state machine and everything that must not race; other tasks talk to it
through a bounded queue of events and through shared maps behind locks.

| Part | State it keeps | Operations | Hard because |
|---|---|---|---|
| Core state machine (`fluxsync-core/src/app.rs`, `fsm.rs`, `dedup.rs`, `policy.rs`) | phase, peer shown, history, deliveries, parked items, SAS state, firewall, dedup ring | `App::handle` of some 25 events, plus a few setters | events of several tasks and several peers arrive in any order; one item lives in two structures; a peer's identity is zeroed and restored |
| Sequence store (`fluxsyncd/src/seq_store.rs`) | horizon in memory, `event_seq.json`, its backup | load, advance, persist | crash between writes, failed writes, lost files |
| Trust and pairing (`handshake.rs`, `driver/commands.rs`, `driver/pairing.rs`, `keystore.rs`) | trusted set in memory, `peers.json`, pending pairs, pairing window, the words on both devices | trust on first use, confirm, reject, revoke, unpair, expiry | memory, disk and pending set change in separate steps; restart; two devices decide independently over a network that loses |
| Transport (`transport.rs`) | primary slot, secondary slots, generations | install, replace, promote, drop, send, receive | every operation takes several locks in turn |
| Datagram protection (`fluxsync-crypto/src/session.rs`, `transport.rs`) | nonces, replay window, handshakes answered | encrypt, decrypt, answer once | datagrams are repeated, delayed, reordered |
| Driver (`driver/mod.rs`, `liveness.rs`, `peers.rs`, `backoff.rs`, `rate_limit.rs`) | published state, heartbeats, backoff timers, token buckets | event loop, dispatch of actions, failover, ghost watchdog, redials | snapshots outlive what they describe; queued events are overtaken |
| Mesh delivery (`driver/inbound.rs`, `frames.rs`, `shared.rs`) | seen ids, inflight items, reassembly buffers | send, relay, acknowledge, retransmit, selective NAK | UDP loses and reorders; several paths to one device |
| Resync (`driver/resync.rs`, `outbox.rs`) | outbox, pulls under way, tombstones | offer, pull, serve | the outbox and the tombstone change between two reads of one offer |
| Vault (`driver/vault.rs`, `history_store.rs`) | encrypted history on disk | append, rebuild, wipe, load | a wipe reaches the disk one job later; two writers |
| Keystore and settings (`keystore.rs`, `fsutil.rs`) | keychain entry, `identity.bin`, `peers.json`, settings files | migrate, load, save | crash between two steps; a keychain that fails or forgets |
| Clipboard (`driver/clipboard.rs`) | recent writes, writer queue, watcher | poll, write, clear a secret | three tasks and the user share one OS clipboard |
| PIN and discovery (`driver/pairing.rs`, `discovery.rs`) | PIN in the mDNS record, watchdog, cache of records | show, rotate, strip, look up, dial | tasks outlive the window they serve; a redial competes with the pairing |
| Local socket (`driver/ipc_server.rs`, `ipc.rs`, `fluxsync-mobile-ffi`) | permits, client tasks, published state | command, subscribe, stop | shutdown against requests under way; lost clients |
| Wire codec, cryptography, classification, CLI, front ends | none worth a model | pure functions and I/O | outside the models |

Interactions: handshake, discovery, receive and liveness tasks post `Event`s;
the loop applies them with `App::handle` and carries out the `Action`s it
returns (send an item, write the clipboard, close the session, start a
handshake); command handlers call `App::handle` directly; after each event the
loop publishes a snapshot of the state, which other tasks read later.

What makes each part correct:

* core: nothing leaves the parking lot except by decision or teardown, and both
  halves of the lot agree; the firewall rules every send and write; verified
  means verified by both; a device never inherits a former one's history;
* sequence store: an event id is never used twice;
* trust: what a user did not confirm does not stay trusted; what was revoked
  does not come back; both devices come to the same end of a verification;
* transport: a session sits in one slot, under the name of its owner, and a send
  never crosses a swap; driver: what is shown as linked has a session, what is
  reachable is linked again;
* mesh: each item is applied at most once, arrives when nothing is in the way,
  and is put together intact; resync: what was cleared is not pulled back;
* vault: the file follows what was published, and a wipe is final; keystore: the
  identity in use is not lost;
* clipboard: what is received is not sent back, secrets go;
* local socket: a subscriber catches up, a stop comes to an end.

## Modules

| Module | Models | Run | Proofs |
|---|---|---|---|
| `AppCore` | `app.rs`, `fsm.rs`, the parts of `dedup.rs` and `policy.rs` they call | daemon, mesh_trust | `AppCoreProofs` |
| `PairTrust` | who is trusted: `handshake.rs`, `driver/peers.rs`, the trust commands and frames | mesh_trust, trust_hang, trust_revoke | `PairTrustProofs` |
| `SessionKeys` | what the slots promise of a handshake's keys (abstract) | daemon | `TransportProofs` |
| `Transport` | the session slots, lock by lock; implements `SessionKeys` | daemon, transport_found | `TransportProofs` |
| `Links` | the composition: event queue, state machine phases, slots, heartbeats, dialler, commands | links, links_off | `LinksProofs` |
| `Broadcast` | what the mesh promises (abstract) | delivery | `MeshProofs` |
| `Mesh` | fan-out, relay, acknowledgement, retransmission among several daemons; implements `Broadcast` | delivery | `MeshProofs` |
| `Transfer` | one hop of a chunked item | delivery | `MeshProofs` |
| `Ipc` | the local socket, its two clients on the phone, and shutdown | delivery, ipc_stop | `MeshProofs` |
| `SeqStore` | `seq_store.rs` and the SendItem arm of `driver/actions.rs` | parts | `NumberingProofs` |
| `Resync` | offers, pulls, outbox, tombstones | parts | `LocalProofs` |
| `Vault` | the history file and its two writers | parts | `LocalProofs` |
| `Words` | both devices' side of a verification | parts, words_differ | `WordsProofs` |
| `Keystore` | identity and settings on disk and in the keychain | parts | `LocalProofs` |
| `Clipboard` | watcher, writer thread, secrets | parts, clip_skipped | `LocalProofs` |
| `Pin`, `Discovery` | the PIN where it is shown, and where it is typed | parts, daemon | `LocalProofs` |
| `Redial` | backoff against the limiter of the other device | parts | `LocalProofs` |
| `Datagrams` | replay window, handshakes answered once | parts | `NumberingProofs` |

`MC...` modules only give constants their values, name the symmetric sets and put
modules in one run. A run that holds several modules (`MCDaemon`, `MCMesh`,
`MCDelivery`, `MCParts`) is a disjoint sum: the modules share no variable, `part`
says which one moves, and the others keep one initial state, in which fairness
asks nothing of them and their liveness properties hold. Parts that do interact
are composed inside one module: `Links` has the phases of `AppCore`, the slots of
`Transport` (one step per operation) and the queue between them; `Words`
has the words of both devices with the pending entries of `PairTrust` and the SAS
phases of `AppCore`; `Mesh` has several daemons with their dedup rings. What two
modules both describe is translated twice from the same lines, at different
grain; the refinements between modules are those of `Broadcast` by `Mesh` and of
`SessionKeys` by `Transport`, which TLC checks and TLAPS proves.

### SeqStore

One action per file write, so `Crash` and the faults fall between any two:
`Boot` is `load` up to its persist, `WriteBak` and `WriteMain` are the two writes
of `persist`, `PersistFails` its error returns, `Allocate` is
`next_local_event_id` followed by `advance`, `Send` the frames leaving. A missing
file and one that does not parse read the same. `faults` remembers whether a
write failed or the main file was lost, and each property names the faults it
tolerates. Memory survives a `Crash` in the variables, but `Boot` overwrites all
of it before anything reads it.

### AppCore

One action per `Event`, with the pre-transition mutations, the FSM transition,
the firewall gate and the resync strip in one step, as in `handle`. `emitted` is
the list of actions returned, as a set and without `EmitState` and `EmitLog`. The
phases and the tags keep the source's names.

Data abstractions: an item is one content (hash, kind, preview together); the
firewall policy is its verdict on each item (`verdict`), any function of the
rulings a policy can give; time is a choice (`recent`: inside the echo window or
not; any non-favorite rows may be old enough to expire); the order of the history
is left out, so the row dropped at the cap is any but the newest; eviction from
the dedup ring, which holds fifty contents, is left out. With `Mesh` false only
one device is linked at a time and the only sender is the device last paired.
`localOk` and `peerOk` are history variables: who confirmed since the pairing
of that device last started.

### PairTrust

`job[t]` is what task t is doing (`op`), for whom (`who`) and the await it stands
at (`at`). The tasks are the command handler, the receive loop, the pending
reaper and some handshakes. A step is the code between two awaits of a lock or of
the disk, so any other task may run between two steps.

| Step (`at`) | Code |
|---|---|
| clear, distrust | the removal in memory of Unpair; of every other path |
| save, read, write | `save_peers_with_retry`: wait for the disk lock; `save_current_peers` reads the trusted set under it; writes |
| saved, failed | what the caller does with the result: teardown, or trust put back (`Removed`, `PutBack`) |
| purge, repend | the reaper's teardown before the save; the entries put back after a failed one |
| insert, upsert, unstored | a pairing command: memory, `upsert_peer_persist`, roll back |
| dial, install, note, addr, pend | a handshake: waits for the answer, takes the slot, `persist_last_addr` (look up, then store), pending entry |

The two locks held over a step are derived: `DiskFree` is no task at read or
write, `TrustFree` no responder at upsert, because `run_responder` keeps
the trusted set locked while it stores a new peer. An upsert needs only the disk
lock and is one step. Of the three write attempts only the last can end a save,
so one attempt that lands or fails stands for them; the time they take is any
time. A deadline may have passed whenever the code looks: `Reap` takes any
nonempty set of entries, `CmdList` and `Pend` drop any, an eviction for lack of room
included. Guards left out make the model wider: the caps of peers and pendings,
the tie-break and backoff of redials, the SAS phase and the session hash that
`PairVerifyStarted` asks for, the cache that refuses a replayed handshake, the
trust check of a replacing responder. `unverified` and `refused` are history: trust
whose verification nobody accepted, and peers whose removal was acknowledged
last. `faults` collects what happened that a property tolerates. A daemon without
a keystore directory (test harness) is not modelled.

### Transport, SessionKeys

A slot (`PeerConn`) keeps session, peer id and generation behind three locks;
each step is the code under one of them. A task is what an async task of the
daemon is in the middle of: install, rekey (install if the generation is still
the one read), drop, purge, promote, send, receive. `Schedules` has two members:
with "between locks" any two tasks interleave at every lock, and
`KeysAreHandedOn` and `SealsWhatItRead` are claimed; with "between operations" a task
runs to the end of the operation unless it waits for the network (an initiator waits
for its answer between reading the generation and installing), which is where the
other properties are stated, since between two locks the id of a slot may be behind
its session (the code accepts that: the datagram does not decrypt). For
`SealsWhatItRead` a send notes the keys its slot held when it read the generation
(`saw`): what it seals it seals under those, or it gives up, unless another task stands
between changing the slot's session and bumping its generation (`Changing`). Addresses, roaming, byte
counters and session age are left out, and so are loads of the generation from
another slot of the same device that happens to carry the same number.

`SessionKeys` knows keys that a handshake has made and not installed (`fresh`), keys in
a slot and keys on their way to the primary slot (`moving`). The refinement mapping
reads the first and the last off the tasks (`Fresh`, `InMotion`: what tasks carry
before the install, and in `promote_secondary` between the two slots). `KeysAreHandedOn`
says that each step under a lock does one of six things to keys, or none: they are
made, given up, put in a slot by their handshake, dropped from it, lifted out of it
by a promotion, or landed by it in the primary slot. That keys are in one place at a time
(`OneHolder`) and do not come back (`SpentForGood`) follows, and is proved.

### Links

One daemon and its paired devices. Slot operations are atomic. `queue` is the
event channel with its cap; `Handle` is one turn of the loop: the state machine's
transition and the actions it returns on the slots, `greet_new_sessions`
included. The heartbeat (`PrimaryTimeout`, `SecondaryTimeout`), the ghost
watchdog, dialler, answerer, rekey, the Bye and Revoke frames and the user's
commands are actions of their own. `Tick` is one round of the dispatcher: it starts with
the primary, and while the primary is without a session and its backoff is not over
(`Held`) the round ends there (`pairing.rs:81`); otherwise each device without a
session may be tried (`Candidates`), but the one initiator slot takes one, and the
others are refused and not told (`pairing.rs:357`). `Resolved` is the dial at a fresh
record, which asks no backoff. A device may fall silent or restart (`up`,
`deaf`: it has forgotten the session). `lost`, `late`, `hidden` are history: an
event found the queue full; a session came while an older close was queued; both
slots carry the same name (`transport_found`). Each excuses what the code is known
to do wrong then, and nothing else.

### Mesh, Broadcast, Transfer

`Mesh` has an item as one frame: `Copy` is the SendItem arm with its fan-out,
`TrackSent` the inflight entry made after it, `Recv` the item and acknowledgement
arms of the receive loop, `Apply` the core's turn, `Retransmit` the tick. Round
trips are taken to be shorter than `RETRANSMIT_INTERVAL`, acknowledgements may be
later. `disturbed` remembers that a link, a pairing, a daemon, a policy or a full
queue was in the way: `ReachesEveryone` is claimed only without. `MeshIsBroadcast`
has no such excuse: `sent` and `log` are the refinement mapping.

`Transfer` is one receiver and its senders. `SettledIsDelivered` follows an item from the
sender's side: the entry in its inflight list goes only by an acknowledgement, which
may be late, repeated or of another encoding, and then the receiver has put an
intact payload together, or when the retransmissions are used up (`GaveUp`). An image is hashed by its pixels, so
one hash may stand for two encodings; `mixed` remembers that one sender's
encodings met, or that a sixth transfer threw one out, after which a transfer may
strand until it is given up.

### Resync, Vault, Keystore

`Resync` interleaves the receive loop, which works through an offer lock by lock
(history, outbox, tombstone, pulls in flight, the pulls tracked, the pull sent), with
the driver loop, which clears history in three steps (outbox, tombstone, rows).
`forgotten`, `writes` and the offer's `gone` are history: what clears have removed, what
was written to the clipboard, what had been removed when the offer read the tombstone.
`ClearedStaysCleared` says that none of the last is pulled. It does not speak of a clear
that comes between that read and the tracking: see Divergences. A pull that is tracked
and not sent yet is not given up, like one under way.

`Vault` has the published state, the persister with its job (one step per write
of a file) and the driver, which deletes the file itself on a security wipe.
`aged` is what the retention no longer keeps; a crash may come at any point. What
the cap, a clear or the retention leaves of the rows is a choice of their indices
(`At`, with `UpTo` for the cap of the file and `Unexpired` for the retention).
`DiskFollows` asks for every published row within both, in the order in which
`rebuild` applies them: see Divergences for the other order.

`Keystore` has one step per access to the keychain or change of a file; the boot
is a straight line of such steps, and the daemon may die between any two.
`forked` and `lied` are history: a user had an identity made in a file although the
keychain has one; a keychain lost a fresh identity, which the code does not read
back.

### Words, Pin, Discovery

`Words` is two devices, each with its trusted entry, the words pending, its session,
and the flags that decide what to tell the other; letters are readable under the
session they were sealed for. The core's events are queued, and the receive loop
acts on the phase published before them. `spoilt` remembers that a letter was
lost or that words were accepted unseen: the code resends no PairConfirm.

`Pin` numbers the PINs as drawn. `Discovery` has the bounded line of records, the
cache, `PairFromPin`, the one initiator and the redials that compete for it. The driver
works a pairing through at its locks (is the device trusted, is it being verified,
trust it; store it, then dial), `run_initiator` at its own (trust, install and address,
pending entry), and a pairing ends in two or three steps (trust, words, session; the
reaper: words, trust, session), all beside the dispatcher. One end of a pairing is
under way at a time and is not rolled back; `PairTrust` has several, with their
faults. `missed` is history: the dial the pairing asked for was skipped or not
answered, a dial without the gate came before it, or a late end of an earlier pairing
took the words. `FreshPairIsGated` excuses these, which the code lets happen, and the
moment between install and pending entry.

### Clipboard, Redial, Datagrams, Ipc

`Clipboard`: a content is a text, a secret or a picture; a picture has one hash
received and another read back. Time passes by `EchoWindowEnds` and
`SecretExpires`, which wait for the write they are about, since a second and a
minute are long for the writer thread.

`Redial` counts quarters of a second and parts of a token, with the source's
numbers: its constants are not scaled down.

`Datagrams` keeps every frame and every first message on the network for good, so
`Decrypt` and `AnswerInit` may be given any of them at any time.

`Ipc` has the connections of one process in order, each with the task that serves
it and what it waits for; `JoinReturns` is the end of `stop()`.

## Runs

`PROJECT.json` says what each run shows. The bounds:

* `daemon`: the state machine with two devices, one item, one history row, one
  wipe, SAS for both devices (two devices are what a swap and a pairing on top of
  another need); the slots with two devices, one secondary `PeerConn`, two tasks,
  two sessions per device: an install, a rekey that read before it, and a
  promotion between them; two changes of each slot's generation, since one is
  enough to make a value read before it stale (the theorems have no such bound);
  Discovery with one PIN, one stranger, a cache of one and two ticks, after which a
  record is gone.
* `mesh_trust`: the state machine with two devices linked together, two items, one
  history row (so the cap bites), verdicts pass and defer (block differs only in
  what `daemon` covers); trust with two devices, so that a task may save one while
  another stores the other, one handshake, any two tasks at once (`MaxBusy`),
  which is what each of the two locks, and each stale value, takes; one kind of
  fault per behaviour (`MaxFaults`), after which what is under way ends and
  nothing begins (`Settles`): each property tolerates some faults and speaks of the
  others. The theorems have none of these bounds.
* `links`: three devices, two that this device dials and one that dials in, one
  fault among silences, losses, rekeys and commands that cut a link, while restarts, a
  new pairing and sync on again are free, a queue of five: a primary whose backoff
  holds back the round and a secondary that waits for it take two dialled devices.
  (With two devices and two faults the properties hold as well.)
* `delivery`: three plans for the mesh (a full mesh of three with one item; two
  devices with two items, each with a lost datagram and one disturbance; a line of
  three with two crossing items), one retransmission; a transfer of two encodings,
  of two chunks and one, from one sender or from two, with two lost datagrams; the
  socket with one call, two lost connections and two permits, so that lost
  subscribers can hold every permit until the next publication:
  `StateReachesSubscriber` excuses that state (`HeldByTheGone`) and no other.
* `parts`: SeqStore with a reservation of 2, five sends and three starts (a
  reservation used up, one abandoned, a restart on either file after any fault);
  Resync with three copies of one content by two peers and one clear, wipe, expiry
  or policy change; Vault with two texts copied once each or one twice, history and
  disk of one row, one pin, three faults; Words with two handshakes and one mishap; Keystore with three
  identities, two commands, two faults; Clipboard with a text, a picture and a
  secret, three received, one copied, one slip; Pin with a window of 3 ticks and
  five draws; Redial with the source's numbers; Datagrams with a window of 3, five nonces, three handshakes,
  four answers and a memory of two.
* `trust_hang`, `trust_revoke`: one device, two tasks; `transport_found`,
  `words_differ`, `links_off`, `clip_skipped`, `ipc_stop`: the smallest instance
  that shows the divergence.

Symmetry: devices, tasks and items where none is flagged are interchangeable. The
views leave out the parts that do not run and the history no guard and no checked
property reads (`emitted`, `refused`); action properties are evaluated on every
step all the same. Runs with a bound on what may happen have states without a
successor, where the budget is used up, so the deadlock check is off: that a
task waits forever is a liveness property (`CommandsAnswered`, `StopReturns`,
`StateReachesSubscriber`, `ReachablePeersLink`, `ReachesEveryone`,
`TransferConverges`). The counters (`wipeGen`, `seq`, `boot`, nonces, versions,
handshakes) are bounded by the `Max...` constants.

Fairness, where a liveness property needs it:

* `PairTrust`: weak fairness of each task's next step: the runtime polls a task
  whose awaited lock is free. The counterexample of `trust_hang` needs nothing but
  that two locked tasks have no next step.
* `Links`: weak fairness of the loop, of the dispatcher's round, of the end of a
  backoff, of answers or failures of a dial, of the heartbeat and the watchdog, and
  of the dial-in of the devices meant to dial, whose dispatchers have the
  same timer. There is no strong fairness, and none of dialling any one device: the
  dispatcher promises only that its rounds come. `ReachablePeersLink` therefore says of a
  device this one dials: it is linked again and again, or the backoff of a dead primary
  holds the rounds again and again (`[]<>(primary # p /\ Held)`), which the code
  permits: see Divergences. Nothing is assumed about faults, frames or users.
* `Mesh`, `Transfer`: datagrams not lost arrive, ticks go on, the loop goes on.
* `Ipc`: each task that can go on does, timers expire, clients read. No client is
  assumed to hang up, to call or to stop.

## Divergences

Each is a run that expects a violation, with the quotation in `PROJECT.json`.

* `trust_hang`: a save holds the disk lock and waits for the trusted set; the
  responder admitting a new peer holds the trusted set and waits for the disk lock.
* `trust_revoke`: the address note of a handshake or of a roaming peer looks the
  peer up, lets go, and stores it after a removal was saved and acknowledged.
* `transport_found`: after an install into the slot of a known secondary while the
  primary slot is empty, the primary slot gets the secondary's id, and lookups by
  that id find a slot without a session.
* `links_off`: a dial in flight when sync is switched off installs its session
  afterwards.
* `words_differ`: a handshake that came to nothing on the initiator leaves its words
  pending on the responder; after the next one the two devices show different words.
* `clip_skipped`: the writer keeps the newest job whatever its kind: a received text
  is dropped behind the clearing of an earlier secret.
* `ipc_stop`: a command in the queue when the loop breaks is never answered; its
  task waits, the accept loop waits for it, `stop()` waits for both.

Met while reading, without a run of their own:

* Core: `state.vault_wipe_gen`'s comment says a ghost timeout bumps it, the code
  keeps the history there; `state.delivered` is pruned by the next acknowledgement
  only; another paired device taking over wipes pinned rows with the rest, while
  `src/README.md:108` says pinned items always stay (`PinnedRowsStay` therefore allows a
  wipe); an item deferred for two senders is credited to the first, and goes when
  that one is revoked (`app.rs:370`).
* Trust: a pairing command whose store fails drops a peer that was trusted before
  it (`commands.rs:848`); Revoke leaves the peer's pending entry (`commands.rs:443`);
  PairPending, the sweep of the next pairing and an eviction drop a pending entry
  and leave the trust, which the reaper then never visits (`UnverifiedStaysPending`
  tolerates it as a fault); a session installed after the trust check outlives a
  removal in between.
* Words: the comment on `PeerMeta` (`shared.rs:391`) does not hold for teardown by
  the reaper and the heartbeat; `echo_ack_sent` survives the reaper and a local
  Revoke; an accept that was deferred is flushed on a silent reconnect; a lost
  PairConfirm is not sent again.
* Transport: `promote_secondary` moves the session (`transport.rs:778`), and an install
  puts it in place, some lines before the generation is bumped; a send that
  read the generation before the move seals, between the two, under another session than the one it
  was meant for, although the comments at `transport.rs:595` and `614` say it gives up
  (`SealsWhatItRead` excuses it).
* Links: the state machine can show Linked for a projected secondary that said Bye;
  a dead session is held in Discovering until the ghost timeout or the rekey; the
  backoff of the primary gates the secondaries (`pairing.rs:81`, `continue`) although
  the comment at `pairing.rs:137` calls their redial independent of the primary's
  session, so that a primary that is away for good can keep a reachable secondary
  from being redialled for as long as each round finds the backoff running; the
  phase stays Discovering beside live secondaries after Reconnect; Toggle on resumes
  the primary without refreshing the set of linked peers (`commands.rs:1108`); the
  pending entry of an initiator is recorded after its install (`handshake.rs:208`).
* Mesh: a device that revokes and re-pairs may be sent a retransmission of before,
  since the Revoke frame does not purge the inflight entries (`inbound.rs:914`).
* Transfer: two encodings with different totals under one hash, or six transfers at
  once, can strand one until it is given up.
* Resync: a clear that falls between an offer's tombstone read (`inbound.rs:1167`) and
  the tracking of its pulls (`inbound.rs:1182`) is not seen, and what it removes may be
  pulled and, once the dedup ring has forgotten it, be back in the history, although
  `resync.rs:20` says it must never be re-pulled; the outbox may keep what the core then refused (`outbox.rs:22`); a pull
  answered by an event id already known stays pending for 60 s; inflight items live
  90 s and pulls 60 s; a restart forgets the pulls.
* Vault: rows carried over from the file may lie behind newer ones, so that a full
  file cuts a row that nothing else keeps out; when ageing then frees a place, the
  row comes back with the next save only (`DiskFollows` speaks of the rows
  left by the cap first and the retention second). A crash between the wipe in memory and the deletion is not repaired at the
  next start; a failed deletion is published before the persister tries again; a
  removed favorite can come back from the file (`vault.rs:43`, `app.rs:1123`).
* Keystore: the keychain wins over, and erases, an identity that
  `FLUXSYNC_NO_KEYCHAIN` made in a file beside it; a crash between zeroing and
  unlinking leaves a file of zeros, which a start without keychain refuses; a fresh
  keychain identity is not read back; a live "ask" rule is "deny" after a restart.
* Clipboard: of two clears queued together the first is dropped as well, so that a
  secret whose clear is followed at once by another secret's stays on the clipboard
  when the clears come in the other order than the writes. That takes two secrets
  received within the jitter of a timer, or a writer blocked for a minute;
  `SecretsGo` is checked with one secret.
* Pin: the watchdog wakes at the end of the old PIN, sees the window extended, and
  rotates the PIN shown a moment ago (`pairing.rs:501`); a watchdog that closes while
  PairShow opens can leave a PIN published without one (`pairing.rs:439`).
* Discovery (all against `commands.rs:988`, by which a pairing by PIN lands in
  `pending_pairs`): the device is trusted (`commands.rs:1033`) before it is stored and
  dialled, and the dispatcher may redial it without the gate in between; so it may when
  the dial of the pairing is skipped or not answered, and typing the PIN again then
  dials without the gate too; trust and pending entry are read one after the other
  (`commands.rs:1031`), so that a device whose verification expires or whose trust
  is revoked between the reads, or before the insert, is taken for a confirmed one; a
  revocation that saves while the device is paired again removes the words of the new
  pairing. The session is live for the time of an address write before the words are
  pending (`handshake.rs:187`, `208`); the trust check of an
  initiator is not atomic with the install; a full cache refuses the device to pair.
* Redial: after sessions of some 15 s the other device's bucket may be short.
* Datagrams: a first message that was delayed and never answered still replaces a
  live session, which only heartbeats repair; a restart empties the memory of
  handshakes answered.
* Ipc: a subscriber whose client is gone keeps its permit until the next
  publication: 32 of them on a quiet daemon shut out new clients; the opening line
  is awaited outside the select on shutdown, so a client that connects and is silent
  also delays a stop.

## Proofs

TLAPS checks the theorems below for every value of the constants: any number of
devices, items, tasks and faults, any capacity. None of the properties is
inductive: each speaks of what was sent, shown or accepted, and what is under way
decides whether the next step breaks it. So each proof has an invariant that says
what is under way. A `Proofs` module has its inductive invariant as named
conjuncts, lemmas for the queues and sets it is about, a step lemma with one case
per action, and the theorem.

### Event numbers and datagrams (`NumberingProofs`)

* `TypeCorrect`; `RewindBounded` by `RewindInv` (while no write fails the main file,
  when there, is the horizon in memory, the counter meets it exactly when a persist
  starts, and the backup alone is within one reservation of all that was sent);
  `NoEventIdReused` by `FreshInv` (everything sent is below both the next seq and
  what a restart reads), on top of the former; `HorizonStaysDurable` by `DurableInv`
  (a persist that fails moves neither the main file nor the horizon).
* `WindowExact`: the replay window opens every frame that is new and in time, and
  no other. `WindowInv`: the bitmap records exactly what was opened within the
  window, and nothing opened is ahead of the newest; shifting the bitmap is the one
  hard case.
* `AnsweredOnceHolds`: `InitsInv` says the memory is the end of the list of answers
  (`LastRemembered`), and any two answers closer than its capacity differ.

### State machine (`AppCoreProofs`)

* `TypeCorrect`; `ParkingAgrees`, restated row by row (`RowsMatchStep`) so that each
  teardown path is one case; `ConfirmedMeansBoth`, strengthened by what the
  half-confirmed phases mean; `HistoryStaysIsolated`, strengthened by the rows'
  senders being the device last paired or none.
* An action property: `PinnedRowsStayPut` (no step but a wipe takes a pinned row;
  the case to see is the cap, which drops only rows that are not pinned).

### Trust and verification (`PairTrustProofs`, `WordsProofs`)

* `TypeCorrect`, `TrustIsKept`, `RemovalIsKept`, `UnverifiedIsPending` from one
  invariant, `TrustInv`. What a save will write was read earlier. So `Exclusive`
  says at most one task holds the disk lock, `SnapKeeps` that what it read misses
  no trusted peer but those somebody is still to store, and `SnapDrops` that it has
  no removed peer unless a later save will drop it; `NothingFailed` says no task is
  on an error path while no write failed.
* `ConfirmedOnTwoWords`, `BothDevicesLearn` from `WordsInv`, over any number of
  handshakes, cuts, timeouts and removals:
  - `ShakeInv`: one handshake is under way at a time, its number is new to whom its
    letter goes to, and who waits for an answer nobody sends dialled a device that
    does not trust it.
  - `ColdInv`, for the first: nobody takes a device whose user accepted nothing to
    have accepted. The difficulty is a device that trusts without words to compare,
    as after a silent reconnect: whatever it hears, it shows. It is safe because no
    accept can reach it: the other one has no trust, has words itself, or is pairing
    anew and without a session (`BareIsAlone`, `BareHearsNothing`).
  - `LiveInv`, for the second: words of the live session are on screen
    (`LiveIsShown`), words that one user accepted are the other's too (`Agreed`), a
    Hello not heard is on the way or to come (`HelloDue`), and an accept has been
    told, is on the way, or is put off until the Hello (`AcceptDue`).

### Sessions and links (`TransportProofs`, `LinksProofs`)

* `SlotTypes`; for both schedules, lock by lock, `SlotsHandKeysOn`: `Transport`
  implements `SessionKeys`. `KeysMove` sorts the steps by what they do to
  keys (`Begins`, `Still`, `Puts`, `Empties`, `Lifts`); `HolderInv`, that a session is
  in one slot, with the task that made it and has not installed it, or with the
  promotion that moves it, is then five cases, and so is the refinement
  (`HandedStep`). An install takes keys out of `fresh` only because no other task carries
  them, which is why the mapping needs the invariant. `OneHolderHolds` and
  `SpentKeysStaySpent` (thrown out or given up once, in no slot ever again)
  follow.
* `SealsWhatItReadHolds`, for both schedules, from `SealInv`: while a send is between its
  read of the generation and the seal, its slot holds the session it saw or none, or the
  generation has moved on, or the task that changed the slot is about to bump it.
* `ReceivedFromOwnerHolds`, `SlotNamesItsPeerHolds`,
  `RekeyReplacesWhatItSawHolds` where operations run to their end, from `SlotsInv`:
  at most one task is between two locks (`OneRuns`), a secondary slot is one
  device's (`OwnSlots`), a linked slot is labelled or about to be (`Named`), and per
  step, which slot a task works on (`Works`) and which generations are about to
  change (`Changing`).
* `LinkTypeCorrect`, `SessionsAreGreeted`, `ShownLinksAreThere` from `LinkInv`. What is
  shown lags behind the slots by the queue, so the invariant says which event is in
  it: a session not greeted has its `HandshakeOk` there (`GreetingDue`); without a
  session, what shows the primary as linked, or will, has a `PeerLost` behind it
  (`LossFollows`); and a live primary was not announced in front of an event that
  will close it (`ClosesFirst`). `lost`, `late` and `hidden` are the excuses the
  properties have, and are never forgotten.

### Mesh, transfer and local socket (`MeshProofs`)

* `MeshImplementsBroadcast`: `Mesh` implements `Broadcast` with `sent` and `log` as they
  are. Every step maps to a copy, a delivery, a restart or a stutter; that a
  delivery is allowed takes `MeshInv`: all on the way, being sent, inflight or queued
  was copied and is due where it goes, and a device has seen what it queued or handed
  on and queues nothing twice (`QueueDue`). An attempt without the last part of
  `Due` failed: an item can come back to the device it was copied on when another
  event has the same content, since the peers owing the older event are merged into
  the entry of the newer one (`shared.rs:247`). `Broadcast` allows that case
  (`CopiedAgain`) and no other.
* `AppliedOnceAndCopied`, what `Broadcast` gives: no event is handed to a clipboard
  twice in the life of a daemon, nor one nobody copied.
* `SettledMeansDelivered`, over any losses and encodings: by `TransferInv` everything on
  the way was started by its sender, what was accepted is an encoding of it, and each
  acknowledgement on the way has an accepted payload behind it (`AcksEarned`).
* The local socket, from `IpcInv`, for any clients, calls and permits:
  `RequestsAreQueuedOnce` (the tasks that wait for a reply are those with a request in
  the queue, one each, so what `ipc_stop` shows can happen only at the end of the main
  loop), `ScreenMovesOn` (no state shown is replaced by an older one: the line not read
  and the state marked as seen are never behind the screen), `StoppedStaysDown`.

### Local parts (`LocalProofs`)

* Keystore: `IdentityIsKept` by `IdentityInv` (what the start has in hand at each step
  is stored, and all that is stored is one identity); `ShownIsRead` by `SettingsInv`
  (files, memory and what was shown agree but for the command under way).
* Clipboard, from `ClipInv`: `WritesMoveOn` (queue, writer and clipboard are in the
  order of arrival), `OnlyOwnCopiesLeave` (what the watcher has not seen yet is
  remembered as written, or the user's), `SecretsAreCleared` (a secret that is
  queued has its timer). The last is stated with one secret (`OneSecret`), as the
  run checks it; with two it is false, see Divergences.
* Pin: `OneTenderHolds` by `PinInv` (an advertised PIN has one watchdog, there or about
  to be started). Discovery: `FreshPairsAreGated` by `GateInv` (until the words wait,
  the gated dial is under way, or is about to start and nothing else is that could
  link the device).
* Resync: `ClearedIsNotPulled` by `TombInv` (the tombstone covers a clear before the
  rows are gone, and an offer past its read wants nothing of that); `CatchUpStaysQuiet` by `CatchUpInv` (what an offer is about to track nobody is asked for; each pull and each item on the
  way was asked for, has arrived or was copied again, and the queue marks it).
* Vault: `TheDiskFollows` by `VaultInv`. `Generations` orders the wipes: the last
  one the persister acted on, that of its job, the published one and the driver's,
  and what is published is what is in memory except in the middle of a wipe.
  `JobIsSound` says what a save has in hand: its rows begin with the published ones,
  contain none that is gone unless a later wipe is on its way, and the temporary
  file holds those within cap and retention. `DiskIsSound` says the same of the file
  against what the persister remembers, once it has seen the last wipe, so that the
  comparison that lets it rest is enough. The lemmas are about rows chosen by index
  (`At` keeps the order and what it is of, `Rank` counts, `UpTo` loses none
  below the cap) and about the retention, which only takes more with time.
* Redial: `PatientDialsAreAdmitted` by `RedialInv`: at each dial of an outage that
  waited its turn the bucket holds a token for this dial and for each left of the
  ramp to the cap (`Provided`); at the cap the wait brings in what a dial costs. What
  it takes of the numbers is `MaxShift < BucketCapacity`, which is assumed of the
  constants and holds of the source's 4 and 5: with fewer tokens the short waits of
  the ramp would have to bring in the rest.

### Assumptions, and what is only model-checked

Assumed are the named ASSUMEs on the constants, which TLC evaluates on every run,
and `OneSecret` above. Faults a property excuses are history variables of the
models, not assumptions. Only model-checked:

* every liveness property (`ReachablePeersLink`, `ReachesEveryone`,
  `TransferConverges`, `StateReachesSubscriber`) and so the runs' properties of `Ipc`: liveness and
  ENABLED are outside this prover's reach;
* the divergences, which are counterexamples.

## Not modelled, and what could follow

Left out for good: cryptography (perfect), wire encoding and its limits, file
formats, mDNS itself, the OS calls of the clipboard, framing on the socket, the
log channel, front ends, the command line's parsing and rendering, classification
of text (its verdict is a constant of `AppCore`), start-up order, counters.
Left out of modelled parts: the caps of 64 peers and 256 pending entries, the
per-peer engine in `app.rs` that the daemon does not call, addresses and roaming
limits, byte and age limits of sessions, file transfers' capability bit, sensitive
items in resync (they never enter the outbox), permissions and the keychain's
access list on macOS, peers of an older protocol without words.

Worth proving next: that the slots of `Links` are a coarser view of those of
`Transport` when operations run to their end, and its phases of those of `AppCore`;
type correctness of the modules whose theorems carry their types only
as conjuncts of an invariant.
