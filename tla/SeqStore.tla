------------------------------ MODULE SeqStore ------------------------------
(***************************************************************************)
(* The outgoing event sequence counter of one daemon and the horizon it    *)
(* reserves on disk (crates/fluxsyncd/src/seq_store.rs), together with the *)
(* only caller that allocates from it: the SendItem arm of dispatch        *)
(* (driver/actions.rs) on top of App::next_local_event_id.                 *)
(*                                                                         *)
(* A horizon is persisted in two files, event_seq.json and its backup, one *)
(* generation behind.  A step below is one file write, so a crash may fall *)
(* between any two of them.  A file that is missing and a file that does   *)
(* not parse read the same way.                                            *)
(***************************************************************************)
EXTENDS Integers

CONSTANTS
    RESERVE,         \* how far ahead of the counter a horizon is reserved
    MaxSeq,          \* bound on the counter, for model checking
    MaxBoots         \* bound on the number of daemon starts, for model checking

ASSUME ReserveAssumption == RESERVE \in Nat \ {0}
ASSUME BoundsAssumption == MaxSeq \in Nat /\ MaxBoots \in Nat

VARIABLES
    main,     \* the horizon in event_seq.json, or Unreadable
    bak,      \* the horizon in event_seq.json.bak, or Unreadable
    up,       \* whether the daemon runs
    boot,     \* number of starts so far
    seq,      \* App.local_seq: the next sequence number to hand out
    horizon,  \* SeqStore.horizon
    target,   \* the new_horizon argument of the persist call under way
    pc,       \* the next file write or send of the event loop
    next,     \* where the event loop continues after the persist call
    sent,     \* the event ids put on the wire: [boot, seq] records
    faults    \* history: what the disk has done so far, of Faults

vars == <<main, bak, up, boot, seq, horizon, target, pc, next, sent, faults>>

Unreadable == -1
Horizons == Nat \cup {Unreadable}
Faults == {"write", "main"}  \* a write failed, event_seq.json was lost

Init ==
    /\ main = Unreadable /\ bak = Unreadable
    /\ up = FALSE /\ boot = 0
    /\ seq = 0 /\ horizon = 0 /\ target = 0
    /\ pc = "idle" /\ next = "idle"
    /\ sent = {} /\ faults = {}

-----------------------------------------------------------------------------

\* Variant: the two files read in the wrong order.
ReadHorizonBackupFirst ==
    IF bak # Unreadable THEN bak ELSE IF main # Unreadable THEN main ELSE 0

\* read_horizon: the main file, else the backup, else zero.
ReadHorizon ==
    IF main # Unreadable THEN main
    ELSE IF bak # Unreadable THEN bak
    ELSE 0

\* SeqStore::load up to its persist call.
Boot ==
    /\ ~up /\ boot < MaxBoots
    /\ up' = TRUE /\ boot' = boot + 1
    /\ seq' = ReadHorizon /\ horizon' = ReadHorizon
    /\ target' = ReadHorizon + RESERVE
    /\ pc' = "writeBak" /\ next' = "idle"
    /\ UNCHANGED <<main, bak, sent, faults>>

\* Variant: a persist that forgets to rotate the backup.
WriteBakSkipped ==
    /\ up /\ pc = "writeBak"
    /\ pc' = "writeMain"
    /\ UNCHANGED <<main, bak, up, boot, seq, horizon, target, next, sent, faults>>

\* Variant: the new horizon is believed before it is written.
WriteBakEager ==
    /\ up /\ pc = "writeBak"
    /\ bak' = horizon /\ horizon' = target
    /\ pc' = "writeMain"
    /\ UNCHANGED <<main, up, boot, seq, target, next, sent, faults>>

\* persist, first file: rotate the horizon held in memory into the backup.
\* The write is best effort, a failure goes on to the main file.
WriteBak ==
    /\ up /\ pc = "writeBak"
    /\ \/ bak' = horizon /\ faults' = faults
       \/ bak' = bak /\ faults' = faults \cup {"write"}
    /\ pc' = "writeMain"
    /\ UNCHANGED <<main, up, boot, seq, horizon, target, next, sent>>

\* persist, second file: only a write that lands moves the horizon in memory.
WriteMain ==
    /\ up /\ pc = "writeMain"
    /\ main' = target /\ horizon' = target
    /\ pc' = next
    /\ UNCHANGED <<bak, up, boot, seq, target, next, sent, faults>>

\* persist gives up: the directory cannot be made (nothing is written) or the
\* main file cannot.  Both callers log the error and go on.
PersistFails ==
    /\ up /\ pc \in {"writeBak", "writeMain"}
    /\ pc' = next /\ faults' = faults \cup {"write"}
    /\ UNCHANGED <<main, bak, up, boot, seq, horizon, target, next, sent>>

\* The SendItem arm: next_local_event_id, then SeqStore::advance with the
\* counter's new value.
Allocate ==
    /\ up /\ pc = "idle" /\ seq < MaxSeq
    /\ seq' = seq + 1
    /\ IF seq + 1 < horizon
       THEN pc' = "send" /\ UNCHANGED <<target, next>>
       ELSE /\ target' = seq + 1 + RESERVE
            /\ pc' = "writeBak" /\ next' = "send"
    /\ UNCHANGED <<main, bak, up, boot, horizon, sent, faults>>

\* The SendItem arm, continued: the frames carrying the id leave the daemon.
Send ==
    /\ up /\ pc = "send"
    /\ sent' = sent \cup {[boot |-> boot, seq |-> seq - 1]}
    /\ pc' = "idle"
    /\ UNCHANGED <<main, bak, up, boot, seq, horizon, target, next, faults>>

\* The process dies, or is stopped: only the files survive.
Crash ==
    /\ up
    /\ up' = FALSE /\ pc' = "idle" /\ next' = "idle"
    /\ UNCHANGED <<main, bak, boot, seq, horizon, target, sent, faults>>

\* event_seq.json is deleted or damaged behind the daemon's back.
LoseMain ==
    /\ main # Unreadable
    /\ main' = Unreadable /\ faults' = faults \cup {"main"}
    /\ UNCHANGED <<bak, up, boot, seq, horizon, target, pc, next, sent>>

Next ==
    \/ Boot \/ WriteBak \/ WriteMain \/ PersistFails
    \/ Allocate \/ Send \/ Crash \/ LoseMain

Spec == Init /\ [][Next]_vars

-----------------------------------------------------------------------------

\* Every variable stays within its type.
TypeOK ==
    /\ main \in Horizons /\ bak \in Horizons
    /\ up \in BOOLEAN /\ boot \in Nat
    /\ seq \in Nat /\ horizon \in Nat /\ target \in Nat
    /\ pc \in {"idle", "writeBak", "writeMain", "send"}
    /\ next \in {"idle", "send"}
    /\ sent \subseteq [boot : Nat, seq : Nat] /\ faults \subseteq Faults

\* While the disk behaves, no event id is put on the wire by two different runs
\* of the daemon: a peer that still remembers the first would drop the second
\* as a replay.
NoReuse == faults = {} => \A a, b \in sent : a.seq = b.seq => a = b

\* Losing the main file, whenever it happens and however often, rewinds the
\* counter by less than one reservation: the backup is one generation behind.
BoundedRewind ==
    up /\ "write" \notin faults => \A s \in sent : s.seq < seq + RESERVE

\* The horizon held in memory is never ahead of the one on disk, whichever
\* writes fail: a failed persist is tried again by the next allocation.
HorizonIsDurable == up /\ "main" \notin faults => horizon <= ReadHorizon
=============================================================================
