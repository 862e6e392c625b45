------------------------------ MODULE Clipboard ------------------------------
(***************************************************************************)
(* The clipboard of one desktop and the three tasks around it: the watcher *)
(* that polls it, the driver loop that sends what the user copied and      *)
(* applies what arrives, and the writer thread (driver/clipboard.rs,       *)
(* shared.rs RecentWrites, actions.rs WriteClipboard, commands.rs Push,    *)
(* dedup.rs).                                                              *)
(*                                                                         *)
(* Received items are numbered.  A hash is the content, except that a      *)
(* picture is hashed by its pixels when read off the clipboard and by its  *)
(* encoding when received; a file saved under another name is alike.       *)
(***************************************************************************)
EXTENDS Naturals, Sequences, FiniteSets, SequencesExt

CONSTANTS
    Clips,        \* what may be copied or received
    Pictures,     \* those whose read-back has another hash
    Secrets,      \* those received as sensitive
    MaxReceived,  \* bound on items received
    MaxOwn,       \* bound on copies the user makes
    MaxSlips      \* bound on sessions replaced and writes that fail

ASSUME ClipboardAssumption ==
    /\ Pictures \subseteq Clips /\ Secrets \subseteq Clips \ Pictures
    /\ {MaxReceived, MaxOwn, MaxSlips} \subseteq Nat

VARIABLES
    clip,        \* what is on the clipboard, [what, n]: n = 0 for the user's own
    own,         \* copies the user made
    received,    \* items received and applied so far
    recent,      \* last_written_hashes within ECHO_WINDOW
    newestHash,  \* the newest hash of the core's dedup ring
    lately,      \* the hashes of the ring within ECHO_WINDOW
    jobs,        \* the writer's queue
    writing,     \* the job the writer thread has in hand
    timers,      \* items whose SECRET_LIFETIME runs
    seeded,      \* whether the watcher has seeded itself for this session
    lastSeen,    \* last_seen_hash
    glimpse,     \* what the watcher has read and not yet compared
    pushes,      \* Push, PushBinary on their way to the driver loop
    slips,
    ownClips,    \* history: what the user has copied
    sentOut,     \* history: what was sent to the peers
    failed       \* history: a write failed

osVars == <<clip, own>>
coreVars == <<received, recent, newestHash, lately, timers>>
writerVars == <<jobs, writing>>
watcherVars == <<seeded, lastSeen, glimpse>>
clipHistory == <<ownClips, sentOut, failed>>
clipboardVars == <<osVars, coreVars, writerVars, watcherVars, pushes, slips, clipHistory>>

Empty == [what |-> "empty", n |-> 0]
NoClip == "none"
Job(kind, c, n) == [kind |-> kind, what |-> c, n |-> n]
NoJob == Job("none", NoClip, 0)
LocalHash(c) == <<c, IF c \in Pictures THEN "pixels" ELSE "text">>
RemoteHash(c) == <<c, IF c \in Pictures THEN "encoding" ELSE "text">>

ClipboardInit ==
    /\ clip = Empty /\ own = 0 /\ received = 0 /\ recent = {}
    /\ newestHash = <<NoClip, "text">> /\ lately = {} /\ timers = {}
    /\ jobs = <<>> /\ writing = NoJob
    /\ seeded = TRUE /\ lastSeen = NoClip /\ glimpse = NoClip
    /\ pushes = <<>> /\ slips = MaxSlips
    /\ ownClips = {} /\ sentOut = {} /\ failed = FALSE

Slip == slips > 0 /\ slips' = slips - 1

-----------------------------------------------------------------------------
\* The user and the driver loop.

UserCopy(c) ==
    /\ own < MaxOwn
    /\ own' = own + 1 /\ clip' = [what |-> c, n |-> 0]
    /\ ownClips' = ownClips \cup {c}
    /\ UNCHANGED <<coreVars, writerVars, watcherVars, pushes, slips, sentOut, failed>>

\* DedupRing::observe_clipboard: the newest content is an echo, and so is what was
\* seen within the window.
Fresh(h) == h # newestHash /\ h \notin lately
Observed(h) == newestHash' = h /\ lately' = lately \cup {h}

\* Variant: the write is not remembered.
RecordNothing(c) == recent

\* RecentWrites::record.
Record(c) == recent \cup {c}

\* Variant: a secret that is on the clipboard already gets no timer.
ReceiveUntimed(c) ==
    /\ received < MaxReceived /\ Fresh(RemoteHash(c))
    /\ Observed(RemoteHash(c))
    /\ received' = received + 1
    /\ recent' = Record(c)
    /\ jobs' = Append(jobs, Job("write", c, received + 1))
    /\ timers' = IF c \in Secrets /\ clip.what # c
                 THEN timers \cup {[what |-> c, n |-> received + 1]} ELSE timers
    /\ UNCHANGED <<osVars, writing, watcherVars, pushes, slips, clipHistory>>

\* FrameReceivedClipboard and WriteClipboard: remembered first, then queued for the
\* writer; a secret's timer starts.
Receive_(c) ==
    /\ received < MaxReceived /\ Fresh(RemoteHash(c))
    /\ Observed(RemoteHash(c))
    /\ received' = received + 1
    /\ recent' = Record(c)
    /\ jobs' = Append(jobs, Job("write", c, received + 1))
    /\ timers' = IF c \in Secrets THEN timers \cup {[what |-> c, n |-> received + 1]} ELSE timers
    /\ UNCHANGED <<osVars, writing, watcherVars, pushes, slips, clipHistory>>

\* Push, PushBinary.
TakePush ==
    LET c == Head(pushes)
    IN  /\ pushes # <<>>
        /\ pushes' = Tail(pushes)
        /\ IF Fresh(LocalHash(c))
           THEN Observed(LocalHash(c)) /\ sentOut' = sentOut \cup {c}
           ELSE UNCHANGED <<newestHash, lately, sentOut>>
        /\ UNCHANGED <<osVars, received, recent, timers, writerVars, watcherVars, slips,
                       ownClips, failed>>

\* SECRET_LIFETIME is over: the writer had a minute for the write.
SecretExpires(t) ==
    /\ t \in timers
    /\ \A i \in DOMAIN jobs : jobs[i].n # t.n
    /\ writing.n # t.n
    /\ timers' = timers \ {t}
    /\ jobs' = Append(jobs, Job("clear", t.what, 0))
    /\ UNCHANGED <<osVars, received, recent, newestHash, lately, writing, watcherVars, pushes,
                   slips, clipHistory>>

-----------------------------------------------------------------------------
\* The writer thread.

\* Variant: the newest first, the others after it.
TakeNewestFirst ==
    /\ writing = NoJob /\ jobs # <<>>
    /\ writing' = Last(jobs) /\ jobs' = Front(jobs)
    /\ UNCHANGED <<osVars, coreVars, watcherVars, pushes, slips, clipHistory>>

\* serve_newest.
TakeNewest ==
    /\ writing = NoJob /\ jobs # <<>>
    /\ writing' = Last(jobs) /\ jobs' = <<>>
    /\ UNCHANGED <<osVars, coreVars, watcherVars, pushes, slips, clipHistory>>

\* ClipWrite: a clear empties the clipboard only if it still holds the secret.
ApplyJob ==
    /\ writing # NoJob
    /\ clip' = IF writing.kind = "write" THEN [what |-> writing.what, n |-> writing.n]
               ELSE IF clip.what = writing.what THEN Empty ELSE clip
    /\ writing' = NoJob
    /\ UNCHANGED <<own, coreVars, jobs, watcherVars, pushes, slips, clipHistory>>

ApplyFails ==
    /\ writing # NoJob /\ Slip
    /\ writing' = NoJob /\ failed' = TRUE
    /\ UNCHANGED <<osVars, coreVars, jobs, watcherVars, pushes, ownClips, sentOut>>

-----------------------------------------------------------------------------
\* The watcher.

SessionReplaced ==
    /\ seeded /\ Slip
    /\ seeded' = FALSE
    /\ UNCHANGED <<osVars, coreVars, writerVars, lastSeen, glimpse, pushes, clipHistory>>

\* The first tick of a session: what is on the clipboard is not news.
Seed ==
    /\ ~seeded /\ glimpse = NoClip
    /\ seeded' = TRUE
    /\ lastSeen' = IF clip = Empty THEN lastSeen ELSE clip.what
    /\ UNCHANGED <<osVars, coreVars, writerVars, glimpse, pushes, slips, clipHistory>>

\* A tick reads the clipboard, ...
PollRead ==
    /\ seeded /\ glimpse = NoClip /\ clip # Empty /\ clip.what # lastSeen
    /\ glimpse' = clip.what
    /\ UNCHANGED <<osVars, coreVars, writerVars, seeded, lastSeen, pushes, slips, clipHistory>>

\* ... and sends what is new and not its own write.
PollCompare ==
    /\ glimpse # NoClip
    /\ lastSeen' = glimpse /\ glimpse' = NoClip
    /\ pushes' = IF glimpse \in recent THEN pushes ELSE Append(pushes, glimpse)
    /\ UNCHANGED <<osVars, coreVars, writerVars, seeded, slips, clipHistory>>

\* ECHO_WINDOW passes: the writer has written and the watcher has looked by then.
EchoWindowEnds(c) ==
    /\ c \in recent /\ glimpse # c
    /\ \A i \in DOMAIN jobs : jobs[i].what # c
    /\ writing.what # c
    /\ clip.what = c => (lastSeen = c /\ glimpse = NoClip) \/ ~seeded
    /\ recent' = recent \ {c}
    /\ lately' = lately \ {LocalHash(c), RemoteHash(c)}
    /\ UNCHANGED <<osVars, received, newestHash, timers, writerVars, watcherVars, pushes, slips,
                   clipHistory>>

ClipboardNext ==
    \/ \E c \in Clips : UserCopy(c) \/ Receive_(c) \/ EchoWindowEnds(c)
    \/ \E t \in timers : SecretExpires(t)
    \/ TakePush \/ TakeNewest \/ ApplyJob \/ ApplyFails
    \/ SessionReplaced \/ Seed \/ PollRead \/ PollCompare

ClipboardSpec == ClipboardInit /\ [][ClipboardNext]_clipboardVars

-----------------------------------------------------------------------------

\* What a peer sent is not sent back: only what the user has copied here goes out.
NoPingPong == sentOut \subseteq ownClips

Settled == jobs = <<>> /\ writing = NoJob

\* A received secret does not stay: once the writer has nothing left to do, one that
\* is on the clipboard has its timer running, unless the user copied it or a write
\* failed.  With one secret: of two clears queued together serve_newest drops the
\* first (README, Divergences).
SecretsGo ==
    Settled /\ clip.n > 0 /\ clip.what \in Secrets /\ ~failed =>
        \E t \in timers : t.what = clip.what

\* The clipboard never goes back from a received item to one received before it.
NewestStays == [][clip'.n # 0 => clip'.n >= clip.n]_clipboardVars

\* With nothing left to write, the last item received is on the clipboard, unless
\* the user copied something, it was a secret, or a write failed.
LastReceivedLands ==
    Settled /\ received > 0 /\ own = 0 /\ ~failed =>
        clip.n = received \/ clip = Empty
=============================================================================
