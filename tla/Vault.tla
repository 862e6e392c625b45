-------------------------------- MODULE Vault --------------------------------
(***************************************************************************)
(* The encrypted history file and its two writers: the persister task,     *)
(* which follows the published state and rewrites the file off-thread, and *)
(* the driver loop, which deletes it itself on a security wipe before the  *)
(* new state is published (driver/vault.rs, history_store.rs, fsutil.rs,   *)
(* actions.rs sync_security_wipe_if_needed, app.rs history events).        *)
(*                                                                         *)
(* A row is one copy: its text, its Lamport time, its pin.  A missing file *)
(* and an empty one load alike.                                            *)
(***************************************************************************)
EXTENDS Naturals, Sequences, FiniteSets, Functions

CONSTANTS
    Texts,         \* what is copied
    HistCap,       \* HISTORY_SOFT_CAP
    DiskCap,       \* DEFAULT_DISK_CAP
    MaxCopies,     \* bound on the Lamport clock
    MaxPins,       \* bound on SetFavorite
    MaxVaultFaults      \* bound on wipes, clears, crashes, failed writes

ASSUME VaultAssumption ==
    /\ {HistCap, DiskCap} \subseteq Nat \ {0} /\ {MaxCopies, MaxPins, MaxVaultFaults} \subseteq Nat

VARIABLES
    rows,       \* State.history, newest first
    wipeGen,    \* vault_wipe_gen
    lamport,    \* the Lamport clock
    aged,       \* the copies past the retention
    pub,        \* the published state: history and generation
    news,       \* rx.changed of the persister
    driver,     \* "loop", in the middle of a wipe ("tmp", "file"), or "off"
    last,       \* VaultCtx.last
    entries,    \* VaultCtx.entries
    lastGen,    \* last_wipe_gen of the persister
    job,        \* persist_history_change under way
    flushed,    \* the final flush began
    file,       \* history.enc
    tmp,        \* history.enc.tmp: whether there is one, what it holds
    vaultFaults, pinBudget,
    wiped       \* history: the copies a wipe or a clear removed for this run of the daemon

memory == <<rows, wipeGen, lamport, aged>>
persister == <<last, entries, lastGen, job, flushed>>
disk == <<file, tmp>>
user == <<pinBudget, wiped>>
vaultVars == <<memory, pub, news, driver, persister, disk, vaultFaults, user>>

Row(x, l, f) == [text |-> x, lam |-> l, fav |-> f]
IdleJob == [at |-> "idle", hist |-> <<>>, gen |-> 0, out |-> <<>>, bySave |-> FALSE]
NoTmp == [there |-> FALSE, out |-> <<>>]
State_(h, g) == [hist |-> h, gen |-> g]
Lams(s) == {s[i].lam : i \in DOMAIN s}

\* The rows of s at the indices I, in their order.
Rank(I, i) == Cardinality({j \in I : j <= i})
At(s, I) == [k \in 1 .. Cardinality(I) |-> s[CHOOSE i \in I : Rank(I, i) = k]]

\* Favorites are exempt from the cap (cap_history_keeping_favorites, prune).
Unpinned(s, n) == {i \in DOMAIN s : i < n /\ ~s[i].fav}
UpTo(cap, s) == At(s, {i \in DOMAIN s : s[i].fav \/ Cardinality(Unpinned(s, i)) < cap})

\* ... and from the retention (expire_history, prune).
Unexpired(old, s) == At(s, {i \in DOMAIN s : s[i].fav \/ s[i].lam \notin old})

VaultInit ==
    /\ rows = <<>> /\ wipeGen = 0 /\ lamport = 0 /\ aged = {}
    /\ pub = State_(<<>>, 0) /\ news = FALSE /\ driver = "loop"
    /\ last = <<>> /\ entries = <<>> /\ lastGen = 0 /\ job = IdleJob /\ flushed = FALSE
    /\ file = <<>> /\ tmp = NoTmp
    /\ vaultFaults = MaxVaultFaults /\ pinBudget = MaxPins /\ wiped = {}

VaultFault == vaultFaults > 0 /\ vaultFaults' = vaultFaults - 1

\* EmitState: subscribers are woken only when something changed.
Publish(h, g) ==
    /\ pub' = State_(h, g)
    /\ news' = (news \/ pub # State_(h, g))

-----------------------------------------------------------------------------
\* The driver loop.

\* push_history: copied again, the row moves to the top and keeps its pin.
CopyText(x) ==
    LET old == {i \in DOMAIN rows :
                  rows[i].text = x /\ \A j \in 1 .. (i - 1) : rows[j].text # x}
        row == Row(x, lamport + 1, \E i \in old : rows[i].fav)
        rest == At(rows, DOMAIN rows \ old)
    IN  /\ driver = "loop" /\ lamport < MaxCopies
        /\ rows # <<>> => rows[1].text # x
        /\ lamport' = lamport + 1
        /\ rows' = UpTo(HistCap, <<row>> \o rest)
        /\ Publish(rows', wipeGen)
        /\ UNCHANGED <<wipeGen, aged, driver, persister, disk, vaultFaults, user>>

SetPin(x, f) ==
    /\ driver = "loop" /\ pinBudget > 0 /\ \E r \in Range(rows) : r.text = x /\ r.fav # f
    /\ pinBudget' = pinBudget - 1
    /\ rows' = [i \in DOMAIN rows |-> IF rows[i].text = x THEN [rows[i] EXCEPT !.fav = f] ELSE rows[i]]
    /\ Publish(rows', wipeGen)
    /\ UNCHANGED <<wipeGen, lamport, aged, driver, persister, disk, vaultFaults, wiped>>

\* A row gets older than the retention; the next tick drops it.
Grow(l) ==
    /\ l \notin aged /\ l \in 1 .. lamport
    /\ aged' = aged \cup 1 .. l
    /\ UNCHANGED <<rows, wipeGen, lamport, pub, news, driver, persister, disk, vaultFaults, user>>

ExpireTick ==
    /\ driver = "loop" /\ Unexpired(aged, rows) # rows
    /\ rows' = Unexpired(aged, rows)
    /\ Publish(rows', wipeGen)
    /\ UNCHANGED <<wipeGen, lamport, aged, driver, persister, disk, vaultFaults, user>>

\* ClearHistory leaves the disk to the persister.
ClearAll(favorites) ==
    /\ driver = "loop" /\ VaultFault
    /\ rows' = IF favorites THEN <<>> ELSE At(rows, {i \in DOMAIN rows : rows[i].fav})
    /\ wipeGen' = wipeGen + 1
    /\ wiped' = wiped \cup (Lams(rows) \ Lams(rows'))
    /\ Publish(rows', wipeGen')
    /\ UNCHANGED <<lamport, aged, driver, persister, disk, pinBudget>>

\* UntrustedPeerSeen or a swap of the only peer: memory first, then
\* sync_security_wipe_if_needed deletes the temporary file, then the file ...
SecurityWipe ==
    /\ driver = "loop" /\ VaultFault
    /\ rows' = <<>> /\ wipeGen' = wipeGen + 1
    /\ wiped' = wiped \cup 1 .. lamport
    /\ driver' = "tmp"
    /\ UNCHANGED <<lamport, aged, pub, news, persister, disk, pinBudget>>

WipeTmp ==
    /\ driver = "tmp"
    /\ driver' = "file" /\ tmp' = NoTmp
    /\ UNCHANGED <<memory, pub, news, persister, file, vaultFaults, user>>

\* ... and only then is the new state published.  A deletion that fails is left to
\* the persister.
WipeFile ==
    /\ driver = "file"
    /\ driver' = "loop" /\ file' = <<>>
    /\ Publish(rows, wipeGen)
    /\ UNCHANGED <<memory, persister, tmp, vaultFaults, user>>

WipeFails ==
    /\ driver \in {"tmp", "file"} /\ VaultFault
    /\ driver' = "loop"
    /\ Publish(rows, wipeGen)
    /\ UNCHANGED <<memory, persister, disk, user>>

-----------------------------------------------------------------------------
\* The persister.

\* VaultCtx::rebuild: favorites that left the window are carried on.
Rebuild(h, es) == h \o At(es, {i \in DOMAIN es : es[i].fav /\ es[i].lam \notin Lams(h)})

\* persist_history_change, up to its first file operation.
Begin(s) ==
    LET wipe == s.gen # lastGen
        es == IF wipe THEN <<>> ELSE entries
        was == IF wipe THEN <<>> ELSE last
    IN  /\ entries' = es /\ last' = was
        /\ job' = IF wipe /\ s.hist = <<>> THEN [IdleJob EXCEPT !.at = "clearTmp", !.gen = s.gen]
                  ELSE IF s.hist = was THEN IdleJob
                  ELSE [at |-> "write", hist |-> s.hist, gen |-> s.gen,
                        out |-> Rebuild(s.hist, es), bySave |-> wipe]

Wake ==
    /\ news /\ job.at = "idle" /\ driver # "off"
    /\ news' = FALSE
    /\ Begin(pub)
    /\ UNCHANGED <<memory, pub, driver, lastGen, flushed, disk, vaultFaults, user>>

\* Shutdown stops the driver loop; the persister reads the state once more.
Stop ==
    /\ driver = "loop" /\ VaultFault
    /\ driver' = "off"
    /\ UNCHANGED <<memory, pub, news, persister, disk, user>>

FinalFlush ==
    /\ driver = "off" /\ ~flushed /\ job.at = "idle"
    /\ flushed' = TRUE
    /\ Begin(pub)
    /\ UNCHANGED <<memory, pub, news, driver, lastGen, disk, vaultFaults, user>>

\* history_store::clear.
ClearTmp ==
    /\ job.at = "clearTmp"
    /\ job' = [job EXCEPT !.at = "clearFile"]
    /\ tmp' = NoTmp
    /\ UNCHANGED <<memory, pub, news, driver, last, entries, lastGen, flushed, file, vaultFaults, user>>

ClearFile ==
    /\ job.at = "clearFile"
    /\ file' = <<>> /\ lastGen' = job.gen /\ job' = IdleJob
    /\ UNCHANGED <<memory, pub, news, driver, last, entries, flushed, tmp, vaultFaults, user>>

\* history_store::save: the temporary file, then the rename over the old one, which
\* fails if the driver deleted the temporary file meanwhile.
WriteTmp ==
    /\ job.at = "write"
    /\ job' = [job EXCEPT !.at = "rename"]
    /\ tmp' = [there |-> TRUE, out |-> UpTo(DiskCap, Unexpired(aged, job.out))]
    /\ UNCHANGED <<memory, pub, news, driver, last, entries, lastGen, flushed, file, vaultFaults, user>>

Rename ==
    /\ job.at = "rename" /\ tmp.there
    /\ file' = tmp.out /\ tmp' = NoTmp
    /\ entries' = job.out /\ last' = job.hist
    /\ lastGen' = IF job.bySave THEN job.gen ELSE lastGen
    /\ job' = IdleJob
    /\ UNCHANGED <<memory, pub, news, driver, flushed, vaultFaults, user>>

RenameFails ==
    /\ job.at = "rename" /\ ~tmp.there
    /\ job' = IdleJob
    /\ UNCHANGED <<memory, pub, news, driver, last, entries, lastGen, flushed, disk, vaultFaults, user>>

\* Variant: what could not be saved counts as saved.
SaveFailsUnnoticed ==
    /\ job.at # "idle" /\ VaultFault
    /\ job' = IdleJob
    /\ last' = job.hist /\ entries' = job.out /\ lastGen' = job.gen
    /\ UNCHANGED <<memory, pub, news, driver, flushed, disk, user>>

\* The disk refuses: nothing of what the persister remembers moves on.
SaveFails ==
    /\ job.at # "idle" /\ VaultFault
    /\ job' = IdleJob
    /\ UNCHANGED <<memory, pub, news, driver, last, entries, lastGen, flushed, disk, user>>

-----------------------------------------------------------------------------

\* The daemon starts again on what is on the disk, after the last flush or a crash.
\* A wipe the crash came too early for is lost: nothing at start repeats it.
VaultBoot ==
    LET loaded == Unexpired(aged, file)
    IN  /\ \/ driver = "off" /\ flushed /\ job.at = "idle" /\ UNCHANGED vaultFaults
           \/ VaultFault
        /\ rows' = UpTo(HistCap, loaded) /\ wipeGen' = 0
        /\ pub' = State_(rows', 0) /\ news' = FALSE /\ driver' = "loop"
        /\ last' = rows' /\ entries' = loaded /\ lastGen' = 0
        /\ job' = IdleJob /\ flushed' = FALSE
        /\ wiped' = wiped \ Lams(file)
        /\ UNCHANGED <<lamport, aged, disk, pinBudget>>

VaultNext ==
    \/ \E x \in Texts : CopyText(x) \/ \E f \in BOOLEAN : SetPin(x, f)
    \/ \E l \in 1 .. lamport : Grow(l)
    \/ \E f \in BOOLEAN : ClearAll(f)
    \/ ExpireTick \/ SecurityWipe \/ WipeTmp \/ WipeFile \/ WipeFails \/ Stop
    \/ Wake \/ FinalFlush \/ ClearTmp \/ ClearFile \/ WriteTmp \/ Rename \/ RenameFails
    \/ SaveFails \/ VaultBoot

VaultSpec == VaultInit /\ [][VaultNext]_vaultVars

-----------------------------------------------------------------------------

\* The persister counts the disk as up to date only if it is.
UpToDate == job.at = "idle" /\ driver \in {"loop", "off"} /\ last = pub.hist /\ lastGen = pub.gen

\* However the driver's deletion, the persister's saves, failures, crashes and
\* shutdowns interleave: once the persister takes the disk to be up to date, the
\* file holds every published row that is within the cap and the retention, and none
\* that a wipe or a clear removed.
DiskFollows ==
    UpToDate =>
        /\ Lams(Unexpired(aged, UpTo(DiskCap, pub.hist))) \subseteq Lams(file)
        /\ Lams(file) \cap wiped = {}
=============================================================================
