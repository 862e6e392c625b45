---------------------------- MODULE LocalProofs ----------------------------
(***************************************************************************)
(* The parts of a daemon that keep to themselves: the keystore, the        *)
(* clipboard, the PIN on the device that shows it and on the one where it  *)
(* is typed, the catch-up after a reconnect, the pace of redials, and the  *)
(* file of the history.  Each has the invariant its property needs, kept   *)
(* by every step for any values of the bounds.                             *)
(***************************************************************************)
EXTENDS Keystore, Clipboard, Pin, Discovery, Resync, Redial, Vault, FiniteSetTheorems,
        TLAPS

-----------------------------------------------------------------------------
\* Keystore: the identity.

\* Where a secret lies, and what the start-up has in hand at each step: the keychain
\* and the file hold no two identities, a used one is in one of them, and what the
\* start goes on with is stored.
Kept == {chain, idFile} \cap Identities

InHand ==
    /\ at = "import" => self = idFile /\ idFile \in Identities /\ chain = Nothing
    /\ at = "store" => self \in Identities /\ chain = Nothing /\ idFile = Nothing
    /\ at = "verify" => self = idFile /\ idFile \in Identities
    /\ at \in {"zero", "unlink"} => self = chain /\ chain \in Identities
    /\ at \in {"peers", "settings"} => self \in Kept

OneIdentity ==
    /\ \A x, y \in Kept : x = y
    /\ used \subseteq Kept

IdentityInv == minted \in Nat /\ (lied \/ forked \/ (InHand /\ OneIdentity))

\* At most one value is in a set whose members are all the same.
LEMMA NoTwo == ASSUME NEW S, \A x, y \in S : x = y PROVE  Cardinality(S) <= 1
<1>1. CASE S = {}
    BY <1>1, FS_EmptySet
<1>2. CASE S # {}
  <2>1. PICK x \in S : TRUE
      BY <1>2
  <2>2. S = {x}
      BY <2>1
  <2> QED BY <2>2, FS_Singleton
<1> QED BY <1>1, <1>2

\* What an appended sequence holds.
LEMMA Appended ==
    ASSUME NEW S, NEW q \in Seq(S), NEW x \in S
    PROVE  \A i \in DOMAIN Append(q, x) :
               \/ Append(q, x)[i] = x /\ i = Len(q) + 1
               \/ i \in DOMAIN q /\ Append(q, x)[i] = q[i]
<1> DEFINE k == Len(q)
<1> DEFINE r == Append(q, x)
<1>1. k \in Nat /\ DOMAIN q = 1 .. k /\ DOMAIN r = 1 .. (k + 1)
    OBVIOUS
<1>2. r[k + 1] = x /\ \A i \in 1 .. k : r[i] = q[i]
    OBVIOUS
<1> HIDE DEF k, r
<1>3. \A i \in 1 .. (k + 1) : i = k + 1 \/ i \in 1 .. k
    BY <1>1
<1>4. \A i \in DOMAIN r : (r[i] = x /\ i = k + 1) \/ (i \in DOMAIN q /\ r[i] = q[i])
  <2> SUFFICES ASSUME NEW i \in 1 .. (k + 1)
               PROVE  (r[i] = x /\ i = k + 1) \/ (i \in DOMAIN q /\ r[i] = q[i])
      BY <1>1, Zenon
  <2>1. ASSUME i = k + 1 PROVE  r[i] = x
    <3>1. r[i] = r[k + 1]
        BY <2>1, Zenon
    <3> QED BY <1>2, <3>1, Zenon
  <2>2. CASE i \in 1 .. k
      BY <1>1, <1>2, <2>2, Zenon
  <2>3. i = k + 1 \/ i \in 1 .. k
      BY <1>3
  <2> QED BY <2>1, <2>2, <2>3, Zenon
<1> QED BY <1>4 DEF k, r

\* What is not an identity.
LEMMA NoSecrets == Nothing \notin Identities /\ Garbage \notin Identities /\ Zeros \notin Identities
BY KeystoreAssumption DEF Nothing, Garbage, Zeros, Identities

\* No access to the keychain and no change of the file, done, failed or cut short,
\* parts the start-up from where its identity is stored.
LEMMA IdentityStep == IdentityInv /\ [KeystoreNext]_keystoreVars => IdentityInv'
<1> SUFFICES ASSUME IdentityInv, [KeystoreNext]_keystoreVars PROVE  IdentityInv'
    OBVIOUS
<1> USE NoSecrets DEF IdentityInv, InHand, OneIdentity, Kept, Goes, Refuses, idVars
<1>1. ASSUME NEW m \in {"keychain", "file"}, BootWith(m) PROVE  IdentityInv'
    BY <1>1 DEF BootWith
<1>2. CASE ReadFile
  <2>1. CASE idFile \in Identities
      BY <1>2, <2>1 DEF ReadFile
  <2>2. CASE ~(idFile \in Identities)
      BY <1>2, <2>2 DEF ReadFile
  <2> QED BY <2>1, <2>2
<1>3. CASE GenerateInFile
  <2>1. minted + 1 \in Identities
      BY <1>3, KeystoreAssumption DEF GenerateInFile, Identities
  <2>2. CASE forked \/ chain # Nothing
    <3>1. forked'
        BY <1>3, <2>2, Zenon DEF GenerateInFile
    <3>2. minted' \in Nat
        BY <1>3 DEF GenerateInFile
    <3> QED BY <3>1, <3>2, Zenon
  <2>3. CASE ~forked /\ chain = Nothing
      BY <1>3, <2>1, <2>3 DEF GenerateInFile
  <2> QED BY <2>2, <2>3
<1>4. CASE FoundInChain
  <2>1. CASE chain \in Identities
      BY <1>4, <2>1 DEF FoundInChain
  <2>2. CASE ~(chain \in Identities)
      BY <1>4, <2>2 DEF FoundInChain
  <2> QED BY <2>1, <2>2
<1>5. CASE ChainUnavailable
    BY <1>5 DEF ChainUnavailable, idVars
<1>6. CASE ImportFile
  <2>1. CASE idFile \in Identities
      BY <1>6, <2>1 DEF ImportFile
  <2>2. CASE ~(idFile \in Identities)
      BY <1>6, <2>2 DEF ImportFile
  <2> QED BY <2>1, <2>2
<1>7. CASE GenerateInChain
  <2>1. minted + 1 \in Identities
      BY <1>7, KeystoreAssumption DEF GenerateInChain, Identities
  <2> QED BY <1>7, <2>1 DEF GenerateInChain
<1>8. CASE Store
  <2>1. CASE chain' = self /\ UNCHANGED lied
      BY <1>8, <2>1 DEF Store
  <2>2. CASE at' = "down" /\ UNCHANGED <<chain, lied>>
      BY <1>8, <2>2 DEF Store
  <2>3. CASE /\ chain' \in {Nothing, Garbage} /\ lied' = (lied \/ at = "store")
             /\ Goes(IF at = "import" THEN "verify" ELSE "peers", self)
    <3>1. minted' \in Nat /\ (forked' <=> forked)
        BY <1>8 DEF Store
    <3>2. CASE lied \/ at = "store"
      <4>1. lied'
          BY <2>3, <3>2, Zenon
      <4> QED BY <3>1, <4>1, Zenon
    <3>3. CASE ~lied /\ at = "import"
        BY <1>8, <2>3, <3>3 DEF Store
    <3> QED BY <1>8, <3>2, <3>3 DEF Store
  <2> QED BY <1>8, <2>1, <2>2, <2>3 DEF Store
<1>9. CASE VerifyReadback
  <2>1. CASE chain = self
      BY <1>9, <2>1 DEF VerifyReadback
  <2>2. CASE ~(chain = self)
      BY <1>9, <2>2 DEF VerifyReadback
  <2> QED BY <2>1, <2>2
<1>10. CASE ZeroFile
    BY <1>10 DEF ZeroFile
<1>11. CASE UnlinkFile
    BY <1>11 DEF UnlinkFile
<1>12. CASE LoadPeers
  <2>1. CASE peersFile = "ok"
      BY <1>12, <2>1 DEF LoadPeers
  <2>2. CASE ~(peersFile = "ok")
      BY <1>12, <2>2 DEF LoadPeers
  <2> QED BY <2>1, <2>2
<1>13. CASE LoadSettings
    BY <1>13 DEF LoadSettings
<1>14. CASE Dies
    BY <1>14 DEF Dies, idVars
<1>15. CASE UNCHANGED <<idVars, at>>
    BY <1>15 DEF idVars
<1> QED
    BY <1>1, <1>2, <1>3, <1>4, <1>5, <1>6, <1>7, <1>8, <1>9, <1>10, <1>11, <1>12, <1>13, <1>14, <1>15
       DEF KeystoreNext, Save, EmitSettings, CorruptPeers, CorruptSetting, Set, keystoreVars

\* However the start-up is cut short and whichever accesses fail, the identity a
\* daemon ran under is in the keychain or in the file (load_or_create_identity).
THEOREM IdentityIsKept == KeystoreSpec => []UsedIdentityKept
<1>1. KeystoreInit => IdentityInv
    BY KeystoreAssumption DEF KeystoreInit, IdentityInv, InHand, OneIdentity, Kept, Nothing, Identities
<1>2. IdentityInv => UsedIdentityKept
  <2> SUFFICES ASSUME IdentityInv, ~lied, ~forked PROVE  UsedIdentityKept
      BY DEF UsedIdentityKept
  <2>1. used \subseteq {chain, idFile} /\ \A x, y \in used : x = y
      BY DEF IdentityInv, OneIdentity, Kept
  <2> QED BY <2>1, NoTwo DEF UsedIdentityKept
<1> QED BY <1>1, <1>2, IdentityStep, PTL DEF KeystoreSpec

-----------------------------------------------------------------------------
\* Keystore: the settings.

SettingsTyped ==
    /\ stored \in [Settings -> Values \cup {Ask, Damaged}]
    /\ live \in [Settings -> Values] /\ shown \in [Settings -> Values]
    /\ unsaved \subseteq Settings
    /\ command = NoCommand \/ command \in [step : {"save", "emit"}, on : Settings, value : Values]

\* A file agrees with what was shown, but for the one a command was at; a damaged one
\* is known to be; while the daemon is up, memory is what was shown but for that one.
SettingsAgree ==
    /\ \A s \in Settings \ unsaved :
          /\ stored[s] # Damaged
          /\ Normalized(stored[s]) = shown[s] \/ (command.on = s /\ stored[s] = command.value)
          /\ command.step = "emit" /\ command.on = s => stored[s] = command.value
    /\ at = "up" =>
          \A s \in Settings : live[s] = IF command.on = s THEN command.value ELSE shown[s]

SettingsInv == SettingsTyped /\ SettingsAgree

\* What a file holds when it is read or written is one of the values.
LEMMA Normal ==
    /\ \A v \in Values : Normalized(v) = v /\ v # Damaged
    /\ \A v \in Values \cup {Ask} : Normalized(v) \in Values
    /\ NoCommand.on \notin Settings /\ NoCommand.step \notin {"save", "emit"}
    /\ Default \in Values
BY DEF Normalized, Values, Default, Ask, Damaged, NoCommand, Settings

\* A command goes through memory, the file and the clients in this order, and is cut
\* short anywhere.
LEMMA SettingsStep == SettingsInv /\ [KeystoreNext]_keystoreVars => SettingsInv'
<1> SUFFICES ASSUME SettingsInv, [KeystoreNext]_keystoreVars PROVE  SettingsInv'
    OBVIOUS
<1> USE Normal DEF SettingsInv, SettingsTyped
<1>1. ASSUME UNCHANGED setVars, at' = "up" => at = "up" PROVE  SettingsInv'
    BY <1>1 DEF setVars, SettingsAgree
<1>2. CASE LoadSettings
  <2>1. /\ live' = [s \in Settings |-> Loaded(s)] /\ shown' = live' /\ command' = NoCommand
        /\ stored' = stored /\ unsaved' = unsaved
      BY <1>2 DEF LoadSettings
  <2>2. \A s \in Settings : Loaded(s) \in Values
      BY DEF Loaded
  <2>3. \A s \in Settings \ unsaved : Loaded(s) = Normalized(stored[s])
      BY DEF Loaded, SettingsAgree
  <2>4. SettingsTyped'
      BY <2>1, <2>2
  <2>5. SettingsAgree'
      BY <2>1, <2>2, <2>3 DEF SettingsAgree
  <2> QED BY <2>4, <2>5
<1>3. ASSUME NEW s \in Settings, NEW v \in Values, Set(s, v) PROVE  SettingsInv'
  <2>1. /\ at = "up" /\ command = NoCommand /\ live' = [live EXCEPT ![s] = v]
        /\ command' = [step |-> "save", on |-> s, value |-> v]
        /\ UNCHANGED <<stored, shown, unsaved, at>>
      BY <1>3 DEF Set
  <2>2. SettingsTyped'
      BY <2>1
  <2>3. SettingsAgree'
      BY <2>1 DEF SettingsAgree
  <2> QED BY <2>2, <2>3
<1>4. CASE Save
  <2>1. /\ command \in [step : {"save", "emit"}, on : Settings, value : Values]
        /\ at = "up" /\ UNCHANGED <<live, shown, at>>
        /\ command' = [command EXCEPT !.step = "emit"]
      BY <1>4 DEF Save
  <2> DEFINE c == command
             d == command'
  <2>2. /\ d \in [step : {"save", "emit"}, on : Settings, value : Values]
        /\ d.on = c.on /\ d.value = c.value /\ c.on \in Settings /\ c.value \in Values
      BY <2>1
  <2>3. \/ stored' = [stored EXCEPT ![c.on] = c.value] /\ unsaved' = unsaved \ {c.on}
        \/ stored' = stored /\ unsaved' = unsaved \cup {c.on}
      BY <1>4 DEF Save
  <2>4. SettingsTyped'
      BY <2>1, <2>2, <2>3
  <2>5. SettingsAgree'
    <3>1. CASE stored' = [stored EXCEPT ![c.on] = c.value] /\ unsaved' = unsaved \ {c.on}
        BY <2>1, <2>2, <3>1 DEF SettingsAgree
    <3>2. CASE stored' = stored /\ unsaved' = unsaved \cup {c.on}
        BY <2>1, <2>2, <3>2 DEF SettingsAgree
    <3> QED BY <2>3, <3>1, <3>2
  <2> QED BY <2>4, <2>5
<1>5. CASE EmitSettings
  <2>1. /\ command \in [step : {"save", "emit"}, on : Settings, value : Values]
        /\ command.step = "emit" /\ at = "up" /\ shown' = live /\ command' = NoCommand
        /\ UNCHANGED <<stored, live, unsaved, at>>
      BY <1>5 DEF EmitSettings
  <2>2. \A s \in Settings \ unsaved : Normalized(stored[s]) = live[s]
    <3> SUFFICES ASSUME NEW s \in Settings \ unsaved PROVE  Normalized(stored[s]) = live[s]
        OBVIOUS
    <3>1. CASE command.on = s
        BY <2>1, <3>1 DEF SettingsAgree
    <3>2. CASE command.on # s
        BY <2>1, <3>2 DEF SettingsAgree
    <3> QED BY <3>1, <3>2
  <2>3. SettingsTyped'
      BY <2>1
  <2>4. SettingsAgree'
      BY <2>1, <2>2 DEF SettingsAgree
  <2> QED BY <2>3, <2>4
<1>6. ASSUME NEW s \in Settings, CorruptSetting(s) PROVE  SettingsInv'
  <2>1. /\ stored' = [stored EXCEPT ![s] = Damaged] /\ unsaved' = unsaved \cup {s}
        /\ at = "down" /\ UNCHANGED <<live, shown, command, at>>
      BY <1>6 DEF CorruptSetting
  <2>2. SettingsTyped'
      BY <2>1
  <2>3. SettingsAgree'
      BY <2>1 DEF SettingsAgree
  <2> QED BY <2>2, <2>3
<1>7. ASSUME NEW m \in {"keychain", "file"}, BootWith(m)
      PROVE  UNCHANGED setVars /\ at' # "up"
    BY <1>7 DEF BootWith
<1>8. CASE \/ ReadFile \/ GenerateInFile \/ FoundInChain \/ ChainUnavailable \/ ImportFile
           \/ GenerateInChain \/ Store \/ VerifyReadback \/ ZeroFile \/ UnlinkFile
           \/ LoadPeers \/ Dies \/ CorruptPeers \/ UNCHANGED keystoreVars
  <2>1. UNCHANGED setVars /\ (at' = "up" => at = "up")
      BY <1>8 DEF ReadFile, GenerateInFile, FoundInChain, ChainUnavailable, ImportFile,
            GenerateInChain, Store, VerifyReadback, ZeroFile, UnlinkFile, LoadPeers, Dies,
            CorruptPeers, keystoreVars, Goes, Refuses
  <2> QED BY <1>1, <2>1
<1> QED BY <1>1, <1>2, <1>3, <1>4, <1>5, <1>6, <1>7, <1>8 DEF KeystoreNext

\* Whichever writes fail and wherever the daemon dies, a setting the clients were
\* told of is the one a restart reads, or the one of the command that was cut short
\* (SetFirewall, SetDeviceName, SetHistoryRetention).
THEOREM ShownIsRead == KeystoreSpec => []ShownSurvives
<1>1. KeystoreInit => SettingsInv
  <2> SUFFICES ASSUME KeystoreInit PROVE  SettingsInv
      OBVIOUS
  <2>1. \A s \in Settings : stored[s] \in {Default, Ask} /\ shown[s] = Normalized(stored[s])
      BY DEF KeystoreInit
  <2>2. Default # Damaged /\ Ask # Damaged
      BY DEF Default, Ask, Damaged
  <2>3. SettingsTyped
      BY <2>1, Normal DEF KeystoreInit, SettingsTyped, Values
  <2>4. SettingsAgree
      BY <2>1, <2>2, Normal DEF KeystoreInit, SettingsAgree
  <2> QED BY <2>3, <2>4 DEF SettingsInv
<1>2. SettingsInv => ShownSurvives
    BY Normal DEF SettingsInv, SettingsAgree, SettingsTyped, ShownSurvives
<1> QED BY <1>1, <1>2, SettingsStep, PTL DEF KeystoreSpec

-----------------------------------------------------------------------------
\* Clipboard.

JobType == [kind : {"write", "clear"}, what : Clips, n : Nat]

ClipTyped ==
    /\ clip.n \in Nat /\ received \in Nat
    /\ jobs \in Seq(JobType) /\ writing \in JobType \cup {NoJob}
    /\ timers \subseteq [what : Secrets, n : Nat]

\* A step leaves the queue of the writer as it is, adds one job to it or empties it.
QueueMoves ==
    \A i \in DOMAIN jobs' :
        \/ i \in DOMAIN jobs /\ jobs'[i] = jobs[i]
        \/ \E c \in Clips : Receive_(c) /\ jobs'[i] = Job("write", c, received + 1)
        \/ \E t \in timers : SecretExpires(t) /\ jobs'[i] = Job("clear", t.what, 0)

\* The items waiting to be written came in after the one the writer has in hand, and
\* that one after the one on the clipboard.
WritesInOrder ==
    /\ clip.n <= received
    /\ \A i \in DOMAIN jobs :
           /\ jobs[i].kind = "write" =>
                  jobs[i].n \in 1 .. received /\ jobs[i].n > clip.n /\ jobs[i].n > writing.n
           /\ jobs[i].kind = "clear" => jobs[i].n = 0
    /\ writing.kind = "write" => writing.n \in 1 .. received /\ writing.n > clip.n
    /\ writing.kind = "clear" => writing.n = 0

\* Nothing leaves that the user has not copied: what is written is remembered from
\* before it is queued until the watcher has taken it for old.
OwnOnly ==
    /\ sentOut \subseteq ownClips /\ pushes \in Seq(ownClips)
    /\ glimpse # NoClip => glimpse \in recent \cup ownClips
    /\ \A i \in DOMAIN jobs : jobs[i].kind = "write" => jobs[i].what \in recent
    /\ writing.kind = "write" => writing.what \in recent
    /\ seeded /\ clip # Empty /\ clip.what \notin ownClips \cup recent =>
           lastSeen = clip.what /\ glimpse = NoClip

\* A secret that waits to be written has its timer, and so has the one that is on
\* the clipboard when the writer is idle; only secrets are cleared.
HasTimer(j) == j.kind = "write" /\ j.what \in Secrets => [what |-> j.what, n |-> j.n] \in timers

Guarded(j) == HasTimer(j) /\ (j.kind = "clear" => j.what \in Secrets)

SecretsTimed ==
    ~failed =>
        /\ \A i \in DOMAIN jobs : Guarded(jobs[i])
        /\ Guarded(writing)
        /\ SecretsGo

ClipInv == ClipTyped /\ WritesInOrder /\ OwnOnly /\ SecretsTimed

LEMMA NoJobKind == NoJob.kind = "none" /\ NoJob.n = 0 /\ NoJob.what = NoClip
BY DEF NoJob, Job

LEMMA QueueAppended ==
    ASSUME ClipTyped, NEW j \in JobType
    PROVE  /\ Append(jobs, j) \in Seq(JobType)
           /\ \A i \in DOMAIN Append(jobs, j) :
                  \/ Append(jobs, j)[i] = j
                  \/ i \in DOMAIN jobs /\ Append(jobs, j)[i] = jobs[i]
<1> DEFINE K == JobType
<1>1. jobs \in Seq(K) /\ j \in K
    BY DEF ClipTyped
<1> HIDE DEF K
<1>2. \A i \in DOMAIN Append(jobs, j) :
          \/ Append(jobs, j)[i] = j /\ i = Len(jobs) + 1
          \/ i \in DOMAIN jobs /\ Append(jobs, j)[i] = jobs[i]
    BY <1>1, Appended
<1>3. Append(jobs, j) \in Seq(K)
    BY <1>1
<1> QED BY <1>2, <1>3, Zenon DEF K

LEMMA QueueStep == ClipTyped /\ [ClipboardNext]_clipboardVars => ClipTyped' /\ QueueMoves
<1> SUFFICES ASSUME ClipTyped, [ClipboardNext]_clipboardVars PROVE  ClipTyped' /\ QueueMoves
    OBVIOUS
<1> USE DEF ClipTyped
<1>a. Secrets \subseteq Clips
    BY ClipboardAssumption
<1>1. ASSUME NEW c \in Clips, UserCopy(c) PROVE  ClipTyped' /\ QueueMoves
  <2>1. clip'.n = 0 /\ UNCHANGED <<received, jobs, writing, timers>>
      BY <1>1 DEF UserCopy, coreVars, writerVars
  <2> QED BY <2>1 DEF QueueMoves
<1>2. ASSUME NEW c \in Clips, Receive_(c) PROVE  ClipTyped' /\ QueueMoves
  <2> DEFINE j == Job("write", c, received + 1)
             t == [what |-> c, n |-> received + 1]
  <2>1. /\ received' = received + 1 /\ jobs' = Append(jobs, j)
        /\ timers' = IF c \in Secrets THEN timers \cup {t} ELSE timers
        /\ UNCHANGED <<clip, writing>>
      BY <1>2 DEF Receive_, osVars, clipHistory
  <2>2. j \in JobType /\ (c \in Secrets => t \in [what : Secrets, n : Nat])
      BY DEF JobType, Job
  <2> HIDE DEF t
  <2>3. ClipTyped'
    <3> HIDE DEF j
    <3>2. jobs' \in Seq(JobType)
        BY <2>1, <2>2, QueueAppended, Zenon
    <3>3. timers' \subseteq [what : Secrets, n : Nat]
        BY <2>1, <2>2
    <3> QED BY <2>1, <3>2, <3>3
  <2>4. \A i \in DOMAIN Append(jobs, j) :
            \/ Append(jobs, j)[i] = j
            \/ i \in DOMAIN jobs /\ Append(jobs, j)[i] = jobs[i]
    <3> HIDE DEF j
    <3> QED BY <2>2, QueueAppended, Zenon
  <2>5. QueueMoves
    <3> SUFFICES ASSUME NEW i \in DOMAIN jobs'
                 PROVE  \/ i \in DOMAIN jobs /\ jobs'[i] = jobs[i]
                        \/ Receive_(c) /\ jobs'[i] = j
        BY Zenon DEF QueueMoves
    <3> HIDE DEF j
    <3> QED BY <1>2, <2>1, <2>4
  <2> QED BY <2>3, <2>5
<1>3. ASSUME NEW c \in Clips, EchoWindowEnds(c) PROVE  ClipTyped' /\ QueueMoves
    BY <1>3 DEF EchoWindowEnds, osVars, writerVars, clipHistory, QueueMoves
<1>4. ASSUME NEW t \in timers, SecretExpires(t) PROVE  ClipTyped' /\ QueueMoves
  <2> DEFINE j == Job("clear", t.what, 0)
  <2>1. /\ jobs' = Append(jobs, j) /\ timers' = timers \ {t}
        /\ UNCHANGED <<clip, received, writing>>
      BY <1>4 DEF SecretExpires, osVars, clipHistory
  <2>2. j \in JobType
      BY <1>a DEF JobType, Job
  <2>3. ClipTyped'
    <3> HIDE DEF j
    <3>2. jobs' \in Seq(JobType)
        BY <2>1, <2>2, QueueAppended, Zenon
    <3> QED BY <2>1, <3>2
  <2>4. \A i \in DOMAIN Append(jobs, j) :
            \/ Append(jobs, j)[i] = j
            \/ i \in DOMAIN jobs /\ Append(jobs, j)[i] = jobs[i]
    <3> HIDE DEF j
    <3> QED BY <2>2, QueueAppended, Zenon
  <2>5. QueueMoves
    <3> SUFFICES ASSUME NEW i \in DOMAIN jobs'
                 PROVE  \/ i \in DOMAIN jobs /\ jobs'[i] = jobs[i]
                        \/ SecretExpires(t) /\ jobs'[i] = j
        BY Zenon DEF QueueMoves
    <3> HIDE DEF j
    <3> QED BY <1>4, <2>1, <2>4
  <2> QED BY <2>3, <2>5
<1>5. CASE TakePush
  <2>1. UNCHANGED <<clip, received, jobs, writing, timers>>
      BY <1>5 DEF TakePush, osVars, writerVars
  <2> QED BY <2>1 DEF QueueMoves
<1>6. CASE TakeNewest
  <2>1. /\ jobs # <<>> /\ writing' = jobs[Len(jobs)] /\ jobs' = <<>>
        /\ UNCHANGED <<clip, received, timers>>
      BY <1>6 DEF TakeNewest, Last, osVars, coreVars, clipHistory
  <2>2. writing' \in JobType
    <3> DEFINE K == JobType
    <3>1. jobs \in Seq(K)
        OBVIOUS
    <3> HIDE DEF K
    <3>2. jobs[Len(jobs)] \in K
        BY <2>1, <3>1
    <3> QED BY <2>1, <3>2 DEF K
  <2>3. jobs' \in Seq(JobType) /\ DOMAIN jobs' = {}
      BY <2>1
  <2> QED BY <2>1, <2>2, <2>3 DEF QueueMoves
<1>7. CASE ApplyJob
  <2>1. /\ clip'.n \in Nat /\ writing' = NoJob
        /\ UNCHANGED <<received, jobs, timers>>
      BY <1>7 DEF ApplyJob, coreVars, clipHistory, Empty, JobType
  <2> QED BY <2>1 DEF QueueMoves
<1>8. CASE ApplyFails
    BY <1>8 DEF ApplyFails, osVars, coreVars, QueueMoves
<1>9. CASE SessionReplaced \/ Seed \/ PollRead
    BY <1>9 DEF SessionReplaced, Seed, PollRead, osVars, coreVars, writerVars, clipHistory,
                QueueMoves
<1>10. CASE PollCompare
  <2>1. UNCHANGED <<clip, received, jobs, writing, timers>>
      BY <1>10 DEF PollCompare, osVars, coreVars, writerVars, clipHistory
  <2> QED BY <2>1 DEF QueueMoves
<1>11. CASE UNCHANGED clipboardVars
    BY <1>11 DEF clipboardVars, osVars, coreVars, writerVars, clipHistory, QueueMoves
<1> QED BY <1>1, <1>2, <1>3, <1>4, <1>5, <1>6, <1>7, <1>8, <1>9, <1>10, <1>11 DEF ClipboardNext

\* Receive queues the item after all that came in before; what the writer takes is
\* then dropped from the queue with all that waits, and only moves the clipboard on.
LEMMA OrderStep == ClipTyped /\ WritesInOrder /\ [ClipboardNext]_clipboardVars =>
                       /\ WritesInOrder'
                       /\ clip'.n # 0 => clip'.n >= clip.n
<1> SUFFICES ASSUME ClipTyped, WritesInOrder, [ClipboardNext]_clipboardVars
             PROVE  WritesInOrder' /\ (clip'.n # 0 => clip'.n >= clip.n)
    OBVIOUS
<1> DEFINE InOrder(j) == /\ j.kind = "write" => j.n \in 1 .. received /\ j.n > clip.n /\ j.n > writing.n
                         /\ j.kind = "clear" => j.n = 0
           Grows == clip'.n # 0 => clip'.n >= clip.n
<1>0. /\ clip.n \in Nat /\ received \in Nat /\ clip.n <= received
      /\ writing.n \in Nat /\ writing.n <= received
      /\ \A i \in DOMAIN jobs : jobs[i] \in JobType /\ InOrder(jobs[i])
  <2>1. \A i \in DOMAIN jobs : jobs[i] \in JobType
    <3> DEFINE K == JobType
    <3>1. jobs \in Seq(K)
        BY DEF ClipTyped
    <3> HIDE DEF K
    <3>2. \A i \in DOMAIN jobs : jobs[i] \in K
        BY <3>1
    <3> QED BY <3>2 DEF K
  <2>2. writing.n \in Nat /\ writing.n <= received
      BY NoJobKind DEF ClipTyped, WritesInOrder, JobType
  <2> QED BY <2>1, <2>2 DEF ClipTyped, WritesInOrder
<1>q. QueueMoves
    BY QueueStep
<1>1. ASSUME NEW c \in Clips, UserCopy(c) PROVE  WritesInOrder' /\ Grows
  <2>1. clip'.n = 0 /\ UNCHANGED <<received, jobs, writing>>
      BY <1>1 DEF UserCopy, coreVars, writerVars
  <2> QED BY <1>0, <2>1 DEF WritesInOrder, JobType
<1>2. ASSUME NEW c \in Clips, Receive_(c) PROVE  WritesInOrder' /\ Grows
  <2>1. /\ received' = received + 1 /\ UNCHANGED <<clip, writing>>
        /\ jobs' = Append(jobs, Job("write", c, received + 1))
      BY <1>2 DEF Receive_, osVars
  <2> DEFINE j == Job("write", c, received + 1)
  <2>2. j.kind = "write" /\ j.n = received + 1
      BY DEF Job
  <2>3. \A i \in DOMAIN jobs' : (i \in DOMAIN jobs /\ jobs'[i] = jobs[i]) \/ jobs'[i] = j
    <3>1. j \in JobType
        BY <1>0 DEF JobType, Job
    <3> HIDE DEF j
    <3> QED BY <2>1, <3>1, QueueAppended, Zenon DEF j
  <2> HIDE DEF j
  <2>4. (\A i \in DOMAIN jobs : InOrder(jobs[i]))'
    <3> SUFFICES ASSUME NEW i \in DOMAIN jobs'
                 PROVE  /\ jobs'[i].kind = "write" => /\ jobs'[i].n \in 1 .. received'
                                                      /\ jobs'[i].n > clip.n /\ jobs'[i].n > writing.n
                        /\ jobs'[i].kind = "clear" => jobs'[i].n = 0
        BY <2>1
    <3>1. CASE i \in DOMAIN jobs /\ jobs'[i] = jobs[i]
        BY <1>0, <2>1, <3>1 DEF JobType
    <3>2. CASE jobs'[i] = j
        BY <1>0, <2>1, <2>2, <3>2
    <3> QED BY <2>3, <3>1, <3>2
  <2> QED BY <1>0, <2>1, <2>4 DEF WritesInOrder
<1>3. ASSUME NEW t \in timers, SecretExpires(t) PROVE  WritesInOrder' /\ Grows
  <2>1. UNCHANGED <<clip, received, writing>>
      BY <1>3 DEF SecretExpires, osVars
  <2>2. \A i \in DOMAIN jobs' : (i \in DOMAIN jobs /\ jobs'[i] = jobs[i])
                                  \/ (jobs'[i].kind = "clear" /\ jobs'[i].n = 0)
    <3>1. ~\E c \in Clips : Receive_(c)
        BY <1>0, <2>1 DEF Receive_
    <3> QED BY <1>q, <3>1 DEF QueueMoves, Job
  <2> QED BY <1>0, <2>1, <2>2 DEF WritesInOrder, JobType
<1>4. CASE TakeNewest
  <2>1. /\ jobs # <<>> /\ writing' = jobs[Len(jobs)] /\ jobs' = <<>>
        /\ UNCHANGED <<clip, received>>
      BY <1>4 DEF TakeNewest, Last, osVars, coreVars
  <2>2. Len(jobs) \in DOMAIN jobs
      BY <2>1 DEF ClipTyped
  <2> QED BY <1>0, <2>1, <2>2 DEF WritesInOrder
<1>5. CASE ApplyJob
  <2>1. /\ writing # NoJob /\ writing \in JobType
        /\ clip' = IF writing.kind = "write" THEN [what |-> writing.what, n |-> writing.n]
                   ELSE IF clip.what = writing.what THEN Empty ELSE clip
        /\ writing' = NoJob /\ UNCHANGED <<received, jobs>>
      BY <1>5 DEF ApplyJob, coreVars, ClipTyped
  <2>2. CASE writing.kind = "write"
    <3>1. clip'.n = writing.n /\ writing.n \in 1 .. received /\ writing.n > clip.n
        BY <2>1, <2>2 DEF WritesInOrder
    <3> QED BY <1>0, <2>1, <3>1, NoJobKind DEF WritesInOrder
  <2>3. CASE writing.kind = "clear"
    <3>1. clip'.n = 0 \/ clip'.n = clip.n
        BY <2>1, <2>3 DEF Empty
    <3> QED BY <1>0, <2>1, <3>1, NoJobKind DEF WritesInOrder, JobType
  <2> QED BY <2>1, <2>2, <2>3 DEF JobType
<1>6. CASE ApplyFails
  <2>1. writing' = NoJob /\ UNCHANGED <<clip, received, jobs>>
      BY <1>6 DEF ApplyFails, osVars, coreVars
  <2> QED BY <1>0, <2>1, NoJobKind DEF WritesInOrder, JobType
<1>7. ASSUME NEW c \in Clips, EchoWindowEnds(c) PROVE  WritesInOrder' /\ Grows
    BY <1>0, <1>7 DEF EchoWindowEnds, osVars, writerVars, WritesInOrder
<1>8. CASE \/ TakePush \/ SessionReplaced \/ Seed \/ PollRead \/ PollCompare
           \/ UNCHANGED clipboardVars
  <2>1. UNCHANGED <<clip, received, jobs, writing>>
      BY <1>8 DEF TakePush, SessionReplaced, Seed, PollRead, PollCompare, clipboardVars,
                  osVars, coreVars, writerVars
  <2> QED BY <1>0, <2>1 DEF WritesInOrder
<1> QED BY <1>1, <1>2, <1>3, <1>4, <1>5, <1>6, <1>7, <1>8 DEF ClipboardNext

\* PollRead takes up what is new on the clipboard, and that is the user's or is
\* remembered; PollCompare drops it when it is remembered.
LEMMA OwnStep == ClipTyped /\ OwnOnly /\ [ClipboardNext]_clipboardVars => OwnOnly'
<1> SUFFICES ASSUME ClipTyped, OwnOnly, [ClipboardNext]_clipboardVars PROVE  OwnOnly'
    OBVIOUS
<1> DEFINE Sent == sentOut \subseteq ownClips /\ pushes \in Seq(ownClips)
           Seen == glimpse # NoClip => glimpse \in recent \cup ownClips
           Queued == \A i \in DOMAIN jobs : jobs[i].kind = "write" => jobs[i].what \in recent
           AtHand == writing.kind = "write" => writing.what \in recent
           Old == seeded /\ clip # Empty /\ clip.what \notin ownClips \cup recent =>
                      lastSeen = clip.what /\ glimpse = NoClip
<1>0. Sent /\ Seen /\ Queued /\ AtHand /\ Old
    BY Zenon DEF OwnOnly
<1>z. SUFFICES Sent' /\ Seen' /\ Queued' /\ AtHand' /\ Old'
    BY Zenon DEF OwnOnly
<1>1. ASSUME NEW c \in Clips, UserCopy(c) PROVE  Sent' /\ Seen' /\ Queued' /\ AtHand' /\ Old'
  <2>1. /\ clip' = [what |-> c, n |-> 0] /\ ownClips' = ownClips \cup {c}
        /\ UNCHANGED <<recent, jobs, writing, seeded, lastSeen, glimpse, pushes, sentOut>>
      BY <1>1 DEF UserCopy, coreVars, writerVars, watcherVars
  <2>2. Sent'
      BY <1>0, <2>1
  <2> QED BY <1>0, <2>1, <2>2
<1>2. ASSUME NEW c \in Clips, Receive_(c) PROVE  Sent' /\ Seen' /\ Queued' /\ AtHand' /\ Old'
  <2> DEFINE j == Job("write", c, received + 1)
  <2>1. /\ recent' = recent \cup {c} /\ jobs' = Append(jobs, j)
        /\ UNCHANGED <<clip, writing, seeded, lastSeen, glimpse, pushes, sentOut, ownClips>>
      BY <1>2 DEF Receive_, Record, osVars, watcherVars, clipHistory
  <2>2. j \in JobType /\ j.what = c
      BY DEF Job, JobType, ClipTyped
  <2> HIDE DEF j
  <2>3. \A i \in DOMAIN jobs' : (i \in DOMAIN jobs /\ jobs'[i] = jobs[i]) \/ jobs'[i] = j
      BY <2>1, <2>2, QueueAppended, Zenon
  <2>4. Queued'
    <3> SUFFICES ASSUME NEW i \in DOMAIN jobs', jobs'[i].kind = "write"
                 PROVE  jobs'[i].what \in recent'
        OBVIOUS
    <3> QED BY <1>0, <2>1, <2>2, <2>3
  <2> QED BY <1>0, <2>1, <2>4
<1>3. ASSUME NEW c \in Clips, EchoWindowEnds(c)
      PROVE  Sent' /\ Seen' /\ Queued' /\ AtHand' /\ Old'
  <2>1. /\ glimpse # c /\ recent' = recent \ {c} /\ writing.what # c
        /\ \A i \in DOMAIN jobs : jobs[i].what # c
        /\ clip.what = c => (lastSeen = c /\ glimpse = NoClip) \/ ~seeded
        /\ UNCHANGED <<clip, jobs, writing, seeded, lastSeen, glimpse, pushes, sentOut, ownClips>>
      BY <1>3 DEF EchoWindowEnds, osVars, writerVars, watcherVars, clipHistory
  <2>2. Old'
      BY <1>0, <2>1
  <2> QED BY <1>0, <2>1, <2>2
<1>4. ASSUME NEW t \in timers, SecretExpires(t)
      PROVE  Sent' /\ Seen' /\ Queued' /\ AtHand' /\ Old'
  <2> DEFINE j == Job("clear", t.what, 0)
  <2>1. /\ jobs' = Append(jobs, j)
        /\ UNCHANGED <<clip, recent, writing, seeded, lastSeen, glimpse, pushes, sentOut, ownClips>>
      BY <1>4 DEF SecretExpires, osVars, watcherVars, clipHistory
  <2>2. j \in JobType /\ j.kind = "clear"
      BY ClipboardAssumption DEF Job, JobType, ClipTyped
  <2> HIDE DEF j
  <2>3. \A i \in DOMAIN jobs' : (i \in DOMAIN jobs /\ jobs'[i] = jobs[i]) \/ jobs'[i] = j
      BY <2>1, <2>2, QueueAppended, Zenon
  <2> QED BY <1>0, <2>1, <2>2, <2>3
<1>5. CASE TakePush
  <2>1. /\ pushes # <<>> /\ pushes' = Tail(pushes)
        /\ sentOut' \subseteq sentOut \cup {Head(pushes)}
        /\ UNCHANGED <<clip, recent, jobs, writing, seeded, lastSeen, glimpse, ownClips>>
      BY <1>5 DEF TakePush, osVars, writerVars, watcherVars
  <2>2. Head(pushes) \in ownClips /\ Tail(pushes) \in Seq(ownClips)
      BY <1>0, <2>1
  <2> QED BY <1>0, <2>1, <2>2
<1>6. CASE TakeNewest
  <2>1. /\ jobs # <<>> /\ writing' = jobs[Len(jobs)] /\ jobs' = <<>>
        /\ UNCHANGED <<clip, recent, seeded, lastSeen, glimpse, pushes, sentOut, ownClips>>
      BY <1>6 DEF TakeNewest, Last, osVars, coreVars, watcherVars, clipHistory
  <2>2. Len(jobs) \in DOMAIN jobs /\ DOMAIN jobs' = {}
      BY <2>1 DEF ClipTyped
  <2> QED BY <1>0, <2>1, <2>2
<1>7. CASE ApplyJob
  <2>1. /\ writing # NoJob /\ writing \in JobType
        /\ clip' = IF writing.kind = "write" THEN [what |-> writing.what, n |-> writing.n]
                   ELSE IF clip.what = writing.what THEN Empty ELSE clip
        /\ writing' = NoJob
        /\ UNCHANGED <<recent, jobs, seeded, lastSeen, glimpse, pushes, sentOut, ownClips>>
      BY <1>7 DEF ApplyJob, coreVars, watcherVars, clipHistory, ClipTyped
  <2>2. Old'
    <3>1. CASE writing.kind = "write"
      <4>1. clip'.what \in recent'
          BY <1>0, <2>1, <3>1
      <4> QED BY <4>1
    <3>2. CASE writing.kind # "write"
        BY <1>0, <2>1, <3>2
    <3> QED BY <3>1, <3>2
  <2> QED BY <1>0, <2>1, <2>2, NoJobKind
<1>8. CASE ApplyFails
  <2>1. /\ writing' = NoJob
        /\ UNCHANGED <<clip, recent, jobs, seeded, lastSeen, glimpse, pushes, sentOut, ownClips>>
      BY <1>8 DEF ApplyFails, osVars, coreVars, watcherVars
  <2> QED BY <1>0, <2>1, NoJobKind
<1>9. CASE SessionReplaced
  <2>1. /\ seeded' = FALSE
        /\ UNCHANGED <<clip, recent, jobs, writing, lastSeen, glimpse, pushes, sentOut, ownClips>>
      BY <1>9 DEF SessionReplaced, osVars, coreVars, writerVars, clipHistory
  <2> QED BY <1>0, <2>1
<1>10. CASE Seed
  <2>1. /\ glimpse = NoClip /\ lastSeen' = IF clip = Empty THEN lastSeen ELSE clip.what
        /\ UNCHANGED <<clip, recent, jobs, writing, glimpse, pushes, sentOut, ownClips>>
      BY <1>10 DEF Seed, osVars, coreVars, writerVars, clipHistory
  <2> QED BY <1>0, <2>1
<1>11. CASE PollRead
  <2>1. /\ seeded /\ glimpse = NoClip /\ clip # Empty /\ clip.what # lastSeen
        /\ glimpse' = clip.what
        /\ UNCHANGED <<clip, recent, jobs, writing, seeded, lastSeen, pushes, sentOut, ownClips>>
      BY <1>11 DEF PollRead, osVars, coreVars, writerVars, clipHistory
  <2>2. clip.what \in ownClips \cup recent
      BY <1>0, <2>1
  <2> QED BY <1>0, <2>1, <2>2
<1>12. CASE PollCompare
  <2>1. /\ glimpse # NoClip /\ lastSeen' = glimpse /\ glimpse' = NoClip
        /\ pushes' = IF glimpse \in recent THEN pushes ELSE Append(pushes, glimpse)
        /\ UNCHANGED <<clip, recent, jobs, writing, seeded, sentOut, ownClips>>
      BY <1>12 DEF PollCompare, osVars, coreVars, writerVars, clipHistory
  <2>2. pushes' \in Seq(ownClips)
    <3>1. CASE glimpse \in recent
        BY <1>0, <2>1, <3>1
    <3>2. CASE glimpse \notin recent
      <4>1. glimpse \in ownClips
          BY <1>0, <2>1, <3>2
      <4> QED BY <1>0, <2>1, <3>2, <4>1
    <3> QED BY <3>1, <3>2
  <2> QED BY <1>0, <2>1, <2>2
<1>13. CASE UNCHANGED clipboardVars
  <2>1. UNCHANGED <<clip, recent, jobs, writing, seeded, lastSeen, glimpse, pushes, sentOut, ownClips>>
      BY <1>13 DEF clipboardVars, osVars, coreVars, writerVars, watcherVars, clipHistory
  <2> QED BY <1>0, <2>1
<1> QED BY <1>1, <1>2, <1>3, <1>4, <1>5, <1>6, <1>7, <1>8, <1>9, <1>10, <1>11, <1>12, <1>13
       DEF ClipboardNext

\* With two secrets, TakeNewest may drop the clear of one for the clear of the other.
OneSecret == \A x, y \in Secrets : x = y

\* A secret's timer outlives its wait in the queue (SecretExpires waits for the
\* writer), so that the writer never leaves a secret behind that nothing will clear.
LEMMA SecretsStep == OneSecret /\ ClipTyped /\ SecretsTimed /\ [ClipboardNext]_clipboardVars =>
                         SecretsTimed'
<1> SUFFICES ASSUME OneSecret, ClipTyped, SecretsTimed, [ClipboardNext]_clipboardVars, ~failed'
             PROVE  /\ \A i \in DOMAIN jobs' : Guarded(jobs[i])'
                    /\ Guarded(writing)' /\ SecretsGo'
    BY Zenon DEF SecretsTimed
<1> DEFINE Guards(T, j) == /\ j.kind = "write" /\ j.what \in Secrets => [what |-> j.what, n |-> j.n] \in T
                           /\ j.kind = "clear" => j.what \in Secrets
           Gone == jobs = <<>> /\ writing = NoJob /\ clip.n > 0 /\ clip.what \in Secrets =>
                       \E t \in timers : t.what = clip.what
<1>n. ~failed
  <2>1. ASSUME failed PROVE  FALSE
    <3>1. failed' = failed \/ failed' = TRUE
        BY DEF ClipboardNext, UserCopy, Receive_, EchoWindowEnds, SecretExpires, TakePush, TakeNewest,
               ApplyJob, ApplyFails, SessionReplaced, Seed, PollRead, PollCompare, clipboardVars,
               clipHistory
    <3> QED BY <2>1, <3>1, Zenon
  <2> QED BY <2>1, Zenon
<1>0. (\A i \in DOMAIN jobs : Guards(timers, jobs[i])) /\ Guards(timers, writing) /\ Gone
    BY <1>n DEF SecretsTimed, Guarded, HasTimer, SecretsGo, Settled
<1>z. SUFFICES /\ \A i \in DOMAIN jobs' : Guards(timers', jobs'[i])
               /\ Guards(timers', writing') /\ Gone'
    BY DEF Guarded, HasTimer, SecretsGo, Settled
<1> DEFINE Goal == /\ \A i \in DOMAIN jobs' : Guards(timers', jobs'[i])
                   /\ Guards(timers', writing')
                   /\ jobs' = <<>> /\ writing' = NoJob /\ clip'.n > 0 /\ clip'.what \in Secrets =>
                          \E t \in timers' : t.what = clip'.what
<1>1. ASSUME NEW c \in Clips, UserCopy(c) PROVE  Goal
  <2>1. clip'.n = 0 /\ UNCHANGED <<jobs, writing, timers>>
      BY <1>1 DEF UserCopy, coreVars, writerVars
  <2> QED BY <1>0, <2>1
<1>2. ASSUME NEW c \in Clips, Receive_(c) PROVE  Goal
  <2> DEFINE j == Job("write", c, received + 1)
             t == [what |-> c, n |-> received + 1]
  <2>1. /\ jobs' = Append(jobs, j) /\ UNCHANGED writing
        /\ timers' = IF c \in Secrets THEN timers \cup {t} ELSE timers
      BY <1>2 DEF Receive_
  <2>2. j \in JobType /\ Guards(timers', j)
      BY <2>1 DEF Job, JobType, ClipTyped
  <2>3. timers \subseteq timers'
      BY <2>1
  <2> HIDE DEF j, t
  <2>4. \A i \in DOMAIN jobs' : (i \in DOMAIN jobs /\ jobs'[i] = jobs[i]) \/ jobs'[i] = j
      BY <2>1, <2>2, QueueAppended, Zenon
  <2>5. \A i \in DOMAIN jobs' : Guards(timers', jobs'[i])
    <3> SUFFICES ASSUME NEW i \in DOMAIN jobs' PROVE  Guards(timers', jobs'[i])
        OBVIOUS
    <3>1. CASE i \in DOMAIN jobs /\ jobs'[i] = jobs[i]
        BY <1>0, <2>3, <3>1
    <3>2. CASE jobs'[i] = j
        BY <2>2, <3>2
    <3> QED BY <2>4, <3>1, <3>2
  <2>6. jobs' # <<>>
      BY <2>1, <2>2 DEF ClipTyped
  <2> QED BY <1>0, <2>1, <2>3, <2>5, <2>6
<1>3. ASSUME NEW t \in timers, SecretExpires(t) PROVE  Goal
  <2> DEFINE j == Job("clear", t.what, 0)
  <2>1. /\ \A i \in DOMAIN jobs : jobs[i].n # t.n
        /\ writing.n # t.n /\ timers' = timers \ {t}
        /\ jobs' = Append(jobs, j) /\ UNCHANGED writing
      BY <1>3 DEF SecretExpires
  <2>2. j \in JobType /\ j.kind = "clear" /\ j.what \in Secrets
      BY ClipboardAssumption DEF Job, JobType, ClipTyped
  <2> HIDE DEF j
  <2>3. \A i \in DOMAIN jobs' : (i \in DOMAIN jobs /\ jobs'[i] = jobs[i]) \/ jobs'[i] = j
      BY <2>1, <2>2, QueueAppended, Zenon
  <2>4. \A k : k.n # t.n => [what |-> k.what, n |-> k.n] # t
      OBVIOUS
  <2>5. \A i \in DOMAIN jobs' : Guards(timers', jobs'[i])
    <3> SUFFICES ASSUME NEW i \in DOMAIN jobs' PROVE  Guards(timers', jobs'[i])
        OBVIOUS
    <3>1. CASE i \in DOMAIN jobs /\ jobs'[i] = jobs[i]
        BY <1>0, <2>1, <2>4, <3>1
    <3>2. CASE jobs'[i] = j
        BY <2>2, <3>2
    <3> QED BY <2>3, <3>1, <3>2
  <2>6. jobs' # <<>>
      BY <2>1, <2>2 DEF ClipTyped
  <2> QED BY <1>0, <2>1, <2>4, <2>5, <2>6
<1>4. CASE TakeNewest
  <2>1. /\ jobs # <<>> /\ writing' = jobs[Len(jobs)] /\ jobs' = <<>> /\ UNCHANGED timers
      BY <1>4 DEF TakeNewest, Last, coreVars
  <2>2. Len(jobs) \in DOMAIN jobs /\ DOMAIN jobs' = {} /\ jobs[Len(jobs)] \in JobType
    <3> DEFINE K == JobType
    <3>1. jobs \in Seq(K)
        BY DEF ClipTyped
    <3> HIDE DEF K
    <3>2. Len(jobs) \in DOMAIN jobs /\ DOMAIN jobs' = {} /\ jobs[Len(jobs)] \in K
        BY <2>1, <3>1
    <3> QED BY <3>2 DEF K
  <2>3. writing' # NoJob
      BY <2>1, <2>2, NoJobKind DEF JobType
  <2> QED BY <1>0, <2>1, <2>2, <2>3
<1>5. CASE ApplyJob
  <2>1. /\ writing # NoJob /\ writing \in JobType
        /\ clip' = IF writing.kind = "write" THEN [what |-> writing.what, n |-> writing.n]
                   ELSE IF clip.what = writing.what THEN Empty ELSE clip
        /\ writing' = NoJob /\ UNCHANGED <<jobs, timers>>
      BY <1>5 DEF ApplyJob, coreVars, ClipTyped
  <2>2. ASSUME clip'.n > 0, clip'.what \in Secrets PROVE  \E t \in timers : t.what = clip'.what
    <3>1. CASE writing.kind = "write"
      <4> DEFINE t == [what |-> writing.what, n |-> writing.n]
      <4>1. t \in timers /\ t.what = clip'.what
          BY <1>0, <2>1, <2>2, <3>1
      <4> QED BY <4>1
    <3>2. CASE writing.kind = "clear"
      <4>1. writing.what \in Secrets
          BY <1>0, <3>2
      <4>2. clip.what # writing.what
          BY <2>1, <2>2, <3>2 DEF Empty
      <4>3. clip' = clip
          BY <2>1, <3>2, <4>2
      <4> QED BY <2>2, <4>1, <4>2, <4>3 DEF OneSecret
    <3> QED BY <2>1, <3>1, <3>2 DEF JobType
  <2> QED BY <1>0, <2>1, <2>2, NoJobKind
<1>6. CASE ApplyFails
    BY <1>6 DEF ApplyFails
<1>7. CASE \/ TakePush \/ SessionReplaced \/ Seed \/ PollRead \/ PollCompare
           \/ UNCHANGED clipboardVars \/ \E c \in Clips : EchoWindowEnds(c)
  <2>1. UNCHANGED <<clip, jobs, writing, timers>>
      BY <1>7 DEF TakePush, SessionReplaced, Seed, PollRead, PollCompare, EchoWindowEnds,
                  clipboardVars, osVars, coreVars, writerVars
  <2> QED BY <1>0, <2>1
<1>8. Goal
    BY <1>1, <1>2, <1>3, <1>4, <1>5, <1>6, <1>7 DEF ClipboardNext
<1> QED BY <1>8

LEMMA ClipStart == ClipboardInit => ClipInv
<1> SUFFICES ASSUME ClipboardInit PROVE  ClipInv
    OBVIOUS
<1>1. /\ clip = Empty /\ received = 0 /\ jobs = <<>> /\ DOMAIN jobs = {} /\ writing = NoJob
      /\ timers = {} /\ pushes = <<>> /\ glimpse = NoClip /\ ownClips = {} /\ sentOut = {}
    BY DEF ClipboardInit
<1>2. ClipTyped
    BY <1>1 DEF ClipTyped, Empty
<1>3. WritesInOrder
    BY <1>1, NoJobKind DEF WritesInOrder, Empty
<1>4. OwnOnly
    BY <1>1, NoJobKind DEF OwnOnly
<1>5. SecretsTimed
    BY <1>1, NoJobKind DEF SecretsTimed, Guarded, HasTimer, SecretsGo, Empty
<1> QED BY <1>2, <1>3, <1>4, <1>5 DEF ClipInv

\* The writer never replaces an item by one that came in before it, in whatever order
\* the items, the clears and the failures fall (serve_newest, ClipWrite).
THEOREM WritesMoveOn == ClipboardSpec => NewestStays
<1> DEFINE Inv == ClipTyped /\ WritesInOrder
           A == clip'.n # 0 => clip'.n >= clip.n
<1>1. ClipboardInit => Inv
    BY ClipStart DEF ClipInv
<1>2. Inv /\ [ClipboardNext]_clipboardVars => Inv' /\ A
    BY QueueStep, OrderStep
<1>3. Inv /\ [ClipboardNext]_clipboardVars => [A]_clipboardVars
    BY <1>2
<1> QED BY <1>1, <1>2, <1>3, PTL DEF ClipboardSpec, NewestStays

\* What a peer sent is never sent back by the watcher, although it polls while the
\* writer writes and the core forgets (RecentWrites, spawn_clipboard_watcher).
THEOREM OnlyOwnCopiesLeave == ClipboardSpec => []NoPingPong
<1>1. ClipboardInit => ClipTyped /\ OwnOnly
    BY ClipStart DEF ClipInv
<1>2. ClipTyped /\ OwnOnly /\ [ClipboardNext]_clipboardVars => ClipTyped' /\ OwnOnly'
    BY QueueStep, OwnStep
<1>3. OwnOnly => NoPingPong
    BY DEF OwnOnly, NoPingPong
<1> QED BY <1>1, <1>2, <1>3, PTL DEF ClipboardSpec

\* When the writer is idle, a received secret on the clipboard has its timer, unless
\* a write failed; with one secret, as the property says (WriteClipboard,
\* SECRET_LIFETIME, serve_newest).
THEOREM SecretsAreCleared == ASSUME OneSecret PROVE  ClipboardSpec => []SecretsGo
<1>1. ClipboardInit => ClipTyped /\ SecretsTimed
    BY ClipStart DEF ClipInv
<1>2. ClipTyped /\ SecretsTimed /\ [ClipboardNext]_clipboardVars => ClipTyped' /\ SecretsTimed'
    BY QueueStep, SecretsStep
<1>3. SecretsTimed => SecretsGo
  <2>1. CASE failed
      BY <2>1, Zenon DEF SecretsGo
  <2>2. CASE ~failed
      BY <2>2, Zenon DEF SecretsTimed
  <2> QED BY <2>1, <2>2
<1> QED BY <1>1, <1>2, <1>3, PTL DEF ClipboardSpec

-----------------------------------------------------------------------------
\* Pin.

Dogs == 1 .. 2
DogType == [at : {"idle", "look", "asleep", "rotate", "publish", "clear", "strip"},
            pin : Nat, until : Nat]

\* A watchdog about to be spawned by the PairShow under way.
Spawning == showing.at = "publish" /\ showing.until = 1

PinTyped ==
    /\ clock \in Nat /\ drawn \in Nat /\ dogs \in [Dogs -> DogType]
    /\ advert \in [pin : Nat, until : Nat]
    /\ showing \in [at : {"idle", "advertise", "publish"}, pin : Nat, until : {0, 1}]

\* An advertised PIN has one watchdog, there or to come, and no PIN has none; the
\* PINs on their way to be advertised are PINs.
Tended ==
    IF advert.pin = 0 THEN ~Spawning /\ \A d \in Dogs : ~Tends(d)
    ELSE \/ Spawning /\ \A d \in Dogs : ~Tends(d)
         \/ ~Spawning /\ \E d \in Dogs : Tends(d) /\ \A e \in Dogs : Tends(e) => e = d

PinInv ==
    /\ PinTyped /\ Tended
    /\ showing.at # "idle" => showing.pin # 0
    /\ \A d \in Dogs : dogs[d].at = "rotate" => dogs[d].pin # 0

\* A watchdog that only moves on is still the only one.
LEMMA SameTenders ==
    ASSUME Tended, \A d \in Dogs : Tends(d)' <=> Tends(d), Spawning' <=> Spawning,
           advert'.pin = 0 <=> advert.pin = 0
    PROVE  Tended'
BY DEF Tended

\* No order of the three tasks leaves a PIN without a watchdog or gives it two.
LEMMA PinStep == PinInv /\ [PinNext]_pinVars => PinInv'
<1> SUFFICES ASSUME PinInv, [PinNext]_pinVars PROVE  PinInv'
    OBVIOUS
<1>0. /\ DOMAIN dogs = Dogs /\ PairingWindow \in Nat /\ PinTyped /\ Tended
      /\ showing.at # "idle" => showing.pin # 0
      /\ \A d \in Dogs : dogs[d].at = "rotate" => dogs[d].pin # 0
    BY PinAssumption DEF PinInv, PinTyped
<1>1. CASE Tick
    BY <1>0, <1>1, SameTenders DEF Tick, PinInv, PinTyped, Spawning, Tends
<1>2. CASE PairShow
  <2>1. /\ showing' = [at |-> "advertise", pin |-> drawn + 1, until |-> 0] /\ showing.at = "idle"
        /\ drawn' = drawn + 1 /\ UNCHANGED <<clock, advert, record, dogs>>
      BY <1>2 DEF PairShow, NoTask
  <2>2. PinTyped' /\ showing'.pin # 0 /\ ~Spawning' /\ ~Spawning
      BY <1>0, <2>1 DEF PinTyped, Spawning
  <2> QED BY <1>0, <2>1, <2>2, SameTenders DEF PinInv, Tends
<1>3. CASE Advertise
  <2>1. /\ advert' = [pin |-> showing.pin, until |-> clock + PairingWindow]
        /\ showing' = [showing EXCEPT !.at = "publish", !.until = IF advert.pin = 0 THEN 1 ELSE 0]
        /\ UNCHANGED <<clock, drawn, dogs>> /\ showing.at = "advertise" /\ showing.pin # 0
      BY <1>0, <1>3 DEF Advertise
  <2>2. /\ showing'.at = "publish" /\ showing'.pin = showing.pin /\ advert'.pin # 0
        /\ showing'.until = IF advert.pin = 0 THEN 1 ELSE 0
        /\ PinTyped'
    <3> DEFINE n == IF advert.pin = 0 THEN 1 ELSE 0
               k == [showing EXCEPT !.at = "publish", !.until = n]
    <3>1. n \in {0, 1} /\ showing \in [at : {"idle", "advertise", "publish"}, pin : Nat, until : {0, 1}]
        BY <1>0 DEF PinTyped
    <3>2. showing' = k
        BY <2>1
    <3> HIDE DEF n
    <3>3. /\ k.at = "publish" /\ k.pin = showing.pin /\ k.until = n
          /\ k \in [at : {"idle", "advertise", "publish"}, pin : Nat, until : {0, 1}]
        BY <3>1
    <3> HIDE DEF k
    <3>4. showing.pin \in Nat /\ clock + PairingWindow \in Nat
        BY <1>0, <3>1 DEF PinTyped
    <3>5. advert'.pin = showing.pin /\ advert' \in [pin : Nat, until : Nat]
        BY <2>1, <3>4
    <3>6. PinTyped'
        BY <1>0, <2>1, <3>2, <3>3, <3>5 DEF PinTyped
    <3> QED BY <2>1, <3>2, <3>3, <3>5, <3>6 DEF n
  <2>3. Tended'
      BY <1>0, <2>1, <2>2 DEF Tended, Spawning, Tends
  <2> QED BY <1>0, <2>1, <2>2, <2>3 DEF PinInv
<1>4. CASE ShowAnswers
  <2>1. /\ showing' = NoTask /\ UNCHANGED <<clock, drawn, advert>> /\ showing.at = "publish"
        /\ showing'.at = "idle" /\ showing'.until = 0 /\ ~Spawning'
      BY <1>4 DEF ShowAnswers, NoTask, Spawning
  <2>2. CASE showing.until = 0
    <3>1. dogs' = dogs /\ ~Spawning
        BY <1>4, <2>2 DEF ShowAnswers, Spawning
    <3> QED BY <1>0, <2>1, <3>1, SameTenders DEF PinInv, PinTyped, Tends, NoTask
  <2>3. CASE showing.until = 1
    <3>1. PICK d \in Dogs : dogs[d] = NoTask /\ dogs' = [dogs EXCEPT ![d].at = "look"]
        BY <1>0, <1>4, <2>3 DEF ShowAnswers
    <3>2. /\ dogs' \in [Dogs -> DogType] /\ dogs'[d].at = "look"
          /\ \A e \in Dogs : e # d => dogs'[e] = dogs[e]
        BY <1>0, <3>1 DEF PinTyped, DogType, NoTask
    <3>3. Spawning /\ advert.pin # 0 /\ \A e \in Dogs : ~Tends(e)
        BY <1>0, <2>1, <2>3 DEF Tended, Spawning
    <3>4. Tends(d)' /\ \A e \in Dogs : Tends(e)' => e = d
        BY <3>2, <3>3 DEF Tends
    <3>5. Tended'
        BY <2>1, <3>3, <3>4 DEF Tended
    <3> QED BY <1>0, <2>1, <3>2, <3>5 DEF PinInv, PinTyped, NoTask
  <2> QED BY <1>0, <2>2, <2>3 DEF PinTyped
<1>5. ASSUME NEW d \in Dogs, NEW k \in DogType, dogs' = [dogs EXCEPT ![d] = k],
             k.at = "rotate" => k.pin # 0, UNCHANGED showing
      PROVE  /\ dogs' \in [Dogs -> DogType]
             /\ \A e \in Dogs : dogs'[e].at = "rotate" => dogs'[e].pin # 0
             /\ Spawning' <=> Spawning
             /\ \A e \in Dogs : Tends(e)' <=> IF e = d THEN k.at \notin {"idle", "strip"} ELSE Tends(e)
    BY <1>0, <1>5 DEF PinTyped, Tends, Spawning
<1>6. ASSUME NEW d \in Dogs, DogSleeps(d) PROVE  PinInv'
  <2> DEFINE k == IF advert.pin = 0 THEN NoTask ELSE [at |-> "asleep", pin |-> 0, until |-> advert.until]
  <2>1. /\ dogs' = [dogs EXCEPT ![d] = k] /\ UNCHANGED <<clock, drawn, advert, showing>> /\ Tends(d)
      BY <1>6 DEF DogSleeps, Tends
  <2>2. k \in DogType /\ k.at = "asleep"
      BY <1>0, <2>1 DEF PinTyped, DogType, Tended, NoTask
  <2> HIDE DEF k
  <2> QED BY <1>0, <1>5, <2>1, <2>2, SameTenders DEF PinInv, PinTyped
<1>7. ASSUME NEW d \in Dogs, DogWakes(d) PROVE  PinInv'
  <2>0. Tends(d) /\ UNCHANGED <<clock, advert, showing>>
      BY <1>7 DEF DogWakes, Tends
  <2>1. CASE Open
    <3> DEFINE k == [at |-> "rotate", pin |-> drawn + 1, until |-> clock + PairingWindow]
    <3>1. dogs' = [dogs EXCEPT ![d] = k] /\ drawn' = drawn + 1
        BY <1>7, <2>1 DEF DogWakes
    <3>2. k \in DogType /\ k.at = "rotate" /\ k.pin # 0 /\ drawn' \in Nat
        BY <1>0, <3>1 DEF PinTyped, DogType
    <3> HIDE DEF k
    <3> QED BY <1>0, <1>5, <2>0, <3>1, <3>2, SameTenders DEF PinInv, PinTyped
  <2>2. CASE ~Open
    <3> DEFINE k == [dogs[d] EXCEPT !.at = "clear"]
    <3>1. dogs' = [dogs EXCEPT ![d] = k] /\ drawn' = drawn
        BY <1>7, <2>2 DEF DogWakes
    <3>2. k \in DogType /\ k.at = "clear"
        BY <1>0 DEF PinTyped, DogType
    <3> HIDE DEF k
    <3> QED BY <1>0, <1>5, <2>0, <3>1, <3>2, SameTenders DEF PinInv, PinTyped
  <2> QED BY <2>1, <2>2
<1>8. ASSUME NEW d \in Dogs, DogClears(d) PROVE  PinInv'
  <2> DEFINE k == [dogs[d] EXCEPT !.at = "strip"]
  <2>1. /\ dogs' = [dogs EXCEPT ![d] = k] /\ UNCHANGED <<clock, drawn, showing>>
        /\ advert' = NoAdvert /\ Tends(d)
      BY <1>8 DEF DogClears, Tends
  <2>2. k \in DogType /\ k.at = "strip"
      BY <1>0 DEF PinTyped, DogType
  <2>3. advert' \in [pin : Nat, until : Nat] /\ advert'.pin = 0
      BY <2>1 DEF NoAdvert
  <2> HIDE DEF k
  <2>4. ~Spawning /\ \A e \in Dogs : Tends(e) => e = d
      BY <1>0, <2>1 DEF Tended
  <2>5. Tended'
      BY <1>5, <2>1, <2>2, <2>3, <2>4 DEF Tended
  <2> QED BY <1>0, <1>5, <2>1, <2>2, <2>3, <2>5 DEF PinInv, PinTyped
<1>9. ASSUME NEW d \in Dogs, DogStrips(d) PROVE  PinInv'
  <2>1. /\ dogs' = [dogs EXCEPT ![d] = NoTask] /\ UNCHANGED <<clock, drawn, advert, showing>> /\ ~Tends(d)
      BY <1>9 DEF DogStrips, Tends
  <2>2. NoTask \in DogType /\ NoTask.at = "idle"
      BY DEF NoTask, DogType
  <2> QED BY <1>0, <1>5, <2>1, <2>2, SameTenders DEF PinInv, PinTyped
<1>10. ASSUME NEW d \in Dogs, DogRotates(d) PROVE  PinInv'
  <2> DEFINE k == [dogs[d] EXCEPT !.at = "publish"]
  <2>1. /\ dogs' = [dogs EXCEPT ![d] = k] /\ UNCHANGED <<clock, drawn, showing>>
        /\ advert' = [pin |-> dogs[d].pin, until |-> dogs[d].until] /\ Tends(d) /\ dogs[d].at = "rotate"
      BY <1>10 DEF DogRotates, Tends
  <2>2. k \in DogType /\ k.at = "publish" /\ dogs[d] \in DogType
      BY <1>0 DEF PinTyped, DogType
  <2>3. advert' \in [pin : Nat, until : Nat] /\ advert'.pin # 0
      BY <1>0, <2>1, <2>2 DEF DogType
  <2>4. advert.pin # 0
      BY <1>0, <2>1 DEF Tended
  <2> HIDE DEF k
  <2> QED BY <1>0, <1>5, <2>1, <2>2, <2>3, <2>4, SameTenders DEF PinInv, PinTyped
<1>11. ASSUME NEW d \in Dogs, DogPublishes(d) PROVE  PinInv'
  <2> DEFINE k == [dogs[d] EXCEPT !.at = "look"]
  <2>1. /\ dogs' = [dogs EXCEPT ![d] = k] /\ UNCHANGED <<clock, drawn, advert, showing>> /\ Tends(d)
      BY <1>11 DEF DogPublishes, Tends
  <2>2. k \in DogType /\ k.at = "look"
      BY <1>0 DEF PinTyped, DogType
  <2> HIDE DEF k
  <2> QED BY <1>0, <1>5, <2>1, <2>2, SameTenders DEF PinInv, PinTyped
<1>12. CASE UNCHANGED pinVars
    BY <1>0, <1>12, SameTenders DEF pinVars, PinInv, PinTyped, Spawning, Tends
<1> QED
    BY <1>0, <1>1, <1>2, <1>3, <1>4, <1>6, <1>7, <1>8, <1>9, <1>10, <1>11, <1>12 DEF PinNext, Watch

\* However PairShow, rotation and expiry interleave, and however long the window and
\* the session, an advertised PIN has one watchdog (spawn_pin_watchdog).
THEOREM OneTenderHolds == PinSpec => []OneTender
<1>1. PinInit => PinInv
    BY DEF PinInit, PinInv, PinTyped, Tended, Spawning, Tends, Dogs, DogType, NoTask, NoAdvert
<1>2. PinInv => OneTender
  <2> SUFFICES ASSUME PinInv PROVE  OneTender
      OBVIOUS
  <2> DEFINE tending == {d \in Dogs : Tends(d)}
             spawning == IF showing.at = "publish" THEN showing.until ELSE 0
  <2>1. Tenders = Cardinality(tending) + spawning /\ spawning = IF Spawning THEN 1 ELSE 0
      BY DEF Tenders, PinInv, PinTyped, Spawning
  <2>2. CASE \A d \in Dogs : ~Tends(d)
    <3>1. tending = {}
        BY <2>2
    <3>2. Cardinality(tending) = 0
        BY <3>1, FS_EmptySet
    <3> QED BY <2>1, <2>2, <3>2 DEF PinInv, Tended, OneTender
  <2>3. CASE \E d \in Dogs : Tends(d) /\ \A e \in Dogs : Tends(e) => e = d
    <3>1. PICK d \in Dogs : Tends(d) /\ \A e \in Dogs : Tends(e) => e = d
        BY <2>3
    <3>2. tending = {d}
        BY <3>1
    <3>3. Cardinality(tending) = 1
        BY <3>2, FS_Singleton
    <3> QED BY <2>1, <2>3, <3>3 DEF PinInv, Tended, OneTender
  <2> QED BY <2>2, <2>3 DEF PinInv, Tended
<1> QED BY <1>1, <1>2, PinStep, PTL DEF PinSpec

-----------------------------------------------------------------------------
\* Discovery.

\* The initiator and the pairing in the driver are records; only Shower's dials get as
\* far as an install; a device that was not known is gated.
GateTyped ==
    /\ initiator = [how |-> initiator.how, at |-> initiator.at]
    /\ pairing = [at |-> pairing.at, known |-> pairing.known, gate |-> pairing.gate]
    /\ initiator.how \notin {"pair", "reconnect", "redial"} => initiator.at \in {"none", "dial"}
    /\ pairing.at \in {"trust", "store"} /\ ~pairing.known => pairing.gate = "pair"

\* Until the words of a device paired here are waiting, its gated dial is under way, or
\* about to start and nothing else that could link it is.
GateInv ==
    /\ GateTyped
    /\ freshPair /\ ~missed =>
          \/ verify
          \/ initiator.how = "pair" /\ (initiator.at = "pend" \/ ~link)
          \/ pairing.at = "store" /\ ~pairing.known /\ ~link /\ ~Ungated

\* A device paired by its PIN has no link before the dial that leaves its words to
\* be compared, unless that dial was skipped, failed, came after one without the gate,
\* or an earlier pairing's end took the words (PairFromPin, run_initiator).
THEOREM FreshPairsAreGated == DiscoverySpec => []FreshPairIsGated
<1>1. DiscoveryInit => GateInv
    BY DEF DiscoveryInit, GateInv, GateTyped, Free, NoPairing
<1>2. GateInv /\ [DiscoveryNext]_discoveryVars => GateInv'
  <2> SUFFICES ASSUME GateInv, [DiscoveryNext]_discoveryVars PROVE  GateInv'
      OBVIOUS
  <2> USE DEF GateInv, GateTyped, Ungated, trustVars
  <2>1. CASE Later
      BY <2>1 DEF Later
  <2>2. ASSUME NEW d, NEW pin, Heard(d, pin) PROVE  GateInv'
      BY <2>2 DEF Heard
  <2>a. ASSUME StartRedial, UNCHANGED <<pairing, verify, link, freshPair>> PROVE  GateInv'
    <3>1. CASE initiator = Free
      <4>1. initiator' = [how |-> "redial", at |-> "dial"]
            /\ (~missed' => ~missed /\ pairing.at # "store")
          BY <2>a, <3>1 DEF StartRedial, StartInitiator
      <4>2. initiator.how = "none"
          BY <3>1 DEF Free
      <4>3. GateTyped'
          BY <2>a, <4>1
      <4> QED BY <2>a, <4>1, <4>2, <4>3
    <3>2. CASE initiator # Free
      <4>1. initiator' = initiator /\ (~missed' => ~missed)
          BY <2>a, <3>2 DEF StartRedial, StartInitiator
      <4> QED BY <2>a, <4>1
    <3> QED BY <3>1, <3>2
  <2>3. CASE Resolved
    <3>1. CASE StartRedial
        BY <2>3, <2>a, <3>1 DEF Resolved
    <3>2. CASE UNCHANGED <<initiator, missed>>
        BY <2>3, <3>2 DEF Resolved
    <3> QED BY <2>3, <3>1, <3>2 DEF Resolved
  <2>4. CASE BlindRedial
      BY <2>4, <2>a DEF BlindRedial
  <2>5. ASSUME NEW pin \in Pins, PairFromPin(pin) PROVE  GateInv'
      BY <2>5 DEF PairFromPin, NoPairing
  <2>6. CASE PairGates
      BY <2>6 DEF PairGates, Gate
  <2>7. CASE PairTrusts
      BY <2>7 DEF PairTrusts
  <2>8. CASE PairDials
    <3>1. /\ pairing.at = "store" /\ pairing' = NoPairing
          /\ UNCHANGED <<verify, link, freshPair>>
        BY <2>8 DEF PairDials
    <3>2. CASE initiator = Free
      <4>1. /\ initiator' = [how |-> pairing.gate, at |-> "dial"]
            /\ (~missed' => ~missed)
          BY <2>8, <3>2 DEF PairDials, StartInitiator
      <4>2. initiator.how = "none"
          BY <3>2 DEF Free
      <4>3. GateTyped'
          BY <3>1, <4>1 DEF NoPairing
      <4> QED BY <3>1, <4>1, <4>2, <4>3
    <3>3. CASE initiator # Free
      <4>1. initiator' = initiator /\ (~missed' => ~missed /\ pairing.gate # "pair")
          BY <2>8, <3>3 DEF PairDials, StartInitiator
      <4>2. GateTyped'
          BY <3>1, <4>1 DEF NoPairing
      <4> QED BY <3>1, <4>1, <4>2
    <3> QED BY <3>2, <3>3
  <2>9. CASE PairStoreFails
      BY <2>9 DEF PairStoreFails, NoPairing
  <2>10. CASE DialsOther
      BY <2>10 DEF DialsOther, Free
  <2>11. CASE InitiatorChecks
      BY <2>11 DEF InitiatorChecks, DialsShower
  <2>12. CASE InitiatorInstalls
      BY <2>12 DEF InitiatorInstalls
  <2>13. CASE InitiatorDone
      BY <2>13 DEF InitiatorDone, Free
  <2>14. CASE InitiatorFails
      BY <2>14 DEF InitiatorFails, DialsShower, Free
  <2>15. CASE Confirmed
      BY <2>15 DEF Confirmed
  <2>16. CASE Revoked
      BY <2>16 DEF Revoked
  <2>17. CASE WordsGo
      BY <2>17 DEF WordsGo
  <2>18. CASE SessionGoes
      BY <2>18 DEF SessionGoes
  <2>19. CASE Expired
      BY <2>19 DEF Expired
  <2>20. CASE TrustGoes
      BY <2>20 DEF TrustGoes
  <2>21. CASE LinkEnds
      BY <2>21 DEF LinkEnds
  <2>22. CASE UNCHANGED discoveryVars
      BY <2>22 DEF discoveryVars
  <2> QED
      BY <2>1, <2>2, <2>3, <2>4, <2>5, <2>6, <2>7, <2>8, <2>9, <2>10, <2>11,
          <2>12, <2>13, <2>14, <2>15, <2>16, <2>17, <2>18, <2>19, <2>20, <2>21, <2>22
         DEF DiscoveryNext
<1>3. GateInv => FreshPairIsGated
    BY DEF GateInv, FreshPairIsGated
<1> QED BY <1>1, <1>2, <1>3, PTL DEF DiscoverySpec

-----------------------------------------------------------------------------
\* Resync.

\* The tombstone covers what a clear removed, before the rows are gone; an offer wants
\* nothing of what had been removed when it read the tombstone.
OfferShape == offer = [at |-> offer.at, from |-> offer.from, want |-> offer.want, gone |-> offer.gone]

TombInv ==
    /\ OfferShape /\ forgotten \subseteq cleared
    /\ clearing.at = "history" => clearing.what \subseteq cleared
    /\ offer.at \in {"inflight", "track"} => offer.want \cap offer.gone = {}

LEMMA TombStep == TombInv /\ [ResyncNext]_resyncVars => TombInv'
<1> SUFFICES ASSUME TombInv, [ResyncNext]_resyncVars PROVE  TombInv'
    OBVIOUS
<1> USE DEF TombInv
<1>1. CASE ClearOutbox
  <2>1. clearing'.at = "tomb" /\ UNCHANGED <<cleared, forgotten, offer>>
      BY <1>1 DEF ClearOutbox, notes, OfferShape
  <2> QED BY <2>1 DEF OfferShape
<1>2. CASE ClearTombstone
  <2>1. /\ clearing' = [clearing EXCEPT !.at = "history"] /\ cleared' = cleared \cup clearing.what
        /\ UNCHANGED <<forgotten, offer>>
      BY <1>2 DEF ClearTombstone, notes, OfferShape
  <2>2. CASE clearing'.what = clearing.what
      BY <2>1, <2>2 DEF OfferShape
  <2>3. clearing'.what = clearing.what
      BY <2>1
  <2> QED BY <2>1, <2>2, <2>3 DEF OfferShape
<1>3. CASE ClearRows
    BY <1>3 DEF ClearRows, NotClearing, OfferShape
<1>4. CASE CoreTakes
    BY <1>4 DEF CoreTakes, notes, OfferShape
<1>5. CASE OfferTomb
  <2>1. /\ offer' = [offer EXCEPT !.at = "inflight", !.want = @ \ cleared, !.gone = forgotten]
        /\ UNCHANGED <<cleared, clearing, forgotten>>
      BY <1>5 DEF OfferTomb, stores, notes
  <2>2. OfferShape' /\ offer'.want = offer.want \ cleared /\ offer'.gone = forgotten
      BY <2>1 DEF OfferShape
  <2> QED BY <2>1, <2>2
<1>6. CASE OfferInFlight
  <2>1. /\ offer' = [offer EXCEPT !.at = "track", !.want = @ \ InFlight] /\ offer.at = "inflight"
        /\ UNCHANGED <<cleared, clearing, forgotten>>
      BY <1>6 DEF OfferInFlight, stores, notes
  <2>2. OfferShape' /\ offer'.want = offer.want \ InFlight /\ offer'.gone = offer.gone
      BY <2>1 DEF OfferShape
  <2> QED BY <2>1, <2>2
<1>7. ASSUME UNCHANGED <<cleared, clearing, forgotten>>, OfferShape', offer'.at \notin {"inflight", "track"}
      PROVE  TombInv'
    BY <1>7
<1>8. CASE UNCHANGED <<cleared, clearing, forgotten, offer>>
    BY <1>8 DEF OfferShape
<1>9. ASSUME NEW m \in mail, OfferHistory(m) PROVE  TombInv'
  <2>1. OfferShape' /\ offer'.at = "outbox" /\ UNCHANGED <<cleared, clearing, forgotten>>
      BY <1>9 DEF OfferHistory, OfferShape, stores, notes
  <2> QED BY <1>7, <2>1
<1>10. CASE OfferOutbox
  <2>1. OfferShape' /\ offer'.at = "tomb" /\ UNCHANGED <<cleared, clearing, forgotten>>
      BY <1>10 DEF OfferOutbox, OfferShape, stores, notes
  <2> QED BY <1>7, <2>1
<1>11. CASE OfferTrack \/ OfferSend
  <2>1. UNCHANGED <<cleared, clearing, forgotten>>
      BY <1>11 DEF OfferTrack, OfferSend, stores, notes
  <2>2. OfferShape' /\ offer'.at \in {"none", "send"}
      BY <1>11 DEF OfferTrack, OfferSend, NoOffer, OfferShape
  <2> QED BY <1>7, <2>1, <2>2
<1> QED
    BY <1>1, <1>2, <1>3, <1>4, <1>5, <1>6, <1>8, <1>9, <1>10, <1>11
       DEF ResyncNext, PeerCopies, HelloOffers, PullTimesOut, ServePull, ItemArrives,
           Expire, ResolveParked, ChangePolicy, Wipe, resyncVars, stores, notes

\* However the reads of an offer and the writes of a clear interleave, nothing that
\* clears had removed when the offer read the tombstone is asked for (ResyncOffer,
\* ClearHistory).
THEOREM ClearedIsNotPulled == ResyncSpec => ClearedStaysCleared
<1> DEFINE A == \A pl \in pulls' \ pulls : pl[2] \notin offer.gone
<1>1. ResyncInit => TombInv
    BY DEF ResyncInit, TombInv, OfferShape, NotClearing, NoOffer
<1>2. TombInv /\ [ResyncNext]_resyncVars => [A]_resyncVars
  <2> SUFFICES ASSUME TombInv, ResyncNext, NEW pl \in pulls' \ pulls PROVE  pl[2] \notin offer.gone
      OBVIOUS
  <2>1. CASE OfferTrack
    <3>1. pl \in {offer.from} \X offer.want /\ offer.at = "track"
        BY <2>1 DEF OfferTrack
    <3>2. pl[2] \in offer.want
        BY <3>1
    <3> QED BY <3>1, <3>2 DEF TombInv
  <2>2. CASE pulls' \subseteq pulls
      BY <2>2
  <2> QED BY <2>1, <2>2
          DEF ResyncNext, PeerCopies, HelloOffers, PullTimesOut, OfferHistory, ServePull, ItemArrives,
              OfferOutbox, OfferTomb, OfferInFlight, OfferSend, CoreTakes, Expire, ResolveParked,
              ClearOutbox, ClearTombstone, ClearRows, ChangePolicy, Wipe, stores
<1> QED BY <1>1, <1>2, TombStep, PTL DEF ResyncSpec, ClearedStaysCleared

\* The same peer made another copy of the content of c.
Again(c) ==
    \E d \in (Copies \ fresh) \ {c} : ContentOf[d] = ContentOf[c] /\ CopiedBy[d] = CopiedBy[c]

\* The same peer's copy of a content has arrived.
Arrived(p, h) == \E d \in knownIds : ContentOf[d] = h /\ CopiedBy[d] = p

\* An item is a copy that was made, from the peer that made it; what was asked for is
\* still asked for, arrived, or was copied anew.
MailDue ==
    \A m \in mail :
        /\ m.kind = "item" =>
              /\ m.copy \in Copies \ fresh /\ m.peer = CopiedBy[m.copy]
              /\ m.pulled => m.copy \in knownIds \/ Asked(m.peer, ContentOf[m.copy]) \/ Again(m.copy)
        /\ m.kind = "pull" => \A h \in m.hashes : Asked(m.peer, h) \/ Arrived(m.peer, h)

QueueMarked ==
    \A i \in DOMAIN queue : queue[i].copy \in Copies /\ (queue[i].pulled => queue[i].resync \/ Again(queue[i].copy))

CatchUpTyped ==
    /\ fresh \subseteq Copies /\ knownIds \subseteq Copies \ fresh
    /\ \A p \in Offerers : \A c \in box[p] : c \in Copies \ fresh /\ CopiedBy[c] = p
    /\ box \in [Offerers -> SUBSET Copies]
    /\ queue \in Seq([copy : Copies, resync : BOOLEAN, pulled : BOOLEAN])
    /\ \A m \in mail : m.peer \in Offerers /\ (m.kind = "item" => m.pulled \in BOOLEAN)
    /\ OfferShape /\ (offer.at # "none" => offer.from \in Offerers)

\* What an offer is about to track nobody is asked for; what it is about to ask for is
\* tracked.
OfferDue ==
    /\ offer.at = "track" => \A pl \in pulls : pl[2] \notin offer.want
    /\ offer.at = "send" => \A h \in offer.want : Asked(offer.from, h)

CatchUpInv == CatchUpTyped /\ OfferDue /\ MailDue /\ QueueMarked /\ CatchUpIsQuiet

\* What was copied and what arrived stays so.
LEMMA CopiesStay ==
    ASSUME fresh' \subseteq fresh, knownIds \subseteq knownIds'
    PROVE  /\ \A c : Again(c) => Again(c)'
           /\ \A p, h : Arrived(p, h) => Arrived(p, h)'
BY DEF Again, Arrived

\* With less under way, nothing given up and nothing queued, all stays marked.
LEMMA QuietStep ==
    ASSUME CatchUpInv, mail' \subseteq mail, pulls' = pulls,
           UNCHANGED <<box, fresh, knownIds, queue, writes>>,
           offer' = offer \/ (OfferShape' /\ offer'.at = "none")
    PROVE  CatchUpInv'
<1>1. (\A c : Again(c) => Again(c)') /\ (\A p, h : Arrived(p, h) => Arrived(p, h)')
    BY CopiesStay
<1>2. CatchUpTyped'
    BY DEF CatchUpInv, CatchUpTyped, OfferShape
<1>6. OfferDue'
    BY DEF CatchUpInv, OfferDue, Asked
<1>3. MailDue'
    BY <1>1 DEF CatchUpInv, MailDue, Asked
<1>4. QueueMarked'
    BY <1>1 DEF CatchUpInv, QueueMarked
<1>5. CatchUpIsQuiet'
    BY DEF CatchUpInv, CatchUpIsQuiet
<1> QED BY <1>2, <1>3, <1>4, <1>5, <1>6 DEF CatchUpInv

\* An item that was asked for is marked as such when it arrives, whatever arrived,
\* was given up or was copied since the offer.
LEMMA ArrivalStep ==
    ASSUME CatchUpInv, NEW m \in mail, ItemArrives(m)
    PROVE  CatchUpInv'
<1> DEFINE c == m.copy
           h == ContentOf[c]
           it == [copy |-> c, resync |-> Asked(m.peer, h), pulled |-> m.pulled]
<1>0. CatchUpTyped /\ OfferDue /\ MailDue /\ QueueMarked /\ CatchUpIsQuiet
    BY DEF CatchUpInv
<1>1. /\ c \in Copies \ fresh /\ m.peer = CopiedBy[c] /\ m.peer \in Offerers /\ m.pulled \in BOOLEAN
      /\ m.pulled => c \in knownIds \/ Asked(m.peer, h) \/ Again(c)
      /\ mail' = mail \ {m} /\ offer.at = "none" /\ UNCHANGED <<box, fresh, offer, writes>>
    BY <1>0 DEF ItemArrives, RecvFree, CatchUpTyped, MailDue, notes
<1>2. CASE c \in knownIds
    BY <1>1, <1>2, QuietStep DEF ItemArrives
<1>3. CASE c \notin knownIds
  <2>1. /\ knownIds' = knownIds \cup {c} /\ pulls' = pulls \ {<<m.peer, h>>}
        /\ queue' = queue \/ queue' = Append(queue, it)
      BY <1>3 DEF ItemArrives
  <2>2. (\A d : Again(d) => Again(d)') /\ (\A p, g : Arrived(p, g) => Arrived(p, g)')
      BY <1>1, <2>1, CopiesStay
  <2>3. Arrived(m.peer, h)'
      BY <1>1, <2>1 DEF Arrived
  <2>4. it \in [copy : Copies, resync : BOOLEAN, pulled : BOOLEAN] /\ (it.pulled => it.resync \/ Again(it.copy))
      BY <1>1, <1>3 DEF Asked
  <2> HIDE DEF it
  <2>5. queue \in Seq([copy : Copies, resync : BOOLEAN, pulled : BOOLEAN])
      BY <1>0 DEF CatchUpTyped
  <2> DEFINE Items == [copy : Copies, resync : BOOLEAN, pulled : BOOLEAN]
  <2>a. it \in Items
      BY <2>4
  <2>b. queue \in Seq(Items)
      BY <2>5
  <2> HIDE DEF Items
  <2>6. queue' \in Seq(Items)
      BY <2>1, <2>a, <2>b
  <2>c. queue' \in Seq([copy : Copies, resync : BOOLEAN, pulled : BOOLEAN])
      BY <2>6 DEF Items
  <2>7. CatchUpTyped'
      BY <1>0, <1>1, <2>1, <2>c DEF CatchUpTyped, OfferShape
  <2>d. OfferDue'
      BY <1>1 DEF OfferDue
  <2>8. MailDue'
    <3> SUFFICES ASSUME NEW x \in mail, x # m
                 PROVE  /\ x.kind = "item" =>
                              /\ x.copy \in Copies \ fresh' /\ x.peer = CopiedBy[x.copy]
                              /\ x.pulled => x.copy \in knownIds' \/ Asked(x.peer, ContentOf[x.copy])'
                                                \/ Again(x.copy)'
                        /\ x.kind = "pull" => \A g \in x.hashes : Asked(x.peer, g)' \/ Arrived(x.peer, g)'
        BY <1>1 DEF MailDue, Asked
    <3>1. \A p, g : Asked(p, g) => Asked(p, g)' \/ (p = m.peer /\ g = h)
        BY <2>1 DEF Asked
    <3>2. ASSUME x.kind = "item", x.pulled PROVE  x.copy \in knownIds' \/ Asked(x.peer, ContentOf[x.copy])' \/ Again(x.copy)'
      <4>1. x.copy \in Copies \ fresh /\ x.peer = CopiedBy[x.copy]
          BY <1>0, <3>2 DEF MailDue
      <4>2. CASE x.peer = m.peer /\ ContentOf[x.copy] = h
        <5>1. CASE x.copy = c
            BY <2>1, <5>1
        <5>2. CASE x.copy # c
            BY <1>1, <2>2, <4>1, <4>2, <5>2 DEF Again
        <5> QED BY <5>1, <5>2
      <4>3. CASE ~(x.peer = m.peer /\ ContentOf[x.copy] = h)
          BY <1>0, <2>1, <2>2, <3>1, <3>2, <4>3 DEF MailDue
      <4> QED BY <4>2, <4>3
    <3>3. ASSUME x.kind = "pull", NEW g \in x.hashes PROVE  Asked(x.peer, g)' \/ Arrived(x.peer, g)'
      <4>1. Asked(x.peer, g) \/ Arrived(x.peer, g)
          BY <1>0, <3>3 DEF MailDue
      <4> QED BY <2>2, <2>3, <3>1, <4>1
    <3>4. x.kind = "item" => x.copy \in Copies \ fresh' /\ x.peer = CopiedBy[x.copy]
        BY <1>0, <1>1 DEF MailDue
    <3> QED BY <3>2, <3>3, <3>4
  <2>9. QueueMarked'
    <3>1. ASSUME NEW j \in DOMAIN queue'
          PROVE  queue'[j] = it \/ (j \in DOMAIN queue /\ queue'[j] = queue[j])
      <4>1. CASE queue' = queue
          BY <4>1
      <4>2. CASE queue' = Append(queue, it)
        <5>1. \A i \in DOMAIN Append(queue, it) :
                 \/ Append(queue, it)[i] = it /\ i = Len(queue) + 1
                 \/ i \in DOMAIN queue /\ Append(queue, it)[i] = queue[i]
            BY <2>a, <2>b, Appended
        <5> QED BY <4>2, <5>1, Zenon
      <4> QED BY <2>1, <4>1, <4>2
    <3> QED BY <1>0, <2>2, <2>4, <3>1 DEF QueueMarked
  <2>10. CatchUpIsQuiet'
      BY <1>0, <1>1, <2>1 DEF CatchUpIsQuiet
  <2> QED BY <2>7, <2>8, <2>9, <2>10, <2>d DEF CatchUpInv
<1> QED BY <1>2, <1>3

\* A read of the offer in hand asks for nothing yet.
LEMMA ReadStep ==
    ASSUME CatchUpInv, UNCHANGED <<mail, box, fresh, knownIds, pulls, queue, writes>>,
           offer.at # "none", OfferShape', offer'.from = offer.from,
           \/ offer'.at \in {"tomb", "inflight"}
           \/ offer'.at = "track" /\ \A pl \in pulls : pl[2] \notin offer'.want
    PROVE  CatchUpInv'
<1>1. (\A c : Again(c) => Again(c)') /\ (\A p, h : Arrived(p, h) => Arrived(p, h)')
    BY CopiesStay
<1>2. CatchUpTyped' /\ OfferDue'
    BY DEF CatchUpInv, CatchUpTyped, OfferDue
<1>3. MailDue' /\ QueueMarked' /\ CatchUpIsQuiet'
    BY <1>1 DEF CatchUpInv, MailDue, Asked, QueueMarked, CatchUpIsQuiet
<1> QED BY <1>2, <1>3 DEF CatchUpInv

LEMMA CatchUpStep == CatchUpInv /\ [ResyncNext]_resyncVars => CatchUpInv'
<1> SUFFICES ASSUME CatchUpInv, [ResyncNext]_resyncVars PROVE  CatchUpInv'
    OBVIOUS
<1>0. CatchUpTyped /\ OfferDue /\ MailDue /\ QueueMarked /\ CatchUpIsQuiet
    BY DEF CatchUpInv
<1>1. ASSUME NEW c \in Copies, PeerCopies(c) PROVE  CatchUpInv'
  <2> DEFINE p == CopiedBy[c]
  <2>1. /\ c \in fresh /\ fresh' = fresh \ {c} /\ p \in Offerers
        /\ box' = [box EXCEPT ![p] = {d \in @ : ContentOf[d] # ContentOf[c]} \cup {c}]
        /\ mail' \subseteq mail \cup {ItemMail(c, FALSE)}
        /\ UNCHANGED <<knownIds, pulls, queue, offer, writes>>
      BY <1>1, ResyncAssumption DEF PeerCopies, stores, notes
  <2>2. (\A d : Again(d) => Again(d)') /\ (\A q, h : Arrived(q, h) => Arrived(q, h)')
      BY <2>1, CopiesStay
  <2> DEFINE x == ItemMail(c, FALSE)
  <2>3. x.kind = "item" /\ x.peer = p /\ x.copy = c /\ x.pulled = FALSE
      BY DEF ItemMail
  <2> HIDE DEF x
  <2>4. \A q \in Offerers : \A d \in box'[q] : d \in Copies \ fresh' /\ CopiedBy[d] = q
      BY <1>0, <2>1 DEF CatchUpTyped
  <2>5. box' \in [Offerers -> SUBSET Copies]
      BY <1>0, <2>1 DEF CatchUpTyped
  <2>6. CatchUpTyped'
      BY <1>0, <2>1, <2>3, <2>4, <2>5 DEF CatchUpTyped, OfferShape, x
  <2>9. OfferDue'
      BY <1>0, <2>1 DEF OfferDue, Asked
  <2>7. MailDue'
      BY <1>0, <2>1, <2>2, <2>3 DEF MailDue, Asked, x
  <2>8. QueueMarked' /\ CatchUpIsQuiet'
      BY <1>0, <2>1, <2>2 DEF QueueMarked, CatchUpIsQuiet
  <2> QED BY <2>6, <2>7, <2>8, <2>9 DEF CatchUpInv
<1>2. ASSUME NEW p \in Offerers, HelloOffers(p) PROVE  CatchUpInv'
  <2> DEFINE x == OfferMail(p)
  <2>1. mail' = mail \cup {x} /\ UNCHANGED <<box, fresh, knownIds, pulls, queue, offer, writes>>
      BY <1>2 DEF HelloOffers, stores, notes
  <2>2. x.kind = "offer" /\ x.peer = p
      BY DEF OfferMail
  <2> HIDE DEF x
  <2>3. (\A d : Again(d) => Again(d)') /\ (\A q, h : Arrived(q, h) => Arrived(q, h)')
      BY <2>1, CopiesStay
  <2>4. CatchUpTyped' /\ OfferDue'
      BY <1>0, <2>1, <2>2 DEF CatchUpTyped, OfferShape, OfferDue, Asked
  <2>5. MailDue'
      BY <1>0, <2>1, <2>2, <2>3 DEF MailDue, Asked
  <2>6. QueueMarked' /\ CatchUpIsQuiet'
      BY <1>0, <2>1, <2>3 DEF QueueMarked, CatchUpIsQuiet
  <2> QED BY <2>4, <2>5, <2>6 DEF CatchUpInv
<1>3. ASSUME NEW m \in mail, OfferHistory(m) PROVE  CatchUpInv'
  <2>1. /\ mail' \subseteq mail /\ UNCHANGED <<box, fresh, knownIds, pulls, queue, writes>>
        /\ offer'.from = m.peer /\ offer'.at = "outbox" /\ OfferShape'
      BY <1>3 DEF OfferHistory, OfferShape, stores, notes
  <2>2. CatchUpTyped' /\ OfferDue'
      BY <1>0, <2>1 DEF CatchUpTyped, OfferDue
  <2>3. (\A d : Again(d) => Again(d)') /\ (\A q, h : Arrived(q, h) => Arrived(q, h)')
      BY <2>1, CopiesStay
  <2>4. MailDue' /\ QueueMarked' /\ CatchUpIsQuiet'
      BY <1>0, <2>1, <2>3 DEF MailDue, Asked, QueueMarked, CatchUpIsQuiet
  <2> QED BY <2>2, <2>4 DEF CatchUpInv
<1>4. ASSUME NEW m \in mail, ServePull(m) PROVE  CatchUpInv'
  <2> DEFINE served == {d \in box[m.peer] : ContentOf[d] \in m.hashes}
  <2>1. /\ mail' = (mail \ {m}) \cup {ItemMail(c, TRUE) : c \in served} /\ m.kind = "pull"
        /\ UNCHANGED <<box, fresh, knownIds, pulls, queue, offer, writes>>
      BY <1>4 DEF ServePull, stores, notes
  <2>2. ASSUME NEW c \in served
        PROVE  LET x == ItemMail(c, TRUE)
               IN  /\ x.kind = "item" /\ x.peer = CopiedBy[c] /\ x.copy = c /\ x.pulled = TRUE
                   /\ x.peer \in Offerers /\ c \in Copies \ fresh
                   /\ c \in knownIds \/ Asked(x.peer, ContentOf[c]) \/ Again(c)
    <3>1. c \in box[m.peer] /\ ContentOf[c] \in m.hashes /\ m.peer \in Offerers
        BY <1>0 DEF CatchUpTyped
    <3>2. c \in Copies \ fresh /\ CopiedBy[c] = m.peer
        BY <1>0, <3>1 DEF CatchUpTyped
    <3>3. Asked(m.peer, ContentOf[c]) \/ Arrived(m.peer, ContentOf[c])
        BY <1>0, <2>1, <3>1 DEF MailDue
    <3>4. Arrived(m.peer, ContentOf[c]) => c \in knownIds \/ Again(c)
        BY <1>0, <3>2 DEF Arrived, Again, CatchUpTyped
    <3> QED BY <3>1, <3>2, <3>3, <3>4 DEF ItemMail
  <2>3. (\A d : Again(d) => Again(d)') /\ (\A q, h : Arrived(q, h) => Arrived(q, h)')
      BY <2>1, CopiesStay
  <2>a. ASSUME NEW x \in mail', x \notin mail
        PROVE  /\ x.kind = "item" /\ x.peer = CopiedBy[x.copy] /\ x.pulled = TRUE
               /\ x.peer \in Offerers /\ x.copy \in Copies \ fresh
               /\ x.copy \in knownIds \/ Asked(x.peer, ContentOf[x.copy]) \/ Again(x.copy)
    <3>1. PICK c \in served : x = ItemMail(c, TRUE)
        BY <2>1, <2>a
    <3> HIDE DEF served
    <3> QED BY <2>2, <3>1
  <2> HIDE DEF served
  <2>4. CatchUpTyped' /\ OfferDue'
      BY <1>0, <2>1, <2>a DEF CatchUpTyped, OfferShape, OfferDue, Asked
  <2>5. MailDue'
    <3> SUFFICES ASSUME NEW x \in mail'
                 PROVE  /\ x.kind = "item" =>
                              /\ x.copy \in Copies \ fresh' /\ x.peer = CopiedBy[x.copy]
                              /\ x.pulled => x.copy \in knownIds' \/ Asked(x.peer, ContentOf[x.copy])'
                                                \/ Again(x.copy)'
                        /\ x.kind = "pull" => \A g \in x.hashes : Asked(x.peer, g)' \/ Arrived(x.peer, g)'
        BY DEF MailDue, Asked
    <3>1. CASE x \in mail
        BY <1>0, <2>1, <2>3, <3>1 DEF MailDue, Asked
    <3>2. CASE x \notin mail
        BY <2>1, <2>3, <2>a, <3>2 DEF Asked
    <3> QED BY <3>1, <3>2
  <2>6. QueueMarked' /\ CatchUpIsQuiet'
      BY <1>0, <2>1, <2>3 DEF QueueMarked, CatchUpIsQuiet
  <2> QED BY <2>4, <2>5, <2>6 DEF CatchUpInv
<1>5. ASSUME NEW m \in mail, ItemArrives(m) PROVE  CatchUpInv'
    BY <1>5, ArrivalStep
<1>6. CASE OfferOutbox
  <2>1. /\ offer' = [offer EXCEPT !.at = "tomb", !.want = @ \ ToSet(outbox)] /\ offer.at # "none"
        /\ UNCHANGED <<mail, box, fresh, knownIds, pulls, queue, writes>>
      BY <1>6 DEF OfferOutbox, stores, notes
  <2>2. offer'.from = offer.from /\ offer'.at = "tomb" /\ OfferShape'
      BY <1>0, <2>1 DEF CatchUpTyped, OfferShape
  <2> QED BY <2>1, <2>2, ReadStep
<1>7. CASE OfferTomb
  <2>1. /\ offer' = [offer EXCEPT !.at = "inflight", !.want = @ \ cleared, !.gone = forgotten]
        /\ UNCHANGED <<mail, box, fresh, knownIds, pulls, queue, writes>> /\ offer.at # "none"
      BY <1>7 DEF OfferTomb, stores, notes
  <2>2. offer'.from = offer.from /\ offer'.at = "inflight" /\ OfferShape'
      BY <1>0, <2>1 DEF CatchUpTyped, OfferShape
  <2> QED BY <2>1, <2>2, ReadStep
<1>11. CASE OfferInFlight
  <2>1. /\ offer' = [offer EXCEPT !.at = "track", !.want = @ \ InFlight]
        /\ UNCHANGED <<mail, box, fresh, knownIds, pulls, queue, writes>> /\ offer.at # "none"
      BY <1>11 DEF OfferInFlight, stores, notes
  <2>2. /\ offer'.from = offer.from /\ offer'.at = "track" /\ OfferShape'
        /\ offer'.want = offer.want \ InFlight
      BY <1>0, <2>1 DEF CatchUpTyped, OfferShape
  <2>3. \A pl \in pulls : pl[2] \notin offer'.want
      BY <2>2 DEF InFlight
  <2> QED BY <2>1, <2>2, <2>3, ReadStep
<1>12. CASE OfferTrack
  <2>1. /\ pulls' = pulls \cup ({offer.from} \X offer.want) /\ offer.at = "track"
        /\ offer' = IF offer.want = {} THEN NoOffer ELSE [offer EXCEPT !.at = "send"]
        /\ UNCHANGED <<mail, box, fresh, knownIds, queue, writes>>
      BY <1>12 DEF OfferTrack, notes
  <2>2. \A h \in offer.want : <<offer.from, h>> \in pulls'
    <3>1. ASSUME NEW h \in offer.want PROVE  <<offer.from, h>> \in {offer.from} \X offer.want
        OBVIOUS
    <3> QED BY <2>1, <3>1
  <2>3. /\ OfferShape'
        /\ \/ offer'.at = "none"
           \/ offer'.at = "send" /\ offer'.from = offer.from /\ offer'.want = offer.want
    <3>1. CASE offer.want = {}
        BY <2>1, <3>1 DEF NoOffer, OfferShape
    <3>2. CASE offer.want # {}
        BY <1>0, <2>1, <3>2 DEF CatchUpTyped, OfferShape
    <3> QED BY <3>1, <3>2
  <2>4. (\A d : Again(d) => Again(d)') /\ (\A q, h : Arrived(q, h) => Arrived(q, h)')
      BY <2>1, CopiesStay
  <2>5. CatchUpTyped'
      BY <1>0, <2>1, <2>3 DEF CatchUpTyped
  <2>6. OfferDue'
      BY <2>2, <2>3 DEF OfferDue, Asked
  <2>7. MailDue'
      BY <1>0, <2>1, <2>4 DEF MailDue, Asked
  <2>8. QueueMarked'
      BY <1>0, <2>1, <2>4 DEF QueueMarked
  <2>9. CatchUpIsQuiet'
    <3>1. \A pl \in pulls' : pl \in pulls \/ (pl = <<offer.from, pl[2]>> /\ pl[2] \in offer.want)
        BY <2>1
    <3>2. \A pl \in pulls : pl[2] \notin offer.want
        BY <1>0, <2>1 DEF OfferDue
    <3>3. \A pl, ql \in pulls' : pl[2] = ql[2] => pl = ql
        BY <1>0, <3>1, <3>2 DEF CatchUpIsQuiet
    <3> QED BY <1>0, <2>1, <3>3 DEF CatchUpIsQuiet
  <2> QED BY <2>5, <2>6, <2>7, <2>8, <2>9 DEF CatchUpInv
<1>13. CASE OfferSend
  <2> DEFINE x == PullMail(offer.from, offer.want)
  <2>1. /\ offer' = NoOffer /\ offer.at = "send" /\ offer.from \in Offerers
        /\ mail' \subseteq mail \cup {x}
        /\ UNCHANGED <<box, fresh, knownIds, pulls, queue, writes>>
      BY <1>0, <1>13 DEF OfferSend, stores, notes, CatchUpTyped
  <2>2. x.kind = "pull" /\ x.peer = offer.from /\ x.hashes = offer.want
      BY DEF PullMail
  <2> HIDE DEF x
  <2>3. OfferShape' /\ offer'.at = "none"
      BY <2>1 DEF OfferShape, NoOffer
  <2>4. (\A d : Again(d) => Again(d)') /\ (\A q, h : Arrived(q, h) => Arrived(q, h)')
      BY <2>1, CopiesStay
  <2>5. CatchUpTyped' /\ OfferDue'
      BY <1>0, <2>1, <2>2, <2>3 DEF CatchUpTyped, OfferDue
  <2>6. \A h \in offer.want : <<offer.from, h>> \in pulls'
      BY <1>0, <2>1 DEF OfferDue, Asked
  <2>7. MailDue'
      BY <1>0, <2>1, <2>2, <2>4, <2>6 DEF MailDue, Asked
  <2>8. QueueMarked' /\ CatchUpIsQuiet'
      BY <1>0, <2>1, <2>4 DEF QueueMarked, CatchUpIsQuiet
  <2> QED BY <2>5, <2>7, <2>8 DEF CatchUpInv
<1>8. CASE CoreTakes
  <2> DEFINE it == Head(queue)
  <2>1. /\ queue # <<>> /\ queue' = Tail(queue)
        /\ UNCHANGED <<mail, box, fresh, knownIds, pulls, offer>>
        /\ writes' \subseteq writes \cup (IF it.resync THEN {} ELSE {[copy |-> it.copy, pulled |-> it.pulled]})
      BY <1>8 DEF CoreTakes, notes
  <2>2. queue \in Seq([copy : Copies, resync : BOOLEAN, pulled : BOOLEAN])
      BY <1>0 DEF CatchUpTyped
  <2>3. /\ queue' \in Seq([copy : Copies, resync : BOOLEAN, pulled : BOOLEAN])
        /\ it = queue[1] /\ 1 \in DOMAIN queue
        /\ \A i \in DOMAIN queue' : i + 1 \in DOMAIN queue /\ queue'[i] = queue[i + 1]
      BY <2>1, <2>2
  <2>4. it.pulled => it.resync \/ Again(it.copy)
      BY <1>0, <2>3 DEF QueueMarked
  <2> HIDE DEF it
  <2>5. (\A d : Again(d) => Again(d)') /\ (\A q, h : Arrived(q, h) => Arrived(q, h)')
      BY <2>1, CopiesStay
  <2>6. CatchUpTyped' /\ MailDue' /\ OfferDue'
      BY <1>0, <2>1, <2>3, <2>5 DEF CatchUpTyped, OfferShape, MailDue, OfferDue, Asked
  <2>7. QueueMarked'
      BY <1>0, <2>3, <2>5 DEF QueueMarked
  <2>8. CatchUpIsQuiet'
      BY <1>0, <2>1, <2>4 DEF CatchUpIsQuiet, Again
  <2> QED BY <2>6, <2>7, <2>8 DEF CatchUpInv
<1>9. ASSUME NEW p \in Offerers, NEW h \in Contents, PullTimesOut(p, h) PROVE  CatchUpInv'
  <2>1. /\ pulls' = pulls \ {<<p, h>>} /\ UNCHANGED <<mail, box, fresh, knownIds, queue, offer, writes>>
        /\ \A m \in mail : m.peer = p =>
              /\ m.kind = "pull" => h \notin m.hashes
              /\ m.kind = "item" => ContentOf[m.copy] # h
        /\ ~(offer.at = "send" /\ offer.from = p /\ h \in offer.want)
      BY <1>9 DEF PullTimesOut, notes
  <2>2. (\A d : Again(d) => Again(d)') /\ (\A q, g : Arrived(q, g) => Arrived(q, g)')
      BY <2>1, CopiesStay
  <2>3. \A q, g : Asked(q, g) => Asked(q, g)' \/ (q = p /\ g = h)
      BY <2>1 DEF Asked
  <2>4. MailDue'
      BY <1>0, <2>1, <2>2, <2>3 DEF MailDue
  <2>5. CatchUpTyped' /\ QueueMarked'
      BY <1>0, <2>1, <2>2 DEF CatchUpTyped, OfferShape, QueueMarked
  <2>7. OfferDue'
      BY <1>0, <2>1, <2>3 DEF OfferDue
  <2>6. CatchUpIsQuiet'
      BY <1>0, <2>1 DEF CatchUpIsQuiet
  <2> QED BY <2>4, <2>5, <2>6, <2>7 DEF CatchUpInv
<1>10. CASE UNCHANGED <<mail, box, fresh, knownIds, pulls, queue, offer, writes>>
    BY <1>10, QuietStep
<1> QED
    BY <1>1, <1>2, <1>3, <1>4, <1>5, <1>6, <1>7, <1>8, <1>9, <1>10,
       <1>11, <1>12, <1>13
       DEF ResyncNext, Expire, ResolveParked, ClearOutbox, ClearTombstone, ClearRows, ChangePolicy,
           Wipe, resyncVars, stores, notes

\* Two peers with the same content are not both asked for it, and what was asked for
\* does not take the clipboard when it comes, for any number of peers, copies and
\* sessions (RESYNC_PULL_TIMEOUT being longer than a round trip).
THEOREM CatchUpStaysQuiet == ResyncSpec => []CatchUpIsQuiet
<1>1. ResyncInit => CatchUpInv
    BY DEF ResyncInit, CatchUpInv, CatchUpTyped, MailDue, OfferDue, OfferShape, QueueMarked,
              CatchUpIsQuiet, NoOffer
<1>2. CatchUpInv => CatchUpIsQuiet
    BY DEF CatchUpInv
<1> QED BY <1>1, <1>2, CatchUpStep, PTL DEF ResyncSpec

-----------------------------------------------------------------------------
\* Redial.

RedialTyped ==
    /\ attempt \in 0 .. MaxShift + 1 /\ due \in Nat /\ tokens \in 0 .. Full
    /\ dialling \in {"no", "admitted", "refused"} /\ session \in BOOLEAN
    /\ refused \in BOOLEAN /\ hurried \in BOOLEAN
    /\ session => dialling = "no"

\* What the bucket must hold at a dial: a token for this one and for each that is left
\* of the ramp to the cap, where the wait brings in what a dial costs.
Ramp == IF attempt <= MaxShift THEN MaxShift + 1 - attempt ELSE 1

\* In an outage whose dials waited their turn, the bucket has that by the next dial.
Provided ==
    ~hurried =>
        /\ ~refused
        /\ ~session /\ dialling = "no" => Refilled(due) >= Ramp * RefillInterval
        /\ ~session /\ dialling # "no" => tokens + RefillInterval >= Ramp * RefillInterval

RedialInv == RedialTyped /\ Provided

\* A power of two counts the subsets of a set.
LEMMA PowersAreNumbers == ASSUME NEW n \in Nat PROVE  2 ^ n \in Nat
<1>1. IsFiniteSet(1 .. n) /\ Cardinality(1 .. n) = n
    BY FS_Interval
<1>2. IsFiniteSet(SUBSET (1 .. n)) /\ Cardinality(SUBSET (1 .. n)) = 2 ^ n
    BY <1>1, FS_SUBSET
<1> QED BY <1>2, FS_CardinalityType

LEMMA RedialNumbers ==
    /\ {InitialBase, MaxShift, FloorMargin, MinStable, BucketCapacity,
        RefillInterval, AnswerTimeout, SilenceTimeout} \subseteq Nat \ {0}
    /\ MaxShift + 1 <= BucketCapacity
    /\ Full \in Nat
    /\ \A k \in 0 .. BucketCapacity : k * RefillInterval \in Nat /\ k * RefillInterval <= Full
<1>1. /\ {InitialBase, MaxShift, FloorMargin, MinStable, BucketCapacity,
          RefillInterval, AnswerTimeout, SilenceTimeout} \subseteq Nat \ {0}
      /\ MaxShift + 1 <= BucketCapacity
    BY RedialAssumption
<1>2. ASSUME NEW k \in 0 .. BucketCapacity
      PROVE  k * RefillInterval \in Nat /\ k * RefillInterval <= BucketCapacity * RefillInterval
    BY <1>1
<1>3. BucketCapacity \in 0 .. BucketCapacity
    BY <1>1
<1> QED BY <1>1, <1>2, <1>3 DEF Full

\* The floor of the jitter is a number, and at the cap it brings in a token.
LEMMA FloorRefills ==
    ASSUME RedialTyped, NEW d \in JitterFloor(Base) .. Base
    PROVE  /\ d \in Nat
           /\ attempt >= MaxShift => d >= RefillInterval
<1> DEFINE n == Least(attempt, MaxShift)
           b == InitialBase * 2 ^ n
<1>1. n \in Nat /\ (attempt >= MaxShift => n = MaxShift)
    BY RedialNumbers DEF RedialTyped, Least
<1>2. 2 ^ n \in Nat
    BY <1>1, PowersAreNumbers
<1> HIDE DEF n
<1>3. b \in Nat
    BY <1>2, RedialNumbers
<1>4. Base = b /\ (n = MaxShift => b = Cap)
    BY DEF Base, Cap, n
<1> HIDE DEF b
<1>5. d >= JitterFloor(b) /\ d \in Int
    BY <1>3, <1>4, RedialNumbers DEF JitterFloor
<1>6. b \div 2 \in Nat
    BY <1>3
<1>7. JitterFloor(b) >= 0
    BY <1>6, RedialNumbers DEF JitterFloor
<1>8. JitterFloor(b) \in Int
    BY <1>6, RedialNumbers DEF JitterFloor
<1>9. d \in Nat
    BY <1>5, <1>7, <1>8
<1>10. ASSUME attempt >= MaxShift PROVE  d >= RefillInterval
  <2>1. b = Cap
      BY <1>1, <1>4, <1>10
  <2>2. JitterFloor(b) = RefillInterval + FloorMargin
      BY <1>3, <2>1 DEF JitterFloor
  <2> QED BY <1>5, <2>2, RedialNumbers
<1> QED BY <1>9, <1>10

\* A full bucket has what any dial needs.
LEMMA FullProvides ==
    ASSUME RedialTyped
    PROVE  /\ Ramp \in 1 .. BucketCapacity
           /\ Ramp * RefillInterval \in Nat /\ Ramp * RefillInterval <= Full
           /\ Ramp * RefillInterval >= RefillInterval
<1>1. Ramp \in 1 .. BucketCapacity
    BY RedialNumbers DEF Ramp, RedialTyped
<1> HIDE DEF Ramp
<1>2. Ramp \in 0 .. BucketCapacity /\ Ramp >= 1
    BY <1>1, RedialNumbers
<1>3. Ramp * RefillInterval >= 1 * RefillInterval
    BY <1>1, RedialNumbers
<1> QED BY <1>1, <1>2, <1>3, RedialNumbers

LEMMA RefillType ==
    ASSUME RedialTyped, NEW e \in Nat
    PROVE  /\ Refilled(e) \in 0 .. Full /\ Refilled(e) >= tokens
           /\ \A f \in Nat : f >= e => Refilled(f) >= Refilled(e)
BY RedialNumbers DEF RedialTyped, Refilled, Least

\* A bucket that has, or gets, what is needed has it, if it can hold that much.
LEMMA Poured ==
    ASSUME NEW n \in Int, NEW full \in Nat, n <= full, NEW t \in 0 .. full, NEW d \in Nat,
           t >= n \/ d >= n
    PROVE  (IF full < t + d THEN full ELSE t + d) >= n
OBVIOUS

LEMMA RedialStep == RedialInv /\ [RedialNext]_redialVars => RedialInv'
<1> SUFFICES ASSUME RedialInv, [RedialNext]_redialVars PROVE  RedialInv'
    OBVIOUS
<1>1. RedialTyped /\ Provided
    BY DEF RedialInv
<1>2. /\ Ramp \in 1 .. BucketCapacity /\ Ramp * RefillInterval \in Nat
      /\ Ramp * RefillInterval <= Full /\ Ramp * RefillInterval >= RefillInterval
    BY <1>1, FullProvides
<1>3. ASSUME NEW e \in Nat
      PROVE  Refilled(e) \in 0 .. Full /\ Refilled(e) >= tokens
    BY <1>1, RefillType
<1>4. /\ RefillInterval \in Nat \ {0} /\ Full \in Nat /\ AnswerTimeout \in Nat
      /\ SilenceTimeout \in Nat /\ MinStable \in Nat /\ MaxShift \in Nat
      /\ attempt \in 0 .. MaxShift + 1 /\ due \in Nat /\ tokens \in 0 .. Full
      /\ dialling \in {"no", "admitted", "refused"}
      /\ session \in BOOLEAN /\ refused \in BOOLEAN /\ hurried \in BOOLEAN
      /\ session => dialling = "no"
    BY <1>1, RedialNumbers DEF RedialTyped
<1>5. ASSUME attempt' = attempt PROVE  Ramp' = Ramp
    BY <1>5 DEF Ramp
<1> HIDE DEF Ramp
<1> DEFINE need == Ramp * RefillInterval
<1> HIDE DEF need
<1>6. need \in Nat /\ need <= Full /\ need >= RefillInterval
    BY <1>2 DEF need
<1>7. ASSUME attempt' = attempt PROVE  (Ramp * RefillInterval)' = need
    BY <1>5, <1>7 DEF need
<1>8. ~hurried =>
        /\ ~refused
        /\ ~session /\ dialling = "no" => Refilled(due) >= need
        /\ ~session /\ dialling # "no" => tokens + RefillInterval >= need
    BY <1>1 DEF Provided, need
<1>17. Refilled(due)' = IF Full < tokens' + due' THEN Full ELSE tokens' + due'
    BY DEF Refilled, Least, Full
<1> HIDE DEF Full
<1>9. CASE RedialWhenReady
  <2>1. /\ ~session /\ dialling = "no" /\ due' = 0 /\ UNCHANGED <<attempt, session, hurried>>
        /\ Check(due)
      BY <1>9 DEF RedialWhenReady
  <2>2. Refilled(due) \in 0 .. Full
      BY <1>3, <1>4
  <2>3. /\ dialling' \in {"admitted", "refused"} /\ tokens' \in 0 .. Full /\ refused' \in BOOLEAN
        /\ ~hurried => ~refused' /\ tokens' + RefillInterval >= need
      BY <1>4, <1>6, <1>8, <2>1, <2>2 DEF Check
  <2> QED BY <1>4, <1>7, <2>1, <2>3 DEF RedialInv, RedialTyped, Provided
<1>10. CASE RedialAtOnce
  <2>1. /\ ~session /\ hurried' = TRUE /\ UNCHANGED <<attempt, due, session>> /\ Check(0)
      BY <1>10 DEF RedialAtOnce
  <2>2. Refilled(0) \in 0 .. Full
      BY <1>3
  <2>3. dialling' \in {"admitted", "refused"} /\ tokens' \in 0 .. Full /\ refused' \in BOOLEAN
      BY <1>4, <2>1, <2>2 DEF Check
  <2> QED BY <1>4, <2>1, <2>3 DEF RedialInv, RedialTyped, Provided
<1>11. CASE DialLost
  <2>1. /\ ~session /\ dialling = "no" /\ dialling' = "refused" /\ tokens' = Refilled(due) /\ due' = 0
        /\ UNCHANGED <<attempt, session, refused, hurried>>
      BY <1>11 DEF DialLost
  <2>2. tokens' \in 0 .. Full
      BY <1>3, <1>4, <2>1
  <2>3. ~hurried => ~refused /\ tokens' + RefillInterval >= need
      BY <1>4, <1>6, <1>8, <2>1, <2>2
  <2> QED BY <1>4, <1>7, <2>1, <2>2, <2>3 DEF RedialInv, RedialTyped, Provided
<1>12. CASE AttemptFails
  <2>1. /\ dialling # "no" /\ dialling' = "no" /\ UNCHANGED <<session, refused, hurried>>
        /\ attempt' = Least(attempt + 1, MaxShift + 1)
        /\ due' \in JitterFloor(Base) .. Base
        /\ \E took \in Nat : tokens' = Refilled(took)
      BY <1>4, <1>12 DEF AttemptFails
  <2>2. due' \in Nat /\ (attempt >= MaxShift => due' >= RefillInterval)
      BY <1>1, <2>1, FloorRefills
  <2>3. tokens' \in 0 .. Full /\ tokens' >= tokens
      BY <1>3, <2>1
  <2>4. attempt' \in 0 .. MaxShift + 1
      BY <1>4, <2>1 DEF Least
  <2>5. RedialTyped'
      BY <1>4, <2>1, <2>2, <2>3, <2>4 DEF RedialTyped
  <2>6. ASSUME ~hurried, ~session PROVE  Refilled(due)' >= (Ramp * RefillInterval)'
    <3>1. tokens + RefillInterval >= need
        BY <1>8, <2>1, <2>6
    <3>2. CASE attempt < MaxShift
      <4>1. Ramp' = Ramp - 1
          BY <1>4, <2>1, <3>2 DEF Least, Ramp
      <4>2. (Ramp * RefillInterval)' = need - RefillInterval
          BY <1>2, <1>4, <4>1 DEF need
      <4>3. Refilled(due)' >= need - RefillInterval
        <5>1. need - RefillInterval \in Int /\ need - RefillInterval <= Full
            BY <1>4, <1>6
        <5>2. tokens >= need - RefillInterval
            BY <1>4, <1>6, <3>1
        <5>3. tokens' >= need - RefillInterval
            BY <1>4, <2>3, <5>1, <5>2
        <5> QED BY <1>4, <1>17, <2>2, <2>3, <5>1, <5>3, Poured
      <4> QED BY <4>2, <4>3
    <3>3. CASE attempt >= MaxShift
      <4>1. Ramp' = 1
          BY <1>4, <2>1, <3>3 DEF Least, Ramp
      <4>2. (Ramp * RefillInterval)' = RefillInterval
          BY <1>4, <4>1
      <4>3. Refilled(due)' >= RefillInterval
        <5>1. RefillInterval \in Int /\ RefillInterval <= Full
            BY <1>4, <1>6
        <5> QED BY <1>4, <1>17, <2>2, <2>3, <3>3, <5>1, Poured
      <4> QED BY <4>2, <4>3
    <3> QED BY <1>4, <3>2, <3>3
  <2> QED BY <1>8, <2>1, <2>5, <2>6 DEF RedialInv, Provided
<1>13. CASE AttemptAnswered
  <2>1. session' = TRUE /\ dialling' = "no" /\ UNCHANGED <<attempt, due, tokens, refused, hurried>>
      BY <1>13 DEF AttemptAnswered
  <2> QED BY <1>4, <1>8, <2>1 DEF RedialInv, RedialTyped, Provided
<1>14. CASE SessionEnds
  <2>1. PICK uptime \in {0, SilenceTimeout, MinStable} :
          /\ tokens' = Refilled(uptime)
          /\ hurried' = (Refilled(uptime) < Full)
          /\ IF uptime >= MinStable THEN attempt' = 0 /\ due' = 0
             ELSE due' = Most(0, due - uptime) /\ UNCHANGED attempt
      BY <1>14 DEF SessionEnds
  <2>2. session /\ session' = FALSE /\ refused' = FALSE /\ dialling' = dialling
      BY <1>14 DEF SessionEnds
  <2>3. uptime \in Nat
      BY <1>4
  <2>4. tokens' \in 0 .. Full
      BY <1>3, <2>1, <2>3
  <2>5. attempt' \in 0 .. MaxShift + 1 /\ due' \in Nat
      BY <1>4, <2>1, <2>3 DEF Most
  <2>9. hurried' \in BOOLEAN
      BY <2>1
  <2>10. dialling' \in {"no", "admitted", "refused"} /\ session' \in BOOLEAN /\ refused' \in BOOLEAN
      BY <1>4, <2>2
  <2>6. RedialTyped'
      BY <2>2, <2>4, <2>5, <2>9, <2>10 DEF RedialTyped
  <2>7. ~hurried' => tokens' = Full
    <3>1. CASE tokens' < Full
        BY <2>1, <3>1
    <3>2. CASE ~(tokens' < Full)
        BY <1>4, <2>4, <3>2
    <3> QED BY <3>1, <3>2
  <2>8. ~hurried' => Refilled(due)' >= (Ramp * RefillInterval)' /\ tokens' >= (Ramp * RefillInterval)'
    <3>1. (Ramp * RefillInterval)' \in Nat /\ (Ramp * RefillInterval)' <= Full
      <4>1. Ramp' \in 0 .. BucketCapacity
          BY <2>5, RedialNumbers DEF Ramp
      <4> QED BY <4>1, RedialNumbers
    <3> DEFINE goal == (Ramp * RefillInterval)'
    <3> HIDE DEF goal
    <3>2. goal \in Nat /\ goal <= Full
        BY <3>1 DEF goal
    <3>3. ~hurried' => Refilled(due)' >= goal /\ tokens' >= goal
      <4>1. ASSUME ~hurried' PROVE  tokens' >= goal
          BY <1>4, <2>7, <3>2, <4>1
      <4>2. goal \in Int
          BY <3>2
      <4>3. ASSUME ~hurried' PROVE  Refilled(due)' >= goal
          BY <1>4, <1>17, <2>4, <2>5, <3>2, <4>1, <4>2, <4>3, Poured
      <4> QED BY <4>1, <4>3
    <3> QED BY <3>3 DEF goal
  <2> QED BY <1>4, <2>2, <2>4, <2>6, <2>8 DEF RedialInv, Provided
<1>15. CASE BucketForgotten
  <2>1. tokens' = Full /\ UNCHANGED <<attempt, due, dialling, session, refused, hurried>>
      BY <1>15 DEF BucketForgotten
  <2>2. Refilled(due)' = Full
      BY <1>4, <2>1 DEF Refilled, Least
  <2>3. RedialTyped'
      BY <1>4, <2>1 DEF RedialTyped
  <2> QED BY <1>4, <1>6, <1>7, <1>8, <2>1, <2>2, <2>3 DEF RedialInv, Provided
<1>16. CASE UNCHANGED redialVars
    BY <1>1, <1>16 DEF redialVars, RedialInv, RedialTyped, Provided, Refilled, Ramp
<1> QED BY <1>9, <1>10, <1>11, <1>12, <1>13, <1>14, <1>15, <1>16 DEF RedialNext

\* The other device's limiter refuses no redial of an outage that began with a full
\* bucket and whose dials waited for the backoff (jitter_floor, STEADY_STATE_FLOOR).
THEOREM PatientDialsAreAdmitted == RedialSpec => []RedialsAreAdmitted
<1>1. RedialInit => RedialInv
  <2> SUFFICES ASSUME RedialInit PROVE  RedialInv
      OBVIOUS
  <2>1. RedialTyped
    <3> HIDE DEF Full
    <3>1. 0 \in 0 .. MaxShift + 1 /\ Full \in 0 .. Full /\ 0 \in Nat
        BY RedialNumbers
    <3> QED BY <3>1 DEF RedialInit, RedialTyped
  <2>2. Refilled(due) = Full
      BY RedialNumbers DEF RedialInit, Refilled, Least
  <2>3. Provided
      BY <2>1, <2>2, FullProvides DEF RedialInit, Provided
  <2> QED BY <2>1, <2>3 DEF RedialInv
<1>2. RedialInv => RedialsAreAdmitted
    BY DEF RedialInv, RedialTyped, Provided, RedialsAreAdmitted
<1> QED BY <1>1, <1>2, RedialStep, PTL DEF RedialSpec
-----------------------------------------------------------------------------
\* Vault: the history file.

\* Rank counts the indices of a set from 1 on, without gaps.
LEMMA Ranks ==
    ASSUME NEW n \in Nat, NEW I \in SUBSET (1 .. n)
    PROVE  /\ Cardinality(I) \in Nat
           /\ \A i \in I : Rank(I, i) \in 1 .. Cardinality(I)
           /\ \A i, j \in I : i < j => Rank(I, i) < Rank(I, j)
           /\ \A k \in 1 .. Cardinality(I) : \E i \in I : Rank(I, i) = k
<1> DEFINE N == Cardinality(I)
<1> DEFINE f == [i \in I |-> Rank(I, i)]
<1>0. I \subseteq Int
    OBVIOUS
<1>1. IsFiniteSet(I) /\ N \in Nat
  <2>1. IsFiniteSet(1 .. n)
      BY FS_Interval
  <2>2. IsFiniteSet(I)
      BY <2>1, FS_Subset
  <2> QED BY <2>2, FS_CardinalityType
<1>2. ASSUME NEW i \in I PROVE Rank(I, i) \in 1 .. N
  <2> DEFINE T == {j \in I : j <= i}
  <2>1. T \subseteq I /\ i \in T
      OBVIOUS
  <2>2. IsFiniteSet(T) /\ Cardinality(T) <= N /\ Cardinality(T) \in Nat
      BY <1>1, <2>1, FS_Subset, FS_CardinalityType
  <2>3. Cardinality(T) # 0
      BY <2>1, <2>2, FS_EmptySet
  <2> QED BY <1>1, <2>2, <2>3 DEF Rank
<1>3. ASSUME NEW i \in I, NEW j \in I, i < j PROVE Rank(I, i) < Rank(I, j)
  <2> DEFINE S == {m \in I : m <= i}
  <2> DEFINE T == {m \in I : m <= j}
  <2>0. i \in Int /\ j \in Int
      BY <1>0
  <2>1. S \subseteq T /\ j \in T /\ j \notin S
    <3>1. \A m \in I : m \in Int /\ (m <= i => m <= j)
        BY <1>0, <2>0, <1>3
    <3>2. ~(j <= i) /\ j <= j
        BY <2>0, <1>3
    <3> QED BY <3>1, <3>2
  <2>2. IsFiniteSet(T)
      BY <1>1, FS_Subset
  <2>3. Cardinality(S) <= Cardinality(T) /\ Cardinality(S) # Cardinality(T)
      BY <2>1, <2>2, FS_Subset
  <2>4. Cardinality(S) \in Nat /\ Cardinality(T) \in Nat
      BY <1>2 DEF Rank
  <2> QED BY <2>3, <2>4 DEF Rank
<1>4. f \in Injection(I, 1 .. N)
  <2>1. f \in [I -> 1 .. N]
      BY <1>2
  <2>2. ASSUME NEW i \in I, NEW j \in I, f[i] = f[j] PROVE i = j
    <3>1. i \in Int /\ j \in Int /\ Rank(I, i) = Rank(I, j) /\ Rank(I, i) \in Int
        BY <2>2, <1>2
    <3> QED BY <3>1, <1>3
  <2> QED BY <2>1, <2>2 DEF Injection, IsInjective
<1>5. f \in Surjection(I, 1 .. N)
  <2>1. IsFiniteSet(1 .. N) /\ Cardinality(1 .. N) = N
      BY <1>1, FS_Interval
  <2> QED BY <1>4, <2>1, FS_Injection
<1>6. \A k \in 1 .. N : \E i \in I : f[i] = k
    BY <1>5 DEF Surjection
<1> QED BY <1>1, <1>2, <1>3, <1>6

\* What the rows of a sequence at some indices are.
LEMMA AtIs ==
    ASSUME NEW R, NEW s \in Seq(R), NEW I \in SUBSET DOMAIN s
    PROVE  /\ At(s, I) \in Seq(R)
           /\ \A k \in DOMAIN At(s, I) : \E i \in I : Rank(I, i) = k /\ At(s, I)[k] = s[i]
           /\ \A i \in I : Rank(I, i) \in DOMAIN At(s, I) /\ At(s, I)[Rank(I, i)] = s[i]
<1> DEFINE N == Cardinality(I)
<1> DEFINE ix(k) == CHOOSE i \in I : Rank(I, i) = k
<1> DEFINE a == [k \in 1 .. N |-> s[ix(k)]]
<1>0. DOMAIN s = 1 .. Len(s) /\ Len(s) \in Nat
    OBVIOUS
<1>1. /\ N \in Nat
      /\ \A i \in I : Rank(I, i) \in 1 .. N
      /\ \A i, j \in I : i < j => Rank(I, i) < Rank(I, j)
      /\ \A k \in 1 .. N : \E i \in I : Rank(I, i) = k
    BY <1>0, Ranks
<1>2. \A k \in 1 .. N : ix(k) \in I /\ Rank(I, ix(k)) = k
    BY <1>1
<1>3. \A i \in I : ix(Rank(I, i)) = i
  <2> SUFFICES ASSUME NEW i \in I PROVE ix(Rank(I, i)) = i
      OBVIOUS
  <2>1. ix(Rank(I, i)) \in I /\ Rank(I, ix(Rank(I, i))) = Rank(I, i) /\ Rank(I, i) \in Int
      BY <1>1, <1>2
  <2>2. ix(Rank(I, i)) \in Int /\ i \in Int
      BY <2>1, <1>0
  <2> HIDE DEF ix
  <2> QED BY <1>1, <2>1, <2>2
<1> HIDE DEF ix
<1>4. a \in [1 .. N -> R]
    BY <1>0, <1>2
<1>5. a \in Seq(R)
    BY <1>1, <1>4
<1>6. At(s, I) = a
    BY DEF At, ix
<1>7. \A k \in DOMAIN a : \E i \in I : Rank(I, i) = k /\ a[k] = s[i]
    BY <1>2
<1>8. \A i \in I : Rank(I, i) \in DOMAIN a /\ a[Rank(I, i)] = s[i]
    BY <1>1, <1>3
<1> HIDE DEF a
<1> QED BY <1>5, <1>6, <1>7, <1>8

HistRow == [text : Texts, lam : Nat, fav : BOOLEAN]
HistRows == {rows, pub.hist, last, entries, job.hist, job.out, file, tmp.out}

VaultTyped ==
    /\ lamport \in Nat /\ wipeGen \in Nat /\ lastGen \in Nat
    /\ rows \in Seq(HistRow) /\ last \in Seq(HistRow) /\ entries \in Seq(HistRow)
    /\ file \in Seq(HistRow) /\ tmp \in [there : BOOLEAN, out : Seq(HistRow)]
    /\ pub \in [hist : Seq(HistRow), gen : Nat]
    /\ job \in [at : {"idle", "clearTmp", "clearFile", "write", "rename"}, hist : Seq(HistRow),
                gen : Nat, out : Seq(HistRow), bySave : BOOLEAN]
    /\ driver \in {"loop", "tmp", "file", "off"}
    /\ \A s \in HistRows : Lams(s) \subseteq 1 .. lamport
    /\ wiped \subseteq 1 .. lamport

\* The generations follow one another, and what the loop publishes is what it has in
\* memory except in the middle of a wipe.
Generations ==
    /\ lastGen <= pub.gen /\ pub.gen <= wipeGen
    /\ job.at # "idle" => lastGen <= job.gen /\ job.gen <= pub.gen
    /\ IF driver \in {"loop", "off"} THEN pub = State_(rows, wipeGen) ELSE pub.gen < wipeGen

\* The rows of s within the cap and the retention are in the file f.
Holds(f, s, old) == Lams(Unexpired(old, UpTo(DiskCap, s))) \subseteq Lams(f)
Clean(s, gone) == Lams(s) \cap gone = {}

\* What a job under way does to the file if it comes to its end.
JobIsSound ==
    /\ job.at \in {"clearTmp", "clearFile"} => last = <<>> /\ entries = <<>>
    /\ job.at \in {"write", "rename"} =>
          /\ Len(job.hist) <= Len(job.out)
          /\ \A i \in DOMAIN job.hist : job.out[i] = job.hist[i]
          /\ ~job.bySave => job.gen = lastGen
          /\ job.gen = wipeGen => Clean(job.out, wiped)
    /\ job.at = "rename" /\ tmp.there =>
          /\ Lams(tmp.out) \subseteq Lams(job.out)
          /\ Holds(tmp.out, job.hist, aged)

\* What the persister remembers of the disk counts once it has seen the last wipe.
DiskIsSound ==
    /\ Clean(rows, wiped)
    /\ lastGen = wipeGen => Clean(file, wiped) /\ Clean(entries, wiped) /\ Holds(file, last, aged)

VaultInv == VaultTyped /\ Generations /\ JobIsSound /\ DiskIsSound

LEMMA AtLams ==
    ASSUME NEW s \in Seq(HistRow), NEW I \in SUBSET DOMAIN s
    PROVE  /\ At(s, I) \in Seq(HistRow)
           /\ Lams(At(s, I)) = {s[i].lam : i \in I}
<1> DEFINE a == At(s, I)
<1>1. /\ a \in Seq(HistRow)
      /\ \A k \in DOMAIN a : \E i \in I : a[k] = s[i]
      /\ \A i \in I : Rank(I, i) \in DOMAIN a /\ a[Rank(I, i)] = s[i]
    BY AtIs
<1> HIDE DEF a
<1>2. Lams(a) \subseteq {s[i].lam : i \in I}
    BY <1>1 DEF Lams
<1>3. {s[i].lam : i \in I} \subseteq Lams(a)
  <2> SUFFICES ASSUME NEW i \in I PROVE s[i].lam \in Lams(a)
      OBVIOUS
  <2> DEFINE k == Rank(I, i)
  <2>1. k \in DOMAIN a /\ a[k] = s[i]
      BY <1>1
  <2> QED BY <2>1 DEF Lams
<1> QED BY <1>1, <1>2, <1>3 DEF a

\* Which rows the cap and the retention leave.
LEMMA LeftByBoth ==
    ASSUME NEW s \in Seq(HistRow), NEW cap \in Nat, NEW old
    PROVE  /\ UpTo(cap, s) \in Seq(HistRow) /\ Lams(UpTo(cap, s)) \subseteq Lams(s)
           /\ Unexpired(old, s) \in Seq(HistRow) /\ Lams(Unexpired(old, s)) \subseteq Lams(s)
<1> DEFINE I == {i \in DOMAIN s : s[i].fav \/ Cardinality(Unpinned(s, i)) < cap}
<1> DEFINE J == {i \in DOMAIN s : s[i].fav \/ s[i].lam \notin old}
<1>1. At(s, I) \in Seq(HistRow) /\ Lams(At(s, I)) = {s[i].lam : i \in I}
    BY AtLams
<1>2. At(s, J) \in Seq(HistRow) /\ Lams(At(s, J)) = {s[i].lam : i \in J}
    BY AtLams
<1>3. {s[i].lam : i \in I} \subseteq Lams(s) /\ {s[i].lam : i \in J} \subseteq Lams(s)
    BY DEF Lams
<1>4. UpTo(cap, s) = At(s, I) /\ Unexpired(old, s) = At(s, J)
    BY DEF UpTo, Unexpired
<1> QED BY <1>1, <1>2, <1>3, <1>4

\* Cut first and expired afterwards: a row of both is within the cap and the retention.
LEMMA CutThenExpired ==
    ASSUME NEW h \in Seq(HistRow), NEW cap \in Nat, NEW old, NEW l \in Lams(Unexpired(old, UpTo(cap, h)))
    PROVE  \E i \in DOMAIN h :
              /\ h[i].lam = l
              /\ h[i].fav \/ Cardinality(Unpinned(h, i)) < cap
              /\ h[i].fav \/ h[i].lam \notin old
<1> DEFINE I == {i \in DOMAIN h : h[i].fav \/ Cardinality(Unpinned(h, i)) < cap}
<1> DEFINE u == UpTo(cap, h)
<1> DEFINE J == {k \in DOMAIN u : u[k].fav \/ u[k].lam \notin old}
<1>1. u = At(h, I)
    BY DEF UpTo
<1>2. u \in Seq(HistRow) /\ \A k \in DOMAIN u : \E i \in I : u[k] = h[i]
  <2>1. I \in SUBSET DOMAIN h
      OBVIOUS
  <2> HIDE DEF I, u
  <2> QED BY <1>1, <2>1, AtIs
<1>3. Lams(At(u, J)) = {u[k].lam : k \in J}
  <2> HIDE DEF u
  <2> QED BY <1>2, AtLams
<1>4. PICK k \in J : l = u[k].lam
    BY <1>3 DEF Unexpired
<1>5. PICK i \in I : u[k] = h[i]
    BY <1>2, <1>4
<1> QED BY <1>4, <1>5

\* Expired first and cut afterwards, over more rows: what is left then is left here.
LEMMA ExpiredThenCut ==
    ASSUME NEW s \in Seq(HistRow), NEW h \in Seq(HistRow), NEW cap \in Nat, NEW old,
           Len(h) <= Len(s), \A i \in DOMAIN h : s[i] = h[i]
    PROVE  Lams(Unexpired(old, UpTo(cap, h))) \subseteq Lams(UpTo(cap, Unexpired(old, s)))
<1> DEFINE J == {i \in DOMAIN s : s[i].fav \/ s[i].lam \notin old}
<1> DEFINE u == At(s, J)
<1> DEFINE K == {k \in DOMAIN u : u[k].fav \/ Cardinality(Unpinned(u, k)) < cap}
<1> SUFFICES ASSUME NEW l \in Lams(Unexpired(old, UpTo(cap, h)))
             PROVE  l \in Lams(UpTo(cap, u))
    BY DEF Unexpired
<1>1. PICK i \in DOMAIN h :
          /\ h[i].lam = l
          /\ h[i].fav \/ Cardinality(Unpinned(h, i)) < cap
          /\ h[i].fav \/ h[i].lam \notin old
    BY CutThenExpired
<1>2. /\ DOMAIN s = 1 .. Len(s) /\ DOMAIN h = 1 .. Len(h)
      /\ Len(s) \in Nat /\ Len(h) \in Nat
    OBVIOUS
<1>3. i \in J /\ s[i] = h[i]
    BY <1>1, <1>2
<1>4. /\ u \in Seq(HistRow)
      /\ \A k \in DOMAIN u : \E j \in J : Rank(J, j) = k /\ u[k] = s[j]
      /\ \A j \in J : Rank(J, j) \in DOMAIN u /\ u[Rank(J, j)] = s[j]
  <2>1. J \in SUBSET DOMAIN s
      OBVIOUS
  <2> HIDE DEF J
  <2> QED BY <2>1, AtIs
<1>5. \A j, m \in J : j < m => Rank(J, j) < Rank(J, m)
    BY <1>2, Ranks
<1> DEFINE n == Rank(J, i)
<1>6. n \in DOMAIN u /\ u[n] = s[i]
    BY <1>3, <1>4
<1> HIDE DEF u
<1>7. u[n].fav \/ Cardinality(Unpinned(u, n)) < cap
  <2> SUFFICES ASSUME ~u[n].fav PROVE Cardinality(Unpinned(u, n)) < cap
      OBVIOUS
  <2> DEFINE U == Unpinned(u, n)
  <2> DEFINE H == Unpinned(h, i)
  <2>1. Cardinality(H) < cap
      BY <1>1, <1>3, <1>6
  <2> DEFINE g == [k \in U |-> CHOOSE j \in J : Rank(J, j) = k /\ u[k] = s[j]]
  <2>2. ASSUME NEW k \in U
        PROVE  g[k] \in J /\ Rank(J, g[k]) = k /\ u[k] = s[g[k]]
    <3>1. k \in DOMAIN u
        BY DEF Unpinned
    <3>2. \E j \in J : Rank(J, j) = k /\ u[k] = s[j]
        BY <1>4, <3>1
    <3> QED BY <3>2
  <2> HIDE DEF n, J
  <2>3. ASSUME NEW k \in U PROVE g[k] \in H
    <3>1. g[k] \in J /\ Rank(J, g[k]) = k /\ u[k] = s[g[k]]
        BY <2>2
    <3>2. k < n /\ ~u[k].fav /\ k \in Int /\ n \in Int
        BY <1>4, <1>6 DEF Unpinned
    <3>3. g[k] \in Int /\ i \in Int /\ g[k] >= 1
        BY <3>1, <1>2 DEF J
    <3>4. g[k] < i
      <4>1. CASE g[k] = i
          BY <4>1, <3>1, <3>2 DEF n
      <4>2. CASE i < g[k]
          BY <4>2, <1>3, <1>5, <3>1, <3>2 DEF n
      <4> QED BY <4>1, <4>2, <3>3
    <3>5. g[k] \in DOMAIN h /\ h[g[k]] = s[g[k]]
        BY <1>2, <3>3, <3>4
    <3> HIDE DEF g
    <3> QED BY <3>1, <3>2, <3>4, <3>5 DEF Unpinned
  <2>4. g \in Injection(U, H)
    <3>1. g \in [U -> H]
        BY <2>3
    <3>2. \A k, m \in U : g[k] = g[m] => k = m
      <4> SUFFICES ASSUME NEW k \in U, NEW m \in U, g[k] = g[m] PROVE k = m
          OBVIOUS
      <4>1. Rank(J, g[k]) = k /\ Rank(J, g[m]) = m
          BY <2>2
      <4> HIDE DEF g
      <4> QED BY <4>1
    <3> HIDE DEF g, U, H
    <3> QED BY <3>1, <3>2 DEF Injection, IsInjective
  <2>5. IsFiniteSet(H)
    <3>1. IsFiniteSet(1 .. Len(h))
        BY <1>2, FS_Interval
    <3>2. H \subseteq 1 .. Len(h)
        BY <1>2 DEF Unpinned
    <3> QED BY <3>1, <3>2, FS_Subset
  <2>6. /\ IsFiniteSet(U) /\ Cardinality(U) <= Cardinality(H)
        /\ Cardinality(H) \in Nat
    <3> HIDE DEF U, H, g
    <3> QED BY <2>4, <2>5, FS_Injection, FS_CardinalityType
  <2>7. Cardinality(U) \in Nat
      BY <2>6, FS_CardinalityType
  <2> QED BY <2>1, <2>6, <2>7
<1>8. n \in K
    BY <1>6, <1>7
<1>9. Lams(At(u, K)) = {u[k].lam : k \in K}
    BY <1>4, AtLams
<1>10. u[n].lam = l
    BY <1>1, <1>3, <1>6
<1> QED BY <1>8, <1>9, <1>10 DEF UpTo

\* What the retention leaves later it leaves now.
LEMMA HoldsLonger ==
    ASSUME NEW f, NEW s \in Seq(HistRow), NEW old, NEW older, old \subseteq older,
           DiskCap \in Nat, Holds(f, s, old)
    PROVE  Holds(f, s, older)
<1> DEFINE u == UpTo(DiskCap, s)
<1> DEFINE I(o) == {i \in DOMAIN u : u[i].fav \/ u[i].lam \notin o}
<1>1. u \in Seq(HistRow)
    BY LeftByBoth
<1> HIDE DEF u
<1>2. Lams(At(u, I(old))) = {u[i].lam : i \in I(old)}
    BY <1>1, AtLams
<1>3. Lams(At(u, I(older))) = {u[i].lam : i \in I(older)}
    BY <1>1, AtLams
<1>4. I(older) \subseteq I(old)
    OBVIOUS
<1>5. Lams(At(u, I(older))) \subseteq Lams(At(u, I(old)))
    BY <1>2, <1>3, <1>4
<1> QED BY <1>5 DEF Holds, Unexpired, u

\* What follows the window in a save is carried from the last one.
LEMMA RebuildIs ==
    ASSUME NEW h \in Seq(HistRow), NEW es \in Seq(HistRow)
    PROVE  /\ Rebuild(h, es) \in Seq(HistRow)
           /\ Len(h) <= Len(Rebuild(h, es))
           /\ \A i \in DOMAIN h : Rebuild(h, es)[i] = h[i]
           /\ Lams(Rebuild(h, es)) \subseteq Lams(h) \cup Lams(es)
<1> DEFINE I == {i \in DOMAIN es : es[i].fav /\ es[i].lam \notin Lams(h)}
<1> DEFINE c == At(es, I)
<1>1. c \in Seq(HistRow) /\ Lams(c) = {es[i].lam : i \in I}
    BY AtLams
<1>2. Lams(c) \subseteq Lams(es)
    BY <1>1 DEF Lams
<1>3. Rebuild(h, es) = h \o c
    BY DEF Rebuild
<1> HIDE DEF c
<1> DEFINE r == h \o c
<1>4. /\ r \in Seq(HistRow) /\ Len(h) \in Nat /\ Len(c) \in Nat /\ Len(r) = Len(h) + Len(c)
      /\ \A i \in 1 .. Len(r) : r[i] = IF i <= Len(h) THEN h[i] ELSE c[i - Len(h)]
    BY <1>1
<1>5. DOMAIN h = 1 .. Len(h) /\ DOMAIN c = 1 .. Len(c) /\ DOMAIN r = 1 .. Len(r)
    BY <1>1, <1>4
<1> HIDE DEF r
<1>6. ASSUME NEW i \in DOMAIN r
      PROVE  (i \in DOMAIN h /\ r[i] = h[i]) \/ (i - Len(h) \in DOMAIN c /\ r[i] = c[i - Len(h)])
  <2>1. CASE i <= Len(h)
      BY <2>1, <1>4, <1>5
  <2>2. CASE ~(i <= Len(h))
      BY <2>2, <1>4, <1>5
  <2> QED BY <2>1, <2>2
<1>7. Lams(r) \subseteq Lams(h) \cup Lams(c)
    BY <1>6 DEF Lams
<1>8. \A i \in DOMAIN h : r[i] = h[i]
    BY <1>4, <1>5
<1>9. Len(h) <= Len(r)
    BY <1>4
<1> QED BY <1>2, <1>3, <1>4, <1>7, <1>8, <1>9 DEF r

LEMMA Conses ==
    ASSUME NEW r \in HistRow, NEW s \in Seq(HistRow)
    PROVE  <<r>> \o s \in Seq(HistRow) /\ Lams(<<r>> \o s) \subseteq {r.lam} \cup Lams(s)
<1> DEFINE q == <<r>> \o s
<1>1. /\ q \in Seq(HistRow) /\ Len(s) \in Nat /\ Len(q) = 1 + Len(s)
      /\ q[1] = r /\ \A i \in 2 .. Len(q) : q[i] = s[i - 1]
    OBVIOUS
<1>2. DOMAIN q = 1 .. Len(q) /\ DOMAIN s = 1 .. Len(s)
    BY <1>1
<1> HIDE DEF q
<1>3. ASSUME NEW i \in DOMAIN q
      PROVE  q[i] = r \/ (i - 1 \in DOMAIN s /\ q[i] = s[i - 1])
    BY <1>1, <1>2
<1>4. Lams(q) \subseteq {r.lam} \cup Lams(s)
    BY <1>3 DEF Lams
<1> QED BY <1>1, <1>4 DEF q

\* No row: nothing to hold, nothing to clean.
LEMMA NoRows ==
    /\ <<>> \in Seq(HistRow) /\ Lams(<<>>) = {}
    /\ \A gone : Clean(<<>>, gone)
    /\ DiskCap \in Nat => \A f, old : Holds(f, <<>>, old)
<1>1. <<>> \in Seq(HistRow) /\ Lams(<<>>) = {}
    BY DEF Lams
<1>2. ASSUME DiskCap \in Nat, NEW f, NEW old PROVE Holds(f, <<>>, old)
  <2>1. UpTo(DiskCap, <<>>) \in Seq(HistRow) /\ Lams(UpTo(DiskCap, <<>>)) \subseteq {}
      BY <1>1, <1>2, LeftByBoth
  <2>2. Lams(Unexpired(old, UpTo(DiskCap, <<>>))) \subseteq {}
      BY <1>2, <2>1, LeftByBoth
  <2> QED BY <2>2 DEF Holds
<1> QED BY <1>1, <1>2 DEF Clean

\* The loop changes its history and publishes it.
LEMMA MemoryStep ==
    ASSUME VaultInv, driver = "loop", lamport' \in Nat, lamport <= lamport',
           rows' \in Seq(HistRow),
           Lams(rows') \subseteq Lams(rows) \cup (lamport + 1) .. lamport',
           Publish(rows', wipeGen), UNCHANGED <<wipeGen, aged, driver, persister, disk, wiped>>
    PROVE  VaultInv'
<1> USE DEF persister, disk
<1>1. 1 .. lamport \subseteq 1 .. lamport' /\ (lamport + 1) .. lamport' \subseteq 1 .. lamport'
    BY DEF VaultInv, VaultTyped
<1>2. pub' = State_(rows', wipeGen)
    BY DEF Publish
<1>3. pub'.hist = rows' /\ pub'.gen = wipeGen
    BY <1>2 DEF State_
<1>4. pub.gen = wipeGen
    BY DEF VaultInv, Generations, State_
<1>5. Lams(rows') \subseteq 1 .. lamport'
    BY <1>1 DEF VaultInv, VaultTyped, HistRows
<1>6. VaultTyped'
    BY <1>1, <1>2, <1>3, <1>5 DEF VaultInv, VaultTyped, HistRows, State_
<1>7. Generations'
    BY <1>2, <1>3, <1>4 DEF VaultInv, Generations
<1>8. JobIsSound'
    BY DEF VaultInv, JobIsSound
<1>9. Clean(rows', wiped)
  <2>1. wiped \cap (lamport + 1) .. lamport' = {}
      BY DEF VaultInv, VaultTyped
  <2> QED BY <2>1 DEF VaultInv, DiskIsSound, Clean
<1>10. DiskIsSound'
    BY <1>9 DEF VaultInv, DiskIsSound
<1> QED BY <1>6, <1>7, <1>8, <1>10 DEF VaultInv

LEMMA CopyStep == ASSUME VaultAssumption, VaultInv, NEW x \in Texts, CopyText(x) PROVE VaultInv'
<1> DEFINE old == {i \in DOMAIN rows :
                     rows[i].text = x /\ \A j \in 1 .. (i - 1) : rows[j].text # x}
<1> DEFINE row == Row(x, lamport + 1, \E i \in old : rows[i].fav)
<1> DEFINE rest == At(rows, DOMAIN rows \ old)
<1>1. rows \in Seq(HistRow) /\ lamport \in Nat /\ HistCap \in Nat
    BY DEF VaultInv, VaultTyped, VaultAssumption
<1>2. row \in HistRow /\ row.lam = lamport + 1
  <2> DEFINE f == \E i \in old : rows[i].fav
  <2>1. f \in BOOLEAN
      BY Zenon
  <2>2. \A b \in BOOLEAN : Row(x, lamport + 1, b) \in HistRow /\ Row(x, lamport + 1, b).lam = lamport + 1
      BY <1>1 DEF Row, HistRow
  <2> HIDE DEF f
  <2> QED BY <2>1, <2>2 DEF f
<1>3. rest \in Seq(HistRow) /\ Lams(rest) \subseteq Lams(rows)
  <2> DEFINE I == DOMAIN rows \ old
  <2>1. I \in SUBSET DOMAIN rows
      OBVIOUS
  <2> HIDE DEF I
  <2>2. At(rows, I) \in Seq(HistRow) /\ Lams(At(rows, I)) = {rows[i].lam : i \in I}
      BY <1>1, <2>1, AtLams
  <2>3. {rows[i].lam : i \in I} \subseteq Lams(rows)
      BY <2>1 DEF Lams
  <2> QED BY <2>2, <2>3 DEF I
<1>4. driver = "loop" /\ lamport' = lamport + 1 /\ rows' = UpTo(HistCap, <<row>> \o rest)
    BY DEF CopyText
<1> HIDE DEF row, rest, old
<1>5. <<row>> \o rest \in Seq(HistRow) /\ Lams(<<row>> \o rest) \subseteq {lamport + 1} \cup Lams(rows)
    BY <1>2, <1>3, Conses
<1>6. rows' \in Seq(HistRow) /\ Lams(rows') \subseteq {lamport + 1} \cup Lams(rows)
    BY <1>1, <1>4, <1>5, LeftByBoth
<1>7. lamport + 1 \in (lamport + 1) .. lamport' /\ lamport' \in Nat /\ lamport <= lamport'
    BY <1>1, <1>4
<1>8. /\ Publish(rows', wipeGen)
      /\ UNCHANGED <<wipeGen, aged, driver, persister, disk, wiped>>
    BY DEF CopyText, user
<1> QED BY <1>4, <1>6, <1>7, <1>8, MemoryStep

LEMMA PinsStep ==
    ASSUME VaultAssumption, VaultInv, NEW x \in Texts, NEW f \in BOOLEAN, SetPin(x, f)
    PROVE  VaultInv'
<1>1. rows \in Seq(HistRow) /\ lamport \in Nat
    BY DEF VaultInv, VaultTyped
<1>2. rows' = [i \in DOMAIN rows |-> IF rows[i].text = x THEN [rows[i] EXCEPT !.fav = f] ELSE rows[i]]
    BY DEF SetPin
<1>3. \A i \in DOMAIN rows : rows[i] \in HistRow
    BY <1>1
<1>4. DOMAIN rows' = DOMAIN rows
    BY <1>2
<1>5. ASSUME NEW i \in DOMAIN rows PROVE rows'[i] \in HistRow /\ rows'[i].lam = rows[i].lam
    BY <1>2, <1>3 DEF HistRow
<1>6. rows' \in Seq(HistRow)
  <2>1. DOMAIN rows = 1 .. Len(rows) /\ Len(rows) \in Nat
      BY <1>1
  <2>2. rows' \in [1 .. Len(rows) -> HistRow]
      BY <1>2, <1>5, <2>1
  <2> QED BY <2>1, <2>2
<1>7. Lams(rows') = Lams(rows)
    BY <1>4, <1>5 DEF Lams
<1>8. /\ Publish(rows', wipeGen) /\ driver = "loop" /\ lamport' = lamport
      /\ UNCHANGED <<wipeGen, aged, driver, persister, disk, wiped>>
    BY DEF SetPin
<1> QED BY <1>1, <1>6, <1>7, <1>8, MemoryStep

LEMMA ExpiryStep == ASSUME VaultInv, ExpireTick PROVE VaultInv'
<1>1. rows \in Seq(HistRow) /\ lamport \in Nat
    BY DEF VaultInv, VaultTyped
<1>2. rows' = Unexpired(aged, rows)
    BY DEF ExpireTick
<1>3. rows' \in Seq(HistRow) /\ Lams(rows') \subseteq Lams(rows)
    BY <1>1, <1>2, LeftByBoth
<1>4. /\ Publish(rows', wipeGen) /\ driver = "loop" /\ lamport' = lamport
      /\ UNCHANGED <<wipeGen, aged, driver, persister, disk, wiped>>
    BY DEF ExpireTick, user
<1> QED BY <1>1, <1>3, <1>4, MemoryStep

\* A clear waits for the persister: until its job is done the generations differ.
LEMMA ClearStep ==
    ASSUME VaultInv, NEW favorites \in BOOLEAN, ClearAll(favorites) PROVE VaultInv'
<1> USE DEF persister, disk
<1> DEFINE I == {i \in DOMAIN rows : rows[i].fav}
<1>1. /\ driver = "loop" /\ rows' = IF favorites THEN <<>> ELSE At(rows, I)
      /\ wipeGen' = wipeGen + 1 /\ wiped' = wiped \cup (Lams(rows) \ Lams(rows'))
      /\ Publish(rows', wipeGen') /\ UNCHANGED <<lamport, aged, driver, persister, disk>>
    BY DEF ClearAll
<1>2. rows \in Seq(HistRow) /\ wipeGen \in Nat /\ lastGen \in Nat
    BY DEF VaultInv, VaultTyped
<1>3. At(rows, I) \in Seq(HistRow) /\ Lams(At(rows, I)) \subseteq Lams(rows)
  <2>1. I \in SUBSET DOMAIN rows
      OBVIOUS
  <2>2. {rows[i].lam : i \in I} \subseteq Lams(rows)
      BY <2>1 DEF Lams
  <2> HIDE DEF I
  <2> QED BY <1>2, <2>1, <2>2, AtLams
<1>4. rows' \in Seq(HistRow) /\ Lams(rows') \subseteq Lams(rows)
    BY <1>1, <1>3, NoRows
<1>5. pub' = State_(rows', wipeGen') /\ pub'.hist = rows' /\ pub'.gen = wipeGen'
    BY <1>1 DEF Publish, State_
<1>6. pub.gen = wipeGen
    BY <1>1 DEF VaultInv, Generations, State_
<1>7. VaultTyped'
  <2>1. pub' \in [hist : Seq(HistRow), gen : Nat]
      BY <1>1, <1>2, <1>4, <1>5 DEF State_
  <2>2. Lams(rows) \subseteq 1 .. lamport /\ wiped \subseteq 1 .. lamport
      BY DEF VaultInv, VaultTyped, HistRows
  <2>3. Lams(rows') \subseteq 1 .. lamport /\ wiped' \subseteq 1 .. lamport
      BY <1>1, <1>4, <2>2
  <2>4. \A s \in HistRows' : Lams(s) \subseteq 1 .. lamport
      BY <1>1, <1>5, <2>3 DEF VaultInv, VaultTyped, HistRows
  <2> HIDE DEF I
  <2> QED BY <1>1, <1>2, <1>4, <2>1, <2>3, <2>4 DEF VaultInv, VaultTyped
<1>8. Generations'
    BY <1>1, <1>2, <1>5, <1>6 DEF VaultInv, VaultTyped, Generations
<1>9. lastGen' # wipeGen' /\ (job.at # "idle" => job.gen # wipeGen')
    BY <1>1, <1>2, <1>6 DEF VaultInv, VaultTyped, Generations
<1>10. JobIsSound'
    BY <1>1, <1>9 DEF VaultInv, JobIsSound
<1>11. DiskIsSound'
    BY <1>1, <1>4, <1>9 DEF VaultInv, DiskIsSound, Clean
<1> QED BY <1>7, <1>8, <1>10, <1>11 DEF VaultInv

LEMMA WipeStep == ASSUME VaultInv, SecurityWipe PROVE VaultInv'
<1> USE DEF persister, disk
<1>1. /\ driver = "loop" /\ rows' = <<>> /\ wipeGen' = wipeGen + 1 /\ driver' = "tmp"
      /\ wiped' = wiped \cup 1 .. lamport
      /\ UNCHANGED <<lamport, aged, pub, persister, disk>>
    BY DEF SecurityWipe
<1>2. wipeGen \in Nat /\ lastGen \in Nat /\ pub.gen = wipeGen
    BY <1>1 DEF VaultInv, VaultTyped, Generations, State_
<1>3. VaultTyped'
    BY <1>1, NoRows DEF VaultInv, VaultTyped, HistRows
<1>4. Generations'
    BY <1>1, <1>2 DEF VaultInv, VaultTyped, Generations
<1>5. lastGen' # wipeGen' /\ (job.at # "idle" => job.gen # wipeGen')
    BY <1>1, <1>2 DEF VaultInv, VaultTyped, Generations
<1>6. JobIsSound'
    BY <1>1, <1>5 DEF VaultInv, JobIsSound
<1>7. DiskIsSound'
    BY <1>1, <1>5, NoRows DEF VaultInv, DiskIsSound
<1> QED BY <1>3, <1>4, <1>6, <1>7 DEF VaultInv

\* The deletion by the loop itself comes before the state is published: until then
\* the persister has not seen this wipe.
LEMMA DeletionStep ==
    ASSUME VaultInv, WipeTmp \/ WipeFile \/ WipeFails PROVE VaultInv'
<1> USE DEF persister, memory, user
<1>1. /\ driver \in {"tmp", "file"} /\ driver' \in {"file", "loop"}
      /\ file' \in {file, <<>>} /\ tmp' \in {tmp, NoTmp}
      /\ driver' = "file" => UNCHANGED pub
      /\ driver' = "loop" => pub' = State_(rows, wipeGen)
      /\ UNCHANGED <<memory, persister, wiped>>
    BY DEF WipeTmp, WipeFile, WipeFails, disk, Publish
<1>2. wipeGen \in Nat /\ lastGen \in Nat /\ pub.gen \in Nat /\ lastGen # wipeGen
    BY <1>1 DEF VaultInv, VaultTyped, Generations
<1>3. State_(rows, wipeGen).hist = rows /\ State_(rows, wipeGen).gen = wipeGen
    BY DEF State_
<1>4. NoTmp \in [there : BOOLEAN, out : Seq(HistRow)] /\ NoTmp.out = <<>> /\ ~NoTmp.there
    BY NoRows DEF NoTmp
<1>5. VaultTyped'
  <2>1. pub' \in [hist : Seq(HistRow), gen : Nat] /\ pub'.hist \in {pub.hist, rows}
      BY <1>1, <1>3 DEF VaultInv, VaultTyped, State_
  <2>2. file' \in Seq(HistRow) /\ tmp' \in [there : BOOLEAN, out : Seq(HistRow)]
      BY <1>1, <1>4, NoRows DEF VaultInv, VaultTyped
  <2>3. Lams(file') \subseteq 1 .. lamport /\ Lams(tmp'.out) \subseteq 1 .. lamport
      BY <1>1, <1>4, NoRows DEF VaultInv, VaultTyped, HistRows
  <2> QED BY <1>1, <2>1, <2>2, <2>3 DEF VaultInv, VaultTyped, HistRows
<1>6. Generations'
    BY <1>1, <1>2, <1>3 DEF VaultInv, VaultTyped, Generations
<1>7. JobIsSound'
    BY <1>1, <1>4 DEF VaultInv, JobIsSound
<1>8. DiskIsSound'
    BY <1>1, <1>2 DEF VaultInv, DiskIsSound
<1> QED BY <1>5, <1>6, <1>7, <1>8 DEF VaultInv

LEMMA GrowStep == ASSUME VaultAssumption, VaultInv, NEW l, Grow(l) PROVE VaultInv'
<1> USE DEF persister, disk
<1>1. /\ aged \subseteq aged'
      /\ UNCHANGED <<rows, wipeGen, lamport, pub, driver, persister, disk, wiped>>
    BY DEF Grow, user
<1>2. DiskCap \in Nat
    BY DEF VaultAssumption
<1>3. last \in Seq(HistRow) /\ job.hist \in Seq(HistRow)
    BY DEF VaultInv, VaultTyped
<1>4. VaultTyped' /\ Generations'
    BY <1>1 DEF VaultInv, VaultTyped, HistRows, Generations
<1>5. Holds(tmp.out, job.hist, aged) => Holds(tmp.out, job.hist, aged')
    BY <1>1, <1>2, <1>3, HoldsLonger
<1>6. Holds(file, last, aged) => Holds(file, last, aged')
    BY <1>1, <1>2, <1>3, HoldsLonger
<1>7. JobIsSound' /\ DiskIsSound'
    BY <1>1, <1>5, <1>6 DEF VaultInv, JobIsSound, DiskIsSound
<1> QED BY <1>4, <1>7 DEF VaultInv

LEMMA StopStep == ASSUME VaultInv, Stop \/ UNCHANGED vaultVars PROVE VaultInv'
<1> USE DEF persister, disk, memory, user, vaultVars
<1>1. /\ driver' = driver \/ (driver = "loop" /\ driver' = "off")
      /\ UNCHANGED <<memory, pub, persister, disk, wiped>>
    BY DEF Stop
<1>2. VaultTyped' /\ Generations'
    BY <1>1 DEF VaultInv, VaultTyped, HistRows, Generations
<1>3. JobIsSound' /\ DiskIsSound'
    BY <1>1 DEF VaultInv, JobIsSound, DiskIsSound
<1> QED BY <1>2, <1>3 DEF VaultInv

\* The persister sets out on what was published.
LEMMA BeginStep ==
    ASSUME VaultAssumption, VaultInv, Begin(pub), job.at = "idle",
           UNCHANGED <<memory, pub, driver, lastGen, disk, wiped>>
    PROVE  VaultInv'
<1> USE DEF disk, memory
<1> DEFINE wipe == pub.gen # lastGen
<1> DEFINE es == IF wipe THEN <<>> ELSE entries
<1> DEFINE was == IF wipe THEN <<>> ELSE last
<1>1. /\ entries' = es /\ last' = was
      /\ job' = IF wipe /\ pub.hist = <<>> THEN [IdleJob EXCEPT !.at = "clearTmp", !.gen = pub.gen]
                ELSE IF pub.hist = was THEN IdleJob
                ELSE [at |-> "write", hist |-> pub.hist, gen |-> pub.gen,
                      out |-> Rebuild(pub.hist, es), bySave |-> wipe]
      /\ UNCHANGED <<memory, pub, driver, lastGen, disk, wiped>>
    BY DEF Begin
<1>2. /\ pub.hist \in Seq(HistRow) /\ pub.gen \in Nat /\ Lams(pub.hist) \subseteq 1 .. lamport
      /\ entries \in Seq(HistRow) /\ Lams(entries) \subseteq 1 .. lamport
      /\ last \in Seq(HistRow) /\ Lams(last) \subseteq 1 .. lamport
      /\ lastGen \in Nat /\ lastGen <= pub.gen
    BY DEF VaultInv, VaultTyped, HistRows, Generations
<1>3. /\ es \in Seq(HistRow) /\ Lams(es) \subseteq 1 .. lamport
      /\ was \in Seq(HistRow) /\ Lams(was) \subseteq 1 .. lamport
    BY <1>2, NoRows
<1> DEFINE out == Rebuild(pub.hist, es)
<1>4. /\ out \in Seq(HistRow) /\ Len(pub.hist) <= Len(out)
      /\ \A i \in DOMAIN pub.hist : out[i] = pub.hist[i]
      /\ Lams(out) \subseteq Lams(pub.hist) \cup Lams(es)
    BY <1>2, <1>3, RebuildIs
<1>5. pub.gen = wipeGen => Clean(pub.hist, wiped) /\ Clean(es, wiped)
  <2> SUFFICES ASSUME pub.gen = wipeGen PROVE Clean(pub.hist, wiped) /\ Clean(es, wiped)
      OBVIOUS
  <2>1. wipeGen \in Nat
      BY DEF VaultInv, VaultTyped
  <2>2. pub.hist = rows
      BY <2>1 DEF VaultInv, VaultTyped, Generations, State_
  <2> QED BY <2>2, NoRows DEF VaultInv, DiskIsSound
<1>6. pub.gen = wipeGen => Clean(out, wiped)
    BY <1>4, <1>5 DEF Clean
<1> HIDE DEF out
<1>7. /\ IdleJob = [at |-> "idle", hist |-> <<>>, gen |-> 0, out |-> <<>>, bySave |-> FALSE]
      /\ <<>> \in Seq(HistRow) /\ Lams(<<>>) = {}
    BY NoRows DEF IdleJob
<1>8. CASE wipe /\ pub.hist = <<>>
  <2>1. job' = [at |-> "clearTmp", hist |-> <<>>, gen |-> pub.gen, out |-> <<>>, bySave |-> FALSE]
      BY <1>1, <1>8, <1>7
  <2>2. VaultTyped'
    <3>1. /\ job' \in [at : {"idle", "clearTmp"}, hist : Seq(HistRow), gen : Nat,
                      out : Seq(HistRow), bySave : BOOLEAN]
          /\ job'.hist = <<>> /\ job'.out = <<>>
        BY <1>2, <1>7, <2>1
    <3>2. \A s \in HistRows' : Lams(s) \subseteq 1 .. lamport
        BY <1>1, <1>3, <1>7, <3>1 DEF VaultInv, VaultTyped, HistRows
    <3> QED BY <1>1, <1>3, <3>1, <3>2 DEF VaultInv, VaultTyped
  <2>3. Generations'
      BY <1>1, <1>2, <2>1 DEF VaultInv, Generations
  <2>4. JobIsSound'
      BY <1>1, <1>8, <2>1 DEF VaultInv, JobIsSound
  <2>5. lastGen' # wipeGen'
      BY <1>1, <1>2, <1>8 DEF VaultInv, VaultTyped, Generations
  <2>6. DiskIsSound'
      BY <1>1, <2>5 DEF VaultInv, DiskIsSound
  <2> QED BY <2>2, <2>3, <2>4, <2>6 DEF VaultInv
<1>9. CASE ~(wipe /\ pub.hist = <<>>) /\ pub.hist = was
  <2>1. job' = IdleJob
      BY <1>1, <1>9
  <2>2. VaultTyped'
    <3>1. /\ job' \in [at : {"idle", "clearTmp"}, hist : Seq(HistRow), gen : Nat,
                      out : Seq(HistRow), bySave : BOOLEAN]
          /\ job'.hist = <<>> /\ job'.out = <<>>
        BY <1>2, <1>7, <2>1
    <3>2. \A s \in HistRows' : Lams(s) \subseteq 1 .. lamport
        BY <1>1, <1>3, <1>7, <3>1 DEF VaultInv, VaultTyped, HistRows
    <3> QED BY <1>1, <1>3, <3>1, <3>2 DEF VaultInv, VaultTyped
  <2>3. Generations'
      BY <1>1, <1>2, <1>7, <2>1 DEF VaultInv, Generations
  <2>4. JobIsSound'
      BY <1>7, <2>1 DEF JobIsSound
  <2>5. ~wipe
      BY <1>9
  <2>6. DiskIsSound'
      BY <1>1, <2>5 DEF VaultInv, DiskIsSound
  <2> QED BY <2>2, <2>3, <2>4, <2>6 DEF VaultInv
<1>10. CASE ~(wipe /\ pub.hist = <<>>) /\ pub.hist # was
  <2>1. job' = [at |-> "write", hist |-> pub.hist, gen |-> pub.gen, out |-> out, bySave |-> wipe]
      BY <1>1, <1>10 DEF out
  <2>2. Lams(out) \subseteq 1 .. lamport
      BY <1>2, <1>3, <1>4
  <2> HIDE DEF wipe, es, was
  <2>0. /\ job'.at = "write" /\ job'.hist = pub.hist /\ job'.gen = pub.gen
        /\ job'.out = out /\ job'.bySave = wipe /\ wipe \in BOOLEAN
      BY <2>1, Zenon DEF wipe
  <2>3. VaultTyped'
    <3>1. job' \in [at : {"write"}, hist : Seq(HistRow), gen : Nat, out : Seq(HistRow),
                    bySave : BOOLEAN]
        BY <1>2, <1>4, <2>0, <2>1
    <3>2. \A s \in HistRows' : Lams(s) \subseteq 1 .. lamport
        BY <1>1, <1>3, <2>0, <2>2 DEF VaultInv, VaultTyped, HistRows
    <3> QED BY <1>1, <1>3, <3>1, <3>2 DEF VaultInv, VaultTyped
  <2>4. Generations'
      BY <1>1, <1>2, <2>1 DEF VaultInv, Generations
  <2>5. JobIsSound'
      BY <1>1, <1>4, <1>6, <2>0 DEF JobIsSound, wipe
  <2>6. CASE wipe
    <3>1. lastGen' # wipeGen'
        BY <1>1, <1>2, <2>6 DEF VaultInv, VaultTyped, Generations, wipe
    <3> QED BY <1>1, <2>3, <2>4, <2>5, <3>1 DEF VaultInv, DiskIsSound
  <2>7. CASE ~wipe
    <3>1. entries' = entries /\ last' = last
        BY <1>1, <2>7 DEF es, was
    <3> QED BY <1>1, <2>3, <2>4, <2>5, <3>1 DEF VaultInv, DiskIsSound
  <2> QED BY <2>6, <2>7
<1> QED BY <1>8, <1>9, <1>10

LEMMA ClearingStep == ASSUME VaultAssumption, VaultInv, ClearTmp \/ ClearFile PROVE VaultInv'
<1> USE DEF disk, memory, persister, user
<1>1. CASE ClearTmp
  <2>1. /\ job.at = "clearTmp" /\ job' = [job EXCEPT !.at = "clearFile"] /\ tmp' = NoTmp
        /\ UNCHANGED <<memory, pub, driver, last, entries, lastGen, file, wiped>>
      BY <1>1 DEF ClearTmp
  <2>2. /\ job' \in [at : {"clearFile"}, hist : {job.hist}, gen : {job.gen}, out : {job.out},
                     bySave : {job.bySave}]
      BY <2>1 DEF VaultInv, VaultTyped
  <2>3. NoTmp \in [there : BOOLEAN, out : Seq(HistRow)] /\ Lams(NoTmp.out) = {}
      BY NoRows DEF NoTmp
  <2>4. VaultTyped'
      BY <2>1, <2>2, <2>3 DEF VaultInv, VaultTyped, HistRows
  <2>5. Generations'
      BY <2>1, <2>2 DEF VaultInv, Generations
  <2>6. JobIsSound' /\ DiskIsSound'
      BY <2>1, <2>2 DEF VaultInv, JobIsSound, DiskIsSound
  <2> QED BY <2>4, <2>5, <2>6 DEF VaultInv
<1>2. CASE ClearFile
  <2>1. /\ job.at = "clearFile" /\ file' = <<>> /\ lastGen' = job.gen /\ job' = IdleJob
        /\ UNCHANGED <<memory, pub, driver, last, entries, tmp, wiped>>
      BY <1>2 DEF ClearFile
  <2>2. /\ IdleJob = [at |-> "idle", hist |-> <<>>, gen |-> 0, out |-> <<>>, bySave |-> FALSE]
        /\ <<>> \in Seq(HistRow) /\ Lams(<<>>) = {}
      BY NoRows DEF IdleJob
  <2>3. VaultTyped'
      BY <2>1, <2>2 DEF VaultInv, VaultTyped, HistRows
  <2>4. Generations'
      BY <2>1, <2>2 DEF VaultInv, Generations
  <2>5. JobIsSound'
      BY <2>1, <2>2 DEF JobIsSound
  <2>6. last = <<>> /\ entries = <<>> /\ DiskCap \in Nat
      BY <2>1 DEF VaultInv, JobIsSound, VaultAssumption
  <2>7. DiskIsSound'
      BY <2>1, <2>6, NoRows DEF VaultInv, DiskIsSound
  <2> QED BY <2>3, <2>4, <2>5, <2>7 DEF VaultInv
<1> QED BY <1>1, <1>2

\* The save: the temporary file has of the window what the cap and the retention
\* leave, and nothing but what was set out with.
LEMMA WriteStep == ASSUME VaultAssumption, VaultInv, WriteTmp PROVE VaultInv'
<1> USE DEF disk, memory, persister, user
<1> DEFINE left == UpTo(DiskCap, Unexpired(aged, job.out))
<1>1. /\ job.at = "write" /\ job' = [job EXCEPT !.at = "rename"]
      /\ tmp' = [there |-> TRUE, out |-> left]
      /\ UNCHANGED <<memory, pub, driver, last, entries, lastGen, file, wiped>>
    BY DEF WriteTmp
<1>2. /\ job.out \in Seq(HistRow) /\ job.hist \in Seq(HistRow) /\ DiskCap \in Nat
      /\ Len(job.hist) <= Len(job.out) /\ \A i \in DOMAIN job.hist : job.out[i] = job.hist[i]
    BY <1>1 DEF VaultInv, VaultTyped, JobIsSound, VaultAssumption
<1>3. left \in Seq(HistRow) /\ Lams(left) \subseteq Lams(job.out)
  <2>1. Unexpired(aged, job.out) \in Seq(HistRow) /\ Lams(Unexpired(aged, job.out)) \subseteq Lams(job.out)
      BY <1>2, LeftByBoth
  <2> QED BY <1>2, <2>1, LeftByBoth
<1>4. Holds(left, job.hist, aged)
    BY <1>2, ExpiredThenCut DEF Holds
<1>5. job' \in [at : {"rename"}, hist : {job.hist}, gen : {job.gen}, out : {job.out},
                bySave : {job.bySave}]
    BY <1>1 DEF VaultInv, VaultTyped
<1> HIDE DEF left
<1>6. VaultTyped'
    BY <1>1, <1>3, <1>5 DEF VaultInv, VaultTyped, HistRows
<1>7. Generations'
    BY <1>1, <1>5 DEF VaultInv, Generations
<1>8. JobIsSound'
    BY <1>1, <1>3, <1>4, <1>5 DEF VaultInv, JobIsSound
<1>9. DiskIsSound'
    BY <1>1 DEF VaultInv, DiskIsSound
<1> QED BY <1>6, <1>7, <1>8, <1>9 DEF VaultInv

LEMMA RenameStep == ASSUME VaultInv, Rename PROVE VaultInv'
<1> USE DEF disk, memory, persister, user
<1>1. /\ job.at = "rename" /\ tmp.there /\ file' = tmp.out /\ tmp' = NoTmp
      /\ entries' = job.out /\ last' = job.hist
      /\ lastGen' = IF job.bySave THEN job.gen ELSE lastGen
      /\ job' = IdleJob
      /\ UNCHANGED <<memory, pub, driver, wiped>>
    BY DEF Rename
<1>2. /\ IdleJob = [at |-> "idle", hist |-> <<>>, gen |-> 0, out |-> <<>>, bySave |-> FALSE]
      /\ NoTmp = [there |-> FALSE, out |-> <<>>] /\ <<>> \in Seq(HistRow) /\ Lams(<<>>) = {}
    BY NoRows DEF IdleJob, NoTmp
<1>3. lastGen' = job.gen
    BY <1>1 DEF VaultInv, JobIsSound
<1>4. VaultTyped'
    BY <1>1, <1>2, <1>3 DEF VaultInv, VaultTyped, HistRows
<1>5. Generations'
    BY <1>1, <1>2, <1>3 DEF VaultInv, Generations
<1>6. JobIsSound'
    BY <1>1, <1>2 DEF JobIsSound
<1>7. job.gen = wipeGen => Clean(tmp.out, wiped)
    BY <1>1 DEF VaultInv, JobIsSound, Clean
<1>8. DiskIsSound'
    BY <1>1, <1>3, <1>7 DEF VaultInv, DiskIsSound, JobIsSound
<1> QED BY <1>4, <1>5, <1>6, <1>8 DEF VaultInv

LEMMA FailureStep == ASSUME VaultInv, RenameFails \/ SaveFails PROVE VaultInv'
<1> USE DEF disk, memory, persister, user
<1>1. /\ job' = IdleJob
      /\ UNCHANGED <<memory, pub, driver, last, entries, lastGen, disk, wiped>>
    BY DEF RenameFails, SaveFails
<1>2. /\ IdleJob = [at |-> "idle", hist |-> <<>>, gen |-> 0, out |-> <<>>, bySave |-> FALSE]
      /\ <<>> \in Seq(HistRow) /\ Lams(<<>>) = {}
    BY NoRows DEF IdleJob
<1>3. VaultTyped'
    BY <1>1, <1>2 DEF VaultInv, VaultTyped, HistRows
<1>4. Generations' /\ JobIsSound' /\ DiskIsSound'
    BY <1>1, <1>2 DEF VaultInv, Generations, JobIsSound, DiskIsSound
<1> QED BY <1>3, <1>4 DEF VaultInv

\* A start: what was loaded is in the file, and what is in the file is back.
LEMMA BootStep == ASSUME VaultAssumption, VaultInv, VaultBoot PROVE VaultInv'
<1> USE DEF disk, memory, persister, user
<1> DEFINE loaded == Unexpired(aged, file)
<1>1. /\ rows' = UpTo(HistCap, loaded) /\ wipeGen' = 0
      /\ pub' = State_(rows', 0) /\ driver' = "loop"
      /\ last' = rows' /\ entries' = loaded /\ lastGen' = 0
      /\ job' = IdleJob /\ wiped' = wiped \ Lams(file)
      /\ UNCHANGED <<lamport, aged, disk>>
    BY DEF VaultBoot
<1>2. file \in Seq(HistRow) /\ Lams(file) \subseteq 1 .. lamport /\ {HistCap, DiskCap} \subseteq Nat
    BY DEF VaultInv, VaultTyped, HistRows, VaultAssumption
<1>3. loaded \in Seq(HistRow) /\ Lams(loaded) \subseteq Lams(file)
    BY <1>2, LeftByBoth
<1>4. rows' \in Seq(HistRow) /\ Lams(rows') \subseteq Lams(file)
    BY <1>1, <1>2, <1>3, LeftByBoth
<1> HIDE DEF loaded
<1>5. /\ IdleJob = [at |-> "idle", hist |-> <<>>, gen |-> 0, out |-> <<>>, bySave |-> FALSE]
      /\ <<>> \in Seq(HistRow) /\ Lams(<<>>) = {}
    BY NoRows DEF IdleJob
<1>6. pub'.hist = rows' /\ pub'.gen = 0 /\ pub' \in [hist : Seq(HistRow), gen : Nat]
    BY <1>1, <1>4 DEF State_
<1>7. VaultTyped'
  <2>1. \A s \in HistRows' : Lams(s) \subseteq 1 .. lamport
    <3>1. HistRows' = {rows', <<>>, loaded, file, tmp.out}
        BY <1>1, <1>5, <1>6 DEF HistRows
    <3>2. Lams(tmp.out) \subseteq 1 .. lamport
        BY DEF VaultInv, VaultTyped, HistRows
    <3> QED BY <1>2, <1>3, <1>4, <1>5, <3>1, <3>2
  <2>2. wiped' \subseteq 1 .. lamport
      BY <1>1 DEF VaultInv, VaultTyped
  <2> QED BY <1>1, <1>3, <1>4, <1>5, <1>6, <2>1, <2>2 DEF VaultInv, VaultTyped
<1>8. Generations' /\ JobIsSound'
    BY <1>1, <1>5, <1>6 DEF Generations, JobIsSound
<1>9. Clean(rows', wiped') /\ Clean(file, wiped') /\ Clean(loaded, wiped')
    BY <1>1, <1>3, <1>4 DEF Clean
<1>10. Holds(file, rows', aged)
  <2>1. UpTo(DiskCap, rows') \in Seq(HistRow) /\ Lams(UpTo(DiskCap, rows')) \subseteq Lams(rows')
      BY <1>2, <1>4, LeftByBoth
  <2>2. Lams(Unexpired(aged, UpTo(DiskCap, rows'))) \subseteq Lams(UpTo(DiskCap, rows'))
      BY <1>2, <2>1, LeftByBoth
  <2> QED BY <1>4, <2>1, <2>2 DEF Holds
<1>11. DiskIsSound'
    BY <1>1, <1>9, <1>10 DEF DiskIsSound
<1> QED BY <1>7, <1>8, <1>11 DEF VaultInv

LEMMA VaultStep == VaultInv /\ [VaultNext]_vaultVars => VaultInv'
<1> SUFFICES ASSUME VaultInv, [VaultNext]_vaultVars PROVE VaultInv'
    OBVIOUS
<1> USE VaultAssumption
<1>1. ASSUME NEW x \in Texts, CopyText(x) PROVE VaultInv'
    BY <1>1, CopyStep
<1>2. ASSUME NEW x \in Texts, NEW f \in BOOLEAN, SetPin(x, f) PROVE VaultInv'
    BY <1>2, PinsStep
<1>3. ASSUME NEW l \in 1 .. lamport, Grow(l) PROVE VaultInv'
    BY <1>3, GrowStep
<1>4. ASSUME NEW f \in BOOLEAN, ClearAll(f) PROVE VaultInv'
    BY <1>4, ClearStep
<1>5. CASE ExpireTick
    BY <1>5, ExpiryStep
<1>6. CASE SecurityWipe
    BY <1>6, WipeStep
<1>7. CASE WipeTmp \/ WipeFile \/ WipeFails
    BY <1>7, DeletionStep
<1>8. CASE Stop \/ UNCHANGED vaultVars
    BY <1>8, StopStep
<1>9. CASE Wake \/ FinalFlush
  <2>1. job.at = "idle" /\ Begin(pub) /\ UNCHANGED <<memory, pub, driver, lastGen, disk, wiped>>
      BY <1>9 DEF Wake, FinalFlush, user
  <2> QED BY <2>1, BeginStep
<1>10. CASE ClearTmp \/ ClearFile
    BY <1>10, ClearingStep
<1>11. CASE WriteTmp
    BY <1>11, WriteStep
<1>12. CASE Rename
    BY <1>12, RenameStep
<1>13. CASE RenameFails \/ SaveFails
    BY <1>13, FailureStep
<1>14. CASE VaultBoot
    BY <1>14, BootStep
<1> QED BY <1>1, <1>2, <1>3, <1>4, <1>5, <1>6, <1>7, <1>8, <1>9, <1>10, <1>11, <1>12, <1>13,
           <1>14 DEF VaultNext

LEMMA VaultStart == VaultInit => VaultInv
<1> SUFFICES ASSUME VaultInit PROVE VaultInv
    OBVIOUS
<1>1. /\ rows = <<>> /\ wipeGen = 0 /\ lamport = 0
      /\ pub = [hist |-> <<>>, gen |-> 0] /\ driver = "loop"
      /\ last = <<>> /\ entries = <<>> /\ lastGen = 0
      /\ job = [at |-> "idle", hist |-> <<>>, gen |-> 0, out |-> <<>>, bySave |-> FALSE]
      /\ file = <<>> /\ tmp = [there |-> FALSE, out |-> <<>>] /\ wiped = {}
    BY DEF VaultInit, State_, IdleJob, NoTmp
<1>2. <<>> \in Seq(HistRow) /\ Lams(<<>>) = {} /\ DiskCap \in Nat
    BY NoRows, VaultAssumption DEF VaultAssumption
<1>3. VaultTyped
    BY <1>1, <1>2 DEF VaultTyped, HistRows
<1>4. Generations /\ JobIsSound
    BY <1>1 DEF Generations, JobIsSound, State_
<1>5. DiskIsSound
    BY <1>1, <1>2, NoRows DEF DiskIsSound
<1> QED BY <1>3, <1>4, <1>5 DEF VaultInv

\* However the loop's deletion, the persister's saves, failed writes, crashes and
\* shutdowns interleave: when the persister takes the disk to be up to date, the file
\* has every published row within the cap and the retention, and none that a wipe or
\* a clear removed (persist_history_change, sync_security_wipe_if_needed).
THEOREM TheDiskFollows == VaultSpec => []DiskFollows
<1>1. VaultInv => DiskFollows
  <2> SUFFICES ASSUME VaultInv, UpToDate
               PROVE  /\ Lams(Unexpired(aged, UpTo(DiskCap, pub.hist))) \subseteq Lams(file)
                      /\ Lams(file) \cap wiped = {}
      BY DEF DiskFollows
  <2>1. last = pub.hist /\ lastGen = pub.gen /\ pub.gen = wipeGen
      BY DEF VaultInv, Generations, UpToDate, State_
  <2> QED BY <2>1 DEF VaultInv, DiskIsSound, Holds, Clean
<1> QED BY VaultStart, VaultStep, <1>1, PTL DEF VaultSpec
=============================================================================
