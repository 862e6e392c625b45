------------------------------ MODULE Keystore ------------------------------
(***************************************************************************)
(* Where the daemon keeps its identity and its settings: the keychain of   *)
(* the operating system, identity.bin, peers.json and the settings files   *)
(* (keystore.rs, fsutil.rs, main.rs, the loads at the head of driver::run, *)
(* the Set commands of commands.rs).                                       *)
(*                                                                         *)
(* A step is one access to the keychain or one change of a file, and the   *)
(* daemon may die between any two.  write_atomic replaces a file or leaves *)
(* it as it was.  An identity is a number; a setting is one of two values. *)
(***************************************************************************)
EXTENDS Integers, FiniteSets

CONSTANTS
    MaxIdentities,      \* bound on the identities generated
    MaxCommands,        \* bound on the settings commands
    MaxKeystoreFaults   \* bound on crashes, failed accesses and corruptions

ASSUME KeystoreAssumption == {MaxIdentities, MaxCommands, MaxKeystoreFaults} \subseteq Nat

VARIABLES
    chain,     \* the keychain entry
    idFile,    \* identity.bin
    peersFile, \* peers.json: "ok" or "corrupt"
    stored,    \* the settings files
    live,      \* the settings in memory
    shown,     \* the settings clients have last been told
    command,   \* the Set command under way, or cut short
    at,        \* where the start-up is, "down" or "up"
    mode,      \* "keychain", or "file": FLUXSYNC_NO_KEYCHAIN, Android
    self,      \* the identity this start works with
    minted,    \* identities generated so far
    cmds, keystoreFaults,
    used,      \* history: the identities a daemon has run under
    lied,      \* history: the keychain took a secret and did not keep it
    forked,    \* history: an identity was made beside one that was there
    unsaved    \* history: the settings a failed write or a corruption has hit

idVars == <<chain, idFile, mode, self, minted, used, lied, forked>>
setVars == <<stored, live, shown, command, cmds, unsaved>>
keystoreVars == <<idVars, setVars, peersFile, at, keystoreFaults>>

Nothing == 0        \* no entry, no file
Garbage == -1       \* does not decode, or has the wrong length
Zeros == -2         \* overwritten: from_secret_bytes refuses it
Identities == 1 .. MaxIdentities
Settings == {"firewall", "device_name", "history_retention"}
Default == "default"
Ask == "ask"        \* a rule only an older version saved
Values == {Default, "other"}
Damaged == "damaged" \* a settings file that does not parse
NoCommand == [step |-> "none", on |-> "none", value |-> Default]

\* FirewallPolicy::normalized: what an older version asked about is denied.
Normalized(value) == IF value = Ask THEN "other" ELSE value

\* A first start, or the first after versions that kept the identity in a file.
KeystoreInit ==
    /\ chain = Nothing /\ idFile \in {Nothing, 1} /\ minted = idFile
    /\ used = Identities \cap {idFile} /\ lied = FALSE /\ forked = FALSE
    /\ peersFile = "ok" /\ at = "down" /\ mode = "keychain" /\ self = Nothing
    /\ stored \in [Settings -> {Default, Ask}]
    /\ \A s \in Settings \ {"firewall"} : stored[s] = Default
    /\ live = [s \in Settings |-> Default]
    /\ shown = [s \in Settings |-> Normalized(stored[s])]
    /\ command = NoCommand /\ cmds = MaxCommands
    /\ keystoreFaults = MaxKeystoreFaults /\ unsaved = {}

KeystoreFault == keystoreFaults > 0 /\ keystoreFaults' = keystoreFaults - 1
Sound == UNCHANGED keystoreFaults

\* The start goes on at step a, with identity i.
Goes(a, i) ==
    /\ at' = a /\ self' = i
    /\ UNCHANGED <<setVars, peersFile, mode, used>>

Refuses ==
    /\ at' = "down"
    /\ UNCHANGED <<idVars, setVars, peersFile>>

-----------------------------------------------------------------------------
\* load_or_create_identity.

BootWith(m) ==
    /\ at = "down"
    /\ at' = IF m = "file" THEN "file" ELSE "chain"
    /\ mode' = m
    /\ UNCHANGED <<chain, idFile, self, minted, used, lied, forked, setVars, peersFile>>
    /\ Sound

\* FLUXSYNC_NO_KEYCHAIN and Android: the file, read or refused, ...
ReadFile ==
    /\ at = "file" /\ idFile # Nothing /\ Sound
    /\ IF idFile \in Identities
       THEN Goes("peers", idFile) /\ UNCHANGED <<chain, idFile, minted, lied, forked>>
       ELSE Refuses

\* ... or a new one, whatever the keychain holds.
GenerateInFile ==
    /\ at = "file" /\ idFile = Nothing /\ minted < MaxIdentities
    /\ minted' = minted + 1
    /\ \/ Sound /\ Goes("peers", minted + 1) /\ idFile' = minted + 1
       \/ KeystoreFault /\ Goes("down", self) /\ UNCHANGED idFile
    /\ forked' = (forked \/ chain # Nothing)
    /\ UNCHANGED <<chain, lied>>

\* The keychain's entry wins; a file beside it is wiped.
FoundInChain ==
    /\ at = "chain" /\ chain # Nothing /\ Sound
    /\ IF chain \in Identities
       THEN /\ Goes(IF idFile # Nothing THEN "zero" ELSE "peers", chain)
            /\ UNCHANGED <<chain, idFile, minted, lied, forked>>
       ELSE Refuses

ChainUnavailable == at \in {"chain", "verify"} /\ KeystoreFault /\ Refuses

\* No entry: a file is imported, ...
ImportFile ==
    /\ at = "chain" /\ chain = Nothing /\ idFile # Nothing /\ Sound
    /\ IF idFile \in Identities
       THEN Goes("import", idFile) /\ UNCHANGED <<chain, idFile, minted, lied, forked>>
       ELSE Refuses

\* ... without one an identity is made.
GenerateInChain ==
    /\ at = "chain" /\ chain = Nothing /\ idFile = Nothing /\ minted < MaxIdentities /\ Sound
    /\ minted' = minted + 1
    /\ Goes("store", minted + 1)
    /\ UNCHANGED <<chain, idFile, lied, forked>>

\* Variant: the file is wiped on the keychain's word.
StoreUnverified ==
    /\ at \in {"import", "store"}
    /\ \/ /\ Sound /\ chain' = self /\ UNCHANGED lied
          /\ Goes(IF at = "import" THEN "zero" ELSE "peers", self)
       \/ /\ KeystoreFault /\ chain' \in {Nothing, Garbage}
          /\ lied' = (lied \/ at = "store")
          /\ Goes(IF at = "import" THEN "zero" ELSE "peers", self)
       \/ KeystoreFault /\ Goes("down", self) /\ UNCHANGED <<chain, lied>>
    /\ UNCHANGED <<idFile, minted, forked>>

\* store_identity_in_keychain: kept, refused, or taken and not kept.
Store ==
    /\ at \in {"import", "store"}
    /\ \/ /\ Sound /\ chain' = self /\ UNCHANGED lied
          /\ Goes(IF at = "import" THEN "verify" ELSE "peers", self)
       \/ /\ KeystoreFault /\ chain' \in {Nothing, Garbage}
          /\ lied' = (lied \/ at = "store")
          /\ Goes(IF at = "import" THEN "verify" ELSE "peers", self)
       \/ KeystoreFault /\ Goes("down", self) /\ UNCHANGED <<chain, lied>>
    /\ UNCHANGED <<idFile, minted, forked>>

\* verify_keychain_readback, before the only other copy goes.
VerifyReadback ==
    /\ at = "verify" /\ Sound
    /\ IF chain = self THEN Goes("zero", self) /\ UNCHANGED <<chain, idFile, minted, lied, forked>>
       ELSE Refuses

\* secure_wipe_identity_file: zeros, then the removal; best effort.
ZeroFile ==
    /\ at = "zero"
    /\ \/ Sound /\ idFile' = Zeros /\ Goes("unlink", self)
       \/ KeystoreFault /\ UNCHANGED idFile /\ Goes("peers", self)
    /\ UNCHANGED <<chain, minted, lied, forked>>

UnlinkFile ==
    /\ at = "unlink"
    /\ \/ Sound /\ idFile' = Nothing
       \/ KeystoreFault /\ UNCHANGED idFile
    /\ Goes("peers", self)
    /\ UNCHANGED <<chain, minted, lied, forked>>

-----------------------------------------------------------------------------
\* The rest of the start-up.

\* main: peers.json that does not parse ends the start.
LoadPeers ==
    /\ at = "peers" /\ Sound
    /\ IF peersFile = "ok"
       THEN Goes("settings", self) /\ UNCHANGED <<chain, idFile, minted, lied, forked>>
       ELSE Refuses

\* A settings file that cannot be read gives the default.
Loaded(s) == IF stored[s] = Damaged THEN Default ELSE Normalized(stored[s])

LoadSettings ==
    /\ at = "settings" /\ Sound
    /\ at' = "up" /\ used' = used \cup {self}
    /\ live' = [s \in Settings |-> Loaded(s)] /\ shown' = live' /\ command' = NoCommand
    /\ UNCHANGED <<chain, idFile, mode, self, minted, lied, forked, stored, cmds, unsaved,
                   peersFile>>

-----------------------------------------------------------------------------
\* SetFirewall, SetDeviceName, SetHistoryRetention: memory, the file, the clients.

\* Variant: the clients are told first.
SetTold(s, v) ==
    /\ at = "up" /\ command = NoCommand /\ cmds > 0 /\ live[s] # v /\ Sound
    /\ cmds' = cmds - 1 /\ command' = [step |-> "save", on |-> s, value |-> v]
    /\ live' = [live EXCEPT ![s] = v] /\ shown' = [shown EXCEPT ![s] = v]
    /\ UNCHANGED <<idVars, stored, unsaved, peersFile, at>>

\* set_firewall, set_device_name, set_history_retention.
Set(s, v) ==
    /\ at = "up" /\ command = NoCommand /\ cmds > 0 /\ live[s] # v /\ Sound
    /\ cmds' = cmds - 1 /\ command' = [step |-> "save", on |-> s, value |-> v]
    /\ live' = [live EXCEPT ![s] = v]
    /\ UNCHANGED <<idVars, stored, shown, unsaved, peersFile, at>>

\* The save, whose failure is only logged, ...
Save ==
    /\ at = "up" /\ command.step = "save"
    /\ \/ /\ Sound /\ stored' = [stored EXCEPT ![command.on] = command.value]
          /\ unsaved' = unsaved \ {command.on}
       \/ KeystoreFault /\ unsaved' = unsaved \cup {command.on} /\ UNCHANGED stored
    /\ command' = [command EXCEPT !.step = "emit"]
    /\ UNCHANGED <<idVars, live, shown, cmds, peersFile, at>>

\* ... and EmitState.
EmitSettings ==
    /\ at = "up" /\ command.step = "emit" /\ Sound
    /\ shown' = live /\ command' = NoCommand
    /\ UNCHANGED <<idVars, stored, live, cmds, unsaved, peersFile, at>>

-----------------------------------------------------------------------------

\* The process dies, or is stopped between commands.
Dies ==
    /\ at # "down"
    /\ IF at = "up" /\ command = NoCommand THEN Sound ELSE KeystoreFault
    /\ at' = "down"
    /\ UNCHANGED <<idVars, setVars, peersFile>>

\* The file system damages a file.
CorruptPeers ==
    /\ at = "down" /\ peersFile = "ok" /\ KeystoreFault
    /\ peersFile' = "corrupt"
    /\ UNCHANGED <<idVars, setVars, at>>

CorruptSetting(s) ==
    /\ at = "down" /\ KeystoreFault
    /\ stored' = [stored EXCEPT ![s] = Damaged] /\ unsaved' = unsaved \cup {s}
    /\ UNCHANGED <<idVars, live, shown, command, cmds, peersFile, at>>

KeystoreNext ==
    \/ \E m \in {"keychain", "file"} : BootWith(m)
    \/ ReadFile \/ GenerateInFile \/ FoundInChain \/ ChainUnavailable \/ ImportFile
    \/ GenerateInChain \/ Store \/ VerifyReadback \/ ZeroFile \/ UnlinkFile
    \/ LoadPeers \/ LoadSettings \/ Save \/ EmitSettings \/ Dies \/ CorruptPeers
    \/ \E s \in Settings : CorruptSetting(s) \/ \E v \in Values : Set(s, v)

KeystoreSpec == KeystoreInit /\ [][KeystoreNext]_keystoreVars

-----------------------------------------------------------------------------

\* An identity a daemon has run under, the one every pairing is tied to, is never
\* lost to a crash, a failed access or a keychain that does not keep what it took
\* during the migration: it stays in the keychain or in the file, and no start goes
\* under another one.  Excepted are a keychain that loses a new identity, which is
\* not read back, and a user who had one made in a file beside the keychain's.
UsedIdentityKept ==
    lied \/ forked \/ (used \subseteq {chain, idFile} /\ Cardinality(used) <= 1)

\* What the clients were told of a setting survives a crash at any point; a command
\* the crash cut short may have taken effect.
ShownSurvives ==
    \A s \in Settings \ unsaved :
        \/ Normalized(stored[s]) = shown[s]
        \/ command # NoCommand /\ command.on = s /\ stored[s] = command.value
=============================================================================
