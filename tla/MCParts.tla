------------------------------- MODULE MCParts -------------------------------
(***************************************************************************)
(* Small instances of nine parts that share no state: the sequence store,  *)
(* the catch-up after a reconnect, the history file, the verification of a *)
(* pairing, the keystore, the clipboard, the PIN on the device that shows  *)
(* it, the pace of redials, and the windows against repeated datagrams.    *)
(* A behaviour is a behaviour of one of them.                              *)
(***************************************************************************)
EXTENDS SeqStore, Resync, Vault, Words, Keystore, Clipboard, Pin, Redial, Datagrams,
        TLC

CONSTANTS p, q, c1, c2, c3, digest

VARIABLE part

\* Three copies of one content, two of them by one peer: offers overlap, and a
\* copy may be made anew while its content is being pulled.
MCCopiedBy == (c1 :> p) @@ (c2 :> p) @@ (c3 :> q)
MCContentOf == (c1 :> digest) @@ (c2 :> digest) @@ (c3 :> digest)

\* The two devices play the same part.
Perms == Permutations(Devices)

\* The part that runs tells states apart.
PartView ==
    <<part, CASE part = "seq" -> vars
              [] part = "resync" -> resyncVars
              [] part = "vault" -> vaultVars
              [] part = "words" -> wordsVars
              [] part = "keystore" -> keystoreVars
              [] part = "clipboard" -> clipboardVars
              [] part = "pin" -> pinVars
              [] part = "redial" -> redialVars
              [] part = "datagrams" -> datagramVars>>

LocalVars == <<keystoreVars, clipboardVars, pinVars, redialVars>>
DataVars == <<vars, resyncVars, vaultVars, wordsVars>>

\* The parts that do not run keep one initial state.
PartsInit ==
    /\ Init /\ ResyncInit /\ VaultInit /\ WordsInit
    /\ KeystoreInit /\ ClipboardInit /\ PinInit /\ RedialInit
    /\ DatagramsInit
    /\ part \in {"seq", "resync", "vault", "words", "keystore", "clipboard", "pin",
                 "redial", "datagrams"}

PartsNext ==
    /\ UNCHANGED part
    /\ \/ /\ UNCHANGED <<LocalVars, datagramVars>>
          /\ \/ part = "seq" /\ Next /\ UNCHANGED <<resyncVars, vaultVars, wordsVars>>
             \/ part = "resync" /\ ResyncNext /\ UNCHANGED <<vars, vaultVars, wordsVars>>
             \/ part = "vault" /\ VaultNext /\ UNCHANGED <<vars, resyncVars, wordsVars>>
             \/ part = "words" /\ WordsNext /\ UNCHANGED <<vars, resyncVars, vaultVars>>
       \/ /\ UNCHANGED <<DataVars, datagramVars>>
          /\ \/ /\ part = "keystore" /\ KeystoreNext
                /\ UNCHANGED <<clipboardVars, pinVars, redialVars>>
             \/ /\ part = "clipboard" /\ ClipboardNext
                /\ UNCHANGED <<keystoreVars, pinVars, redialVars>>
             \/ /\ part = "pin" /\ PinNext
                /\ UNCHANGED <<keystoreVars, clipboardVars, redialVars>>
             \/ /\ part = "redial" /\ RedialNext
                /\ UNCHANGED <<keystoreVars, clipboardVars, pinVars>>
       \/ part = "datagrams" /\ DatagramsNext /\ UNCHANGED <<DataVars, LocalVars>>

PartsSpec == PartsInit /\ [][PartsNext]_<<part, DataVars, LocalVars, datagramVars>>
=============================================================================
