------------------------------ MODULE MCDaemon ------------------------------
(***************************************************************************)
(* The state machine and the session slots of one daemon, and the typing   *)
(* of a PIN in it.  They share no state: a behaviour is a behaviour of one *)
(* of them.                                                                *)
(***************************************************************************)
EXTENDS MCAppCore, Transport, Discovery

VARIABLE part

\* Nothing tells the devices, the tasks or the PeerConn objects apart.
DaemonSymmetry == Permutations(Peers \cup Remotes) \cup Permutations(Tasks)

PartView ==
    <<part, CASE part = "core" -> StateView
              [] part = "slots" -> slotVars
              [] part = "typed" -> discoveryVars>>

\* The parts that do not run keep one initial state.
DaemonInit ==
    /\ Init /\ SlotInit /\ DiscoveryInit
    /\ part \in {"core", "slots", "typed"}
    /\ part # "slots" => schedule = "between operations"

DaemonNext ==
    \/ part = "core" /\ Next /\ UNCHANGED <<slotVars, discoveryVars, part>>
    \/ part = "slots" /\ SlotNext /\ UNCHANGED <<vars, discoveryVars, part>>
    \/ part = "typed" /\ DiscoveryNext /\ UNCHANGED <<vars, slotVars, part>>

DaemonSpec == DaemonInit /\ [][DaemonNext]_<<part, vars, slotVars, discoveryVars>>
=============================================================================
