------------------------------- MODULE MCMesh -------------------------------
(***************************************************************************)
(* The state machine with two devices linked at once, and the trust in two *)
(* devices with every task that changes it.  They share no state: a        *)
(* behaviour is a behaviour of one of them.                                *)
(***************************************************************************)
EXTENDS MCAppCore, MCPairTrust

VARIABLE part

\* The part that runs tells states apart.
PartView == IF part = "core" THEN <<part, StateView>> ELSE <<part, TrustView>>

\* The part that does not run keeps one initial state.
PartInit ==
    /\ Init /\ TrustInit
    /\ part \in {"core", "trust"}

PartNext ==
    \/ part = "core" /\ Next /\ UNCHANGED <<trustVars, part>>
    \/ part = "trust" /\ TrustNext /\ UNCHANGED <<vars, part>>

PartSpec == PartInit /\ [][PartNext]_<<part, vars, trustVars>>
=============================================================================
