------------------------------ MODULE Broadcast ------------------------------
(***************************************************************************)
(* What the mesh promises: a copied item reaches another device at most    *)
(* once per run of its daemon, in any order.  It comes back to the device  *)
(* that copied it only if the same content was copied elsewhere too: items *)
(* that wait for acknowledgements are told apart by their content.         *)
(***************************************************************************)
EXTENDS Sequences, Functions

CONSTANTS Nodes, Events, OriginOf, HashOf

VARIABLES
    sent,    \* the events handed to the mesh
    log      \* what each daemon handed to its clipboard since it started

BInit == sent = {} /\ log = [n \in Nodes |-> <<>>]

Send(e) == sent' = sent \cup {e} /\ UNCHANGED log

CopiedAgain(e) == \E f \in Events \ {e} : HashOf[f] = HashOf[e]

Deliver(n, e) ==
    /\ e \in sent /\ (OriginOf[e] = n => CopiedAgain(e)) /\ e \notin Range(log[n])
    /\ log' = [log EXCEPT ![n] = Append(@, e)]
    /\ UNCHANGED sent

Restart(n) == log' = [log EXCEPT ![n] = <<>>] /\ UNCHANGED sent

BNext ==
    \/ \E e \in Events : Send(e)
    \/ \E n \in Nodes : Restart(n) \/ \E e \in Events : Deliver(n, e)

BSpec == BInit /\ [][BNext]_<<sent, log>>

\* What follows: a daemon never hands an event on twice, nor one that nobody copied.
AtMostOnce ==
    \A n \in Nodes : \A i, j \in DOMAIN log[n] : log[n][i] = log[n][j] => i = j
OnlyCopied == \A n \in Nodes : Range(log[n]) \subseteq sent
=============================================================================
