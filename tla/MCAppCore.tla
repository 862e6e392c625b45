----------------------------- MODULE MCAppCore -----------------------------
(* Instances of AppCore for model checking. *)
EXTENDS AppCore, TLC

CONSTANTS a, b, i, j

\* Nothing tells two peers, or two items, apart.
PeerSymmetry == Permutations({a, b})
Symmetry == Permutations({a, b}) \cup Permutations({i, j})

\* No action reads what the last event returned, so states that differ only in
\* that are one; the action properties still see it on every step.
StateView == <<linkVars, histVars, ringVars, parkVars, sasVars, verdict>>
=============================================================================
