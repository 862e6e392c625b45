---------------------------- MODULE MCTransport ----------------------------
(* Small instances of the session slots.  The tasks are interchangeable, and *)
(* so are the devices and the PeerConn objects.                              *)
EXTENDS Transport, TLC

Symmetry == Permutations(Tasks) \cup Permutations(Remotes) \cup Permutations(Extras)
=============================================================================
