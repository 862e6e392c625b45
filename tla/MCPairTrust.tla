---------------------------- MODULE MCPairTrust ----------------------------
(* Instances of PairTrust for TLC. *)
EXTENDS PairTrust, Naturals, TLC

CONSTANTS
    MaxBusy,   \* bound on the tasks under way at one time
    MaxFaults  \* bound on the kinds of fault in one behaviour

TrustSymmetry == Permutations(Devices) \cup Permutations(Handshakes)

Busy == {t \in Tasks : job[t] # Idle}

\* States beyond the bounds are checked and not continued from.
Bounded ==
    /\ Cardinality(Busy) <= MaxBusy
    /\ Cardinality(faults) <= MaxFaults

\* After a fault only what is under way goes on.
Settles == faults = {} \/ Busy' \subseteq Busy

\* Everything but refused, which no step and no invariant of the run reads.
TrustView == <<trusted, disk, pending, window, linked, job, snap, unverified, faults>>
=============================================================================
