--------------------------- MODULE AppCoreProofs ---------------------------
(***************************************************************************)
(* Proofs about AppCore for any number of peers and items: its type        *)
(* invariant, the agreement of the two halves of the firewall's parking    *)
(* lot, the isolation of the history of a device that links one peer at a  *)
(* time, and the meaning of "confirmed" in the verification of a pairing.  *)
(***************************************************************************)
EXTENDS AppCore, TLAPS

\* A capped history has only rows it had before.
LEMMA CappedSubset ==
    ASSUME NEW h, NEW new, NEW c \in Capped(h, new)
    PROVE  c \subseteq h
BY DEF Capped

\* push_history adds one well-typed row at most.
LEMMA PushHistoryType ==
    ASSUME TypeOK, NEW i \in Items, NEW p \in PeerIds, PushHistory(i, p)
    PROVE  history' \subseteq [item : Items, from : PeerIds, fav : BOOLEAN]
<1> DEFINE fav == \E r \in history : r.item = i /\ r.fav
           new == [item |-> i, from |-> p, fav |-> fav]
           h == {r \in history : r.item # i} \cup {new}
<1>1. history' \in Capped(h, new)
  BY DEF PushHistory
<1>2. history' \subseteq h
  <2> HIDE DEF h, new
  <2> QED BY <1>1, CappedSubset
<1>3. fav \in BOOLEAN
  OBVIOUS
<1>4. new \in [item : Items, from : PeerIds, fav : BOOLEAN]
  <2> HIDE DEF fav
  <2> QED BY <1>3
<1>5. h \subseteq [item : Items, from : PeerIds, fav : BOOLEAN]
  <2> HIDE DEF new
  <2> QED BY <1>4 DEF TypeOK
<1> QED BY <1>2, <1>5

\* The parking lot keeps its type whichever way an arm touches it.
LEMMA ParkingType ==
    ASSUME TypeOK, NEW i \in Items, NEW dir \in Directions, NEW p \in PeerIds,
           \/ DropPendingAll \/ DropPendingFor(p) \/ ApplyFirewall(i, dir, p)
    PROVE  /\ rows' \subseteq [item : Items, dir : Directions, from : PeerIds]
           /\ held' \in [Items -> Held \cup {NotHeld}]
BY DEF TypeOK, DropPendingAll, DropPendingFor, ParkedBy, ApplyFirewall, ParkPending,
       parkVars, Held

\* What an event emits is a set of actions.
LEMMA ActTypes ==
    /\ \A n \in ActNames : Act(n) \in [act : ActNames, item : Items \cup {NoItem}]
    /\ \A n \in ActNames, i \in Items :
         ItemAct(n, i) \in [act : ActNames, item : Items \cup {NoItem}]
    /\ \A names \in SUBSET ActNames :
         Emit(names) => emitted' \subseteq [act : ActNames, item : Items \cup {NoItem}]
BY DEF Act, ItemAct, Emit

-----------------------------------------------------------------------------
(* Type correctness, one lemma per group of events. *)

LEMMA LinkType == ASSUME TypeOK, LinkNext PROVE TypeOK'
<1> USE ActTypes DEF TypeOK, vars, linkVars, clipVars, histVars, ringVars, parkVars, sasVars,
        Phases, PeerIds, ActNames, SasPhases
<1>1. CASE ToggleOn
  BY <1>1 DEF ToggleOn
<1>2. CASE ToggleOff
  BY <1>2 DEF ToggleOff
<1>3. CASE HandshakeOk
  BY <1>3 DEF HandshakeOk
<1>4. CASE HandshakeTimeout
  BY <1>4 DEF HandshakeTimeout
<1>5. CASE NetworkChanged
  BY <1>5 DEF NetworkChanged
<1>6. CASE Reconnect
  BY <1>6 DEF Reconnect
<1>7. CASE UntrustedPeerSeen
  <2>1. emitted' \subseteq [act : ActNames, item : Items \cup {NoItem}]
    BY <1>7 DEF UntrustedPeerSeen, Act, Emit
  <2>2. held' \in [Items -> Held \cup {NotHeld}] /\ rows' = {}
    BY <1>7 DEF UntrustedPeerSeen, DropPendingAll
  <2>3. /\ phase' = "discovering" /\ peerId' = NoPeer /\ named' = FALSE
        /\ sasPhase' = "idle" /\ sasPeer' = NoPeer
        /\ history' = {} /\ wipeGen' \in Nat
        /\ UNCHANGED <<localOk, peerOk, on, lastPaired, delivered, ringVars, verdict>>
    BY <1>7 DEF UntrustedPeerSeen, ForgetPeer, ResetSas
  <2>4. phase' \in Phases /\ sasPhase' \in SasPhases /\ peerId' \in PeerIds /\ sasPeer' \in PeerIds
    BY <2>3
  <2> QED BY <2>1, <2>2, <2>3, <2>4
<1>8. CASE GhostTimeout
  <2>1. emitted' \subseteq [act : ActNames, item : Items \cup {NoItem}]
    BY <1>8 DEF GhostTimeout, Act, Emit
  <2>2. CASE phase = "linked"
    BY <1>8, <2>1, <2>2 DEF GhostTimeout
  <2>3. CASE phase # "linked"
    <3>1. /\ rows' \subseteq [item : Items, dir : Directions, from : PeerIds]
          /\ held' \in [Items -> Held \cup {NotHeld}]
      BY <1>8, <2>3 DEF GhostTimeout, DropPendingFor
    <3>2. /\ phase' \in Phases /\ peerId' = NoPeer /\ named' = FALSE
          /\ sasPhase' = "idle" /\ sasPeer' = NoPeer
          /\ UNCHANGED <<localOk, peerOk, on, lastPaired, histVars, ringVars, verdict>>
      BY <1>8, <2>3 DEF GhostTimeout, ForgetPeer, ResetSas
    <3> QED BY <2>1, <3>1, <3>2
  <2> QED BY <2>2, <2>3
<1>9. CASE ManualUnpair
  BY <1>9 DEF ManualUnpair, ForgetPeer, ResetSas, DropPendingAll
<1>10. CASE \E p \in Peers : PeerSeenIgnored(p)
  BY <1>10 DEF PeerSeenIgnored
<1>11. CASE \E p \in Peers : PeerSeen(p)
  BY <1>11 DEF PeerSeen, PeerSeenPhase
<1>12. CASE \E p \in Peers : SwapAlone(p)
  BY <1>12 DEF SwapAlone, PeerSeenPhase, DropPendingAll
<1>13. CASE \E p \in Peers : SwapAmongOthers(p)
  BY <1>13 DEF SwapAmongOthers, PeerSeenPhase, DropPendingFor, ParkedBy
<1>14. CASE \E p \in Peers : PeerLost(p)
  BY <1>14 DEF PeerLost, ResetSas
<1>15. CASE \E p \in Peers : PeerRevoked(p)
  BY <1>15 DEF PeerRevoked, DropPendingFor, ParkedBy, ForgetPeer
<1>16. CASE \E p \in Peers, hasName \in BOOLEAN : PrimaryFailover(p, hasName)
  BY <1>16 DEF PrimaryFailover
<1> QED BY <1>1, <1>2, <1>3, <1>4, <1>5, <1>6, <1>7, <1>8, <1>9, <1>10, <1>11, <1>12, <1>13, <1>14, <1>15, <1>16 DEF LinkNext

LEMMA SasType == ASSUME TypeOK, SasNext PROVE TypeOK'
<1> USE ActTypes, PeersAssumption
    DEF TypeOK, linkVars, clipVars, histVars, ringVars, parkVars, PeerIds, SasPhases, ActNames
<1>1. CASE SasReset
  BY <1>1 DEF SasReset, ResetSas
<1>2. CASE \E p \in SasPeers : SasPairingStarted(p)
  BY <1>2 DEF SasPairingStarted
<1>3. CASE \E p \in SasPeers : SasLocalConfirmed(p)
  BY <1>3 DEF SasLocalConfirmed
<1>4. CASE \E p \in SasPeers : SasPeerConfirmed(p)
  BY <1>4 DEF SasPeerConfirmed
<1>5. CASE \E p \in SasPeers : SasPeerRejected(p)
  BY <1>5 DEF SasPeerRejected
<1> QED BY <1>1, <1>2, <1>3, <1>4, <1>5 DEF SasNext

LEMMA ClipType == ASSUME TypeOK, ClipNext PROVE TypeOK'
<1> USE PeersAssumption, ItemsAssumption, RulingsAssumption
    DEF linkVars, sasVars
<1> DEFINE Acts == [act : ActNames, item : Items \cup {NoItem}]
           Rows == [item : Items, from : PeerIds, fav : BOOLEAN]
<1>1. CASE ExpireHistory
  BY <1>1, ActTypes DEF ExpireHistory, TypeOK, ringVars, parkVars
<1>2. CASE \E all \in BOOLEAN : ClearHistory(all)
  BY <1>2, ActTypes DEF ClearHistory, TypeOK, ringVars, parkVars
<1>3. CASE \E v \in [Items -> Rulings] : SetFirewall(v)
  <2>1. PICK v \in [Items -> Rulings] : SetFirewall(v)
    BY <1>3
  <2>2. v \in [Items -> Decisions]
    BY DEF Decisions
  <2> QED BY <2>1, <2>2, ActTypes DEF SetFirewall, TypeOK, histVars, ringVars, parkVars
<1>4. CASE \E i \in Items, p \in Ackers : MarkDelivered(i, p)
  BY <1>4, ActTypes DEF MarkDelivered, TypeOK, ringVars, parkVars
<1>5. CASE \E i \in Items, fav \in BOOLEAN : SetFavorite(i, fav)
  BY <1>5, ActTypes DEF SetFavorite, TypeOK, ringVars, parkVars
<1>6. CASE \E i \in Items, allow \in BOOLEAN : ResolvePending(i, allow)
  <2>1. emitted' \subseteq Acts
    BY <1>6, ActTypes DEF ResolvePending, ActNames
  <2>2. /\ rows' \subseteq [item : Items, dir : Directions, from : PeerIds]
        /\ held' \in [Items -> Held \cup {NotHeld}]
    BY <1>6 DEF ResolvePending, TypeOK
  <2> QED BY <1>6, <2>1, <2>2 DEF ResolvePending, TypeOK, histVars, ringVars
<1>7. CASE \E i \in Items, recent \in BOOLEAN : LocalClipboardChange(i, recent)
  <2>1. PICK i \in Items, recent \in BOOLEAN : LocalClipboardChange(i, recent)
    BY <1>7
  <2>2. CASE Suppressed(i, recent, FALSE)
    BY <2>1, <2>2, ActTypes
       DEF LocalClipboardChange, TypeOK, clipVars, histVars, ringVars, parkVars, ActNames
  <2>3. CASE ~Suppressed(i, recent, FALSE)
    <3>1. history' \subseteq Rows
      BY <2>1, <2>3, PushHistoryType DEF LocalClipboardChange, TypeOK, PeerIds
    <3>2. /\ rows' \subseteq [item : Items, dir : Directions, from : PeerIds]
          /\ held' \in [Items -> Held \cup {NotHeld}]
      BY <2>1, <2>3, ParkingType DEF LocalClipboardChange, Directions, PeerIds
    <3>3. emitted' \subseteq Acts
      BY <2>1, <2>3, ActTypes DEF LocalClipboardChange, ActNames
    <3> QED BY <2>1, <2>3, <3>1, <3>2, <3>3
            DEF LocalClipboardChange, TypeOK, ObserveClipboard
  <2> QED BY <2>2, <2>3
<1>8. CASE \E i \in Items, p \in Peers, recent, resync \in BOOLEAN :
             FrameReceivedClipboard(i, p, recent, resync)
  <2>1. PICK i \in Items, p \in Peers, recent \in BOOLEAN, resync \in BOOLEAN :
               FrameReceivedClipboard(i, p, recent, resync)
    BY <1>8
  <2>2. CASE Suppressed(i, recent, resync)
    BY <2>1, <2>2, ActTypes
       DEF FrameReceivedClipboard, TypeOK, histVars, ringVars, parkVars, ActNames
  <2>3. CASE ~Suppressed(i, recent, resync)
    <3>1. history' \subseteq Rows
      BY <2>1, <2>3, PushHistoryType DEF FrameReceivedClipboard, PushReceived, TypeOK, PeerIds
    <3>2. /\ rows' \subseteq [item : Items, dir : Directions, from : PeerIds]
          /\ held' \in [Items -> Held \cup {NotHeld}]
      BY <2>1, <2>3, ParkingType DEF FrameReceivedClipboard, Directions, PeerIds
    <3>3. emitted' \subseteq Acts
      BY <2>1, <2>3, ActTypes DEF FrameReceivedClipboard, ActNames
    <3> QED BY <2>1, <2>3, <3>1, <3>2, <3>3
            DEF FrameReceivedClipboard, TypeOK, ObserveClipboard
  <2> QED BY <2>2, <2>3
<1> QED BY <1>1, <1>2, <1>3, <1>4, <1>5, <1>6, <1>7, <1>8 DEF ClipNext

\* Every reachable state of App is well typed, for any peers, items and cap.
THEOREM TypeCorrect == Spec => []TypeOK
<1>1. Init => TypeOK
  <2> SUFFICES ASSUME Init PROVE TypeOK
    OBVIOUS
  <2>1. verdict \in [Items -> Decisions] /\ held \in [Items -> Held \cup {NotHeld}]
    BY DEF Init, Decisions
  <2> QED BY <2>1 DEF Init, TypeOK, Phases, PeerIds, SasPhases
<1>2. TypeOK /\ [Next]_vars => TypeOK'
  <2>1. CASE UNCHANGED vars
    BY <2>1 DEF TypeOK, vars, linkVars, histVars, ringVars, parkVars, sasVars
  <2> QED BY <2>1, LinkType, ClipType, SasType DEF Next
<1> QED BY <1>1, <1>2, PTL DEF Spec

-----------------------------------------------------------------------------
(* The parking lot. *)

\* The user releases or drops a parked item: the parking side of resolve_pending.
Release(i) ==
    /\ rows' = {r \in rows : r.item # i}
    /\ held' = [held EXCEPT ![i] = NotHeld]

\* Every event touches the parking lot in one of five ways.
LEMMA ParkStep ==
    ASSUME [Next]_vars
    PROVE  \/ UNCHANGED <<rows, held>>
           \/ DropPendingAll
           \/ \E p : DropPendingFor(p)
           \/ \E i \in Items, dir \in Directions, p \in PeerIds : ParkPending(i, dir, p)
           \/ \E i \in Items : Release(i)
<1> USE DEF clipVars, parkVars
<1>1. CASE UNCHANGED vars
  BY <1>1 DEF vars
<1>2. CASE LinkNext
  <2>1. CASE GhostTimeout
    BY <2>1 DEF GhostTimeout
  <2> QED
    BY <1>2, <2>1
       DEF LinkNext, ToggleOn, ToggleOff, HandshakeOk, HandshakeTimeout, NetworkChanged,
           Reconnect, UntrustedPeerSeen, ManualUnpair, PeerSeenIgnored, PeerSeen, SwapAlone,
           SwapAmongOthers, PeerLost, PeerRevoked, PrimaryFailover, PeerIds
<1>3. CASE SasNext
  BY <1>3 DEF SasNext, SasReset, SasPairingStarted, SasLocalConfirmed, SasPeerConfirmed,
              SasPeerRejected
<1>4. CASE ClipNext
  <2>1. CASE \E i \in Items, recent \in BOOLEAN : LocalClipboardChange(i, recent)
    BY <2>1 DEF LocalClipboardChange, ApplyFirewall, Directions, PeerIds
  <2>2. CASE \E i \in Items, p \in Peers, recent, resync \in BOOLEAN :
               FrameReceivedClipboard(i, p, recent, resync)
    BY <2>2 DEF FrameReceivedClipboard, ApplyFirewall, Directions, PeerIds
  <2>3. CASE \E i \in Items, allow \in BOOLEAN : ResolvePending(i, allow)
    BY <2>3 DEF ResolvePending, Release
  <2> QED
    BY <1>4, <2>1, <2>2, <2>3
       DEF ClipNext, ExpireHistory, ClearHistory, SetFirewall, SetFavorite, MarkDelivered
<1> QED BY <1>1, <1>2, <1>3, <1>4 DEF Next

\* PendingAgree, read row by row.
RowsMatch ==
    \A r \in [item : Items, dir : Directions, from : PeerIds] :
      r \in rows <=> held[r.item] = [dir |-> r.dir, from |-> r.from]

LEMMA AgreeByRow == TypeOK => (PendingAgree <=> RowsMatch)
<1> SUFFICES ASSUME TypeOK PROVE PendingAgree <=> RowsMatch
  OBVIOUS
<1> DEFINE R == [item : Items, dir : Directions, from : PeerIds]
           shown == {j \in Items : held[j] # NotHeld}
           S == {[item |-> i, dir |-> held[i].dir, from |-> held[i].from] : i \in shown}
<1>1. \A i \in shown : held[i] \in Held
  BY DEF TypeOK
<1>2. S \subseteq R
  BY <1>1 DEF Held
<1>3. ASSUME NEW r \in R
      PROVE  r \in S <=> held[r.item] = [dir |-> r.dir, from |-> r.from]
  <2>1. [dir |-> r.dir, from |-> r.from] # NotHeld
    BY DEF NotHeld, Directions
  <2>2. r = [item |-> r.item, dir |-> r.dir, from |-> r.from]
    OBVIOUS
  <2>3. ASSUME r \in S PROVE held[r.item] = [dir |-> r.dir, from |-> r.from]
    <3>1. PICK i \in shown : r = [item |-> i, dir |-> held[i].dir, from |-> held[i].from]
      BY <2>3
    <3> QED BY <3>1, <1>1 DEF Held
  <2>4. ASSUME held[r.item] = [dir |-> r.dir, from |-> r.from] PROVE r \in S
    <3>1. r.item \in shown
      BY <2>1, <2>4
    <3> QED BY <2>2, <2>4, <3>1
  <2> QED BY <2>3, <2>4
<1>4. rows \subseteq R
  BY DEF TypeOK
<1>5. PendingAgree <=> rows = S
  BY DEF PendingAgree
<1> HIDE DEF R, S
<1>6. rows = S <=> \A r \in R : r \in rows <=> r \in S
  BY <1>2, <1>4
<1> QED BY <1>3, <1>5, <1>6 DEF R, RowsMatch

LEMMA RowsMatchStep ==
    ASSUME TypeOK, RowsMatch, [Next]_vars
    PROVE  RowsMatch'
<1> SUFFICES ASSUME NEW r \in [item : Items, dir : Directions, from : PeerIds]
             PROVE  r \in rows' <=> held'[r.item] = [dir |-> r.dir, from |-> r.from]
  BY DEF RowsMatch
<1>1. r \in rows <=> held[r.item] = [dir |-> r.dir, from |-> r.from]
  BY DEF RowsMatch
<1>2. r.item \in Items /\ r.dir \in Directions /\ r.from \in PeerIds
  OBVIOUS
<1>3. [dir |-> r.dir, from |-> r.from] # NotHeld
  BY <1>2 DEF NotHeld, Directions
<1>4. held \in [Items -> Held \cup {NotHeld}]
  BY DEF TypeOK
<1>5. CASE UNCHANGED <<rows, held>>
  BY <1>1, <1>5
<1>6. CASE DropPendingAll
  BY <1>2, <1>3, <1>6 DEF DropPendingAll
<1>7. CASE \E p : DropPendingFor(p)
  <2>1. PICK p : DropPendingFor(p)
    BY <1>7
  <2>2. CASE r.item \in ParkedBy(p)
    BY <1>2, <1>3, <2>1, <2>2 DEF DropPendingFor
  <2>3. CASE r.item \notin ParkedBy(p)
    BY <1>1, <1>2, <2>1, <2>3 DEF DropPendingFor
  <2> QED BY <2>2, <2>3
<1>8. CASE \E i \in Items, dir \in Directions, p \in PeerIds : ParkPending(i, dir, p)
  <2>1. PICK i \in Items, dir \in Directions, p \in PeerIds : ParkPending(i, dir, p)
    BY <1>8
  <2>2. CASE held[i] # NotHeld
    BY <1>1, <2>1, <2>2 DEF ParkPending, parkVars
  <2>3. CASE held[i] = NotHeld
    <3>1. /\ held' = [held EXCEPT ![i] = [dir |-> dir, from |-> p]]
          /\ rows' = rows \cup {[item |-> i, dir |-> dir, from |-> p]}
      BY <2>1, <2>3 DEF ParkPending
    <3>2. CASE r.item = i
      <4>1. r \notin rows
        BY <1>1, <1>3, <2>3, <3>2
      <4>2. r \in rows' <=> r = [item |-> i, dir |-> dir, from |-> p]
        BY <3>1, <4>1
      <4>3. held'[r.item] = [dir |-> dir, from |-> p]
        BY <1>4, <3>1, <3>2
      <4> QED BY <3>2, <4>2, <4>3
    <3>3. CASE r.item # i
      BY <1>1, <1>2, <1>4, <3>1, <3>3
    <3> QED BY <3>2, <3>3
  <2> QED BY <2>2, <2>3
<1>9. CASE \E i \in Items : Release(i)
  <2>1. PICK i \in Items : Release(i)
    BY <1>9
  <2> QED BY <1>1, <1>2, <1>3, <1>4, <2>1 DEF Release
<1> QED BY <1>5, <1>6, <1>7, <1>8, <1>9, ParkStep

\* In every reachable state the rows shown to the user and the payloads kept
\* for them agree: no teardown path clears one without the other.
THEOREM ParkingAgrees == Spec => []PendingAgree
<1>1. Init => RowsMatch
  <2> SUFFICES ASSUME Init PROVE RowsMatch
    OBVIOUS
  <2>1. \A r \in [item : Items, dir : Directions, from : PeerIds] :
          [dir |-> r.dir, from |-> r.from] # NotHeld
    BY DEF NotHeld, Directions
  <2> QED BY <2>1 DEF Init, RowsMatch
<1>2. TypeOK /\ RowsMatch /\ [Next]_vars => RowsMatch'
  BY RowsMatchStep
<1> QED BY <1>1, <1>2, TypeCorrect, AgreeByRow, PTL DEF Spec

-----------------------------------------------------------------------------
(* The verification of a pairing. *)

\* "confirmed" is reached through either side's own confirmation, so each of
\* the phases must stand for the confirmations behind it.
SasInv ==
    /\ sasPhase \in {"local_confirmed", "confirmed"} => sasPeer \in localOk
    /\ sasPhase \in {"peer_confirmed", "confirmed"} => sasPeer \in peerOk

LEMMA SasStep == ASSUME SasInv, [Next]_vars PROVE SasInv'
<1> USE DEF SasInv, sasVars, ResetSas
<1>1. CASE UNCHANGED vars
  BY <1>1 DEF vars
<1>2. CASE LinkNext
  BY <1>2 DEF LinkNext, ToggleOn, ToggleOff, HandshakeOk, HandshakeTimeout, NetworkChanged,
              Reconnect, UntrustedPeerSeen, GhostTimeout, ManualUnpair, PeerSeenIgnored,
              PeerSeen, SwapAlone, SwapAmongOthers, PeerLost, PeerRevoked, PrimaryFailover
<1>3. CASE ClipNext
  BY <1>3 DEF ClipNext, ExpireHistory, ClearHistory, SetFirewall, SetFavorite, MarkDelivered,
              LocalClipboardChange, FrameReceivedClipboard, ResolvePending
<1>4. CASE SasNext
  BY <1>4 DEF SasNext, SasReset, SasPairingStarted, SasLocalConfirmed, SasPeerConfirmed,
              SasPeerRejected
<1> QED BY <1>1, <1>2, <1>3, <1>4 DEF Next

\* "confirmed" means that both sides confirmed the pairing shown, for any
\* number of pairings running at once.
THEOREM ConfirmedMeansBoth == Spec => []ConfirmedByBoth
<1>1. Init => SasInv
  BY DEF Init, SasInv
<1>2. SasInv /\ [Next]_vars => SasInv'
  BY SasStep
<1>3. SasInv => ConfirmedByBoth
  BY DEF SasInv, ConfirmedByBoth
<1> QED BY <1>1, <1>2, <1>3, PTL DEF Spec

-----------------------------------------------------------------------------
(* The history of a device that links one peer at a time. *)

\* push_history brings in rows of its own sender only.
LEMMA PushHistorySender ==
    ASSUME NEW i, NEW p, PushHistory(i, p)
    PROVE  \A r \in history' : r \in history \/ r.from = p
<1> DEFINE new == [item |-> i, from |-> p, fav |-> \E r \in history : r.item = i /\ r.fav]
           h == {r \in history : r.item # i} \cup {new}
<1>1. history' \in Capped(h, new)
  BY DEF PushHistory
<1>2. history' \subseteq h
  <2> HIDE DEF h, new
  <2> QED BY <1>1, CappedSubset
<1> QED BY <1>2

LEMMA IsolationStep ==
    ASSUME TypeOK, HistoryIsolated, [Next]_vars
    PROVE  HistoryIsolated'
<1> SUFFICES ASSUME ~Mesh PROVE \A r \in history' : r.from \in {NoPeer, lastPaired'}
  BY DEF HistoryIsolated
<1>0. \A r \in history : r.from \in {NoPeer, lastPaired}
  BY DEF HistoryIsolated
<1> USE <1>0 DEF clipVars, histVars, linkVars
<1>1. CASE UNCHANGED vars
  BY <1>1 DEF vars
<1>2. CASE LinkNext
  BY <1>2 DEF LinkNext, ToggleOn, ToggleOff, HandshakeOk, HandshakeTimeout, NetworkChanged,
              Reconnect, UntrustedPeerSeen, GhostTimeout, ManualUnpair, PeerSeenIgnored,
              PeerSeen, IsSwap, SwapAlone, SwapAmongOthers, PeerLost, PeerRevoked,
              PrimaryFailover
<1>3. CASE SasNext
  BY <1>3 DEF SasNext, SasReset, SasPairingStarted, SasLocalConfirmed, SasPeerConfirmed,
              SasPeerRejected
<1>4. CASE ClipNext
  <2>1. CASE \E i \in Items, recent \in BOOLEAN : LocalClipboardChange(i, recent)
    BY <2>1, PushHistorySender DEF LocalClipboardChange
  <2>2. CASE \E i \in Items, p \in Peers, recent, resync \in BOOLEAN :
               FrameReceivedClipboard(i, p, recent, resync)
    BY <2>2, PushHistorySender DEF FrameReceivedClipboard, PushReceived
  <2>3. CASE \E i \in Items, fav \in BOOLEAN : SetFavorite(i, fav)
    <3>1. PICK i \in Items, fav \in BOOLEAN : SetFavorite(i, fav)
      BY <2>3
    <3>2. history \subseteq [item : Items, from : PeerIds, fav : BOOLEAN]
      BY DEF TypeOK
    <3>3. \A r \in history : (IF r.item = i THEN [r EXCEPT !.fav = fav] ELSE r).from = r.from
      BY <3>2
    <3> QED BY <3>1, <3>3 DEF SetFavorite
  <2> QED
    BY <1>4, <2>1, <2>2, <2>3
       DEF ClipNext, ExpireHistory, ClearHistory, SetFirewall, ResolvePending, MarkDelivered
<1> QED BY <1>1, <1>2, <1>3, <1>4 DEF Next

\* On a device that links one peer at a time, a newly paired device never
\* inherits what the one before it sent, whatever unpairing came between.
THEOREM HistoryStaysIsolated == Spec => []HistoryIsolated
<1>1. Init => HistoryIsolated
  BY DEF Init, HistoryIsolated
<1>2. TypeOK /\ HistoryIsolated /\ [Next]_vars => HistoryIsolated'
  BY IsolationStep
<1> QED BY <1>1, <1>2, TypeCorrect, PTL DEF Spec

-----------------------------------------------------------------------------
(* What no event may do. *)

\* The cap of the history takes neither a pinned row nor the new one.
LEMMA CappedKeeps ==
    ASSUME NEW h, NEW new, NEW c \in Capped(h, new), NEW r \in h, r.fav \/ r = new
    PROVE  r \in c
BY DEF Capped

\* push_history keeps every content that is pinned.
LEMMA PushHistoryKeepsPins ==
    ASSUME NEW i, NEW p, PushHistory(i, p), NEW r \in history, r.fav
    PROVE  \E s \in history' : s.item = r.item
<1> DEFINE new == [item |-> i, from |-> p, fav |-> \E q \in history : q.item = i /\ q.fav]
           h == {q \in history : q.item # i} \cup {new}
<1>1. history' \in Capped(h, new)
  BY DEF PushHistory
<1>2. CASE r.item = i
  <2>1. new \in h /\ new.item = i
    OBVIOUS
  <2>2. new \in history'
    <3> HIDE DEF h, new
    <3> QED BY <1>1, <2>1, CappedKeeps
  <2> QED BY <1>2, <2>1, <2>2
<1>3. CASE r.item # i
  <2>1. r \in h
    BY <1>3
  <2>2. r \in history'
    <3> HIDE DEF h, new
    <3> QED BY <1>1, <2>1, CappedKeeps
  <2> QED BY <2>2
<1> QED BY <1>2, <1>3

LEMMA PinnedStep ==
    ASSUME TypeOK, [Next]_vars, NEW r \in history, r.fav
    PROVE  (\E s \in history' : s.item = r.item) \/ wipeGen' = wipeGen + 1
<1> USE DEF clipVars, histVars
<1>1. CASE UNCHANGED vars
  BY <1>1 DEF vars
<1>2. CASE LinkNext
  BY <1>2 DEF LinkNext, ToggleOn, ToggleOff, HandshakeOk, HandshakeTimeout, NetworkChanged,
              Reconnect, UntrustedPeerSeen, GhostTimeout, ManualUnpair, PeerSeenIgnored,
              PeerSeen, SwapAlone, SwapAmongOthers, PeerLost, PeerRevoked, PrimaryFailover
<1>3. CASE SasNext
  BY <1>3 DEF SasNext, SasReset, SasPairingStarted, SasLocalConfirmed, SasPeerConfirmed,
              SasPeerRejected
<1>4. CASE ClipNext
  <2>1. CASE \E i \in Items, recent \in BOOLEAN : LocalClipboardChange(i, recent)
    BY <2>1, PushHistoryKeepsPins DEF LocalClipboardChange
  <2>2. CASE \E i \in Items, p \in Peers, recent, resync \in BOOLEAN :
               FrameReceivedClipboard(i, p, recent, resync)
    BY <2>2, PushHistoryKeepsPins DEF FrameReceivedClipboard, PushReceived
  <2>3. CASE \E i \in Items, fav \in BOOLEAN : SetFavorite(i, fav)
    <3>1. PICK i \in Items, fav \in BOOLEAN : SetFavorite(i, fav)
      BY <2>3
    <3> DEFINE s == IF r.item = i THEN [r EXCEPT !.fav = fav] ELSE r
    <3>2. s \in history'
      BY <3>1 DEF SetFavorite
    <3>3. s.item = r.item
      BY DEF TypeOK
    <3> QED BY <3>2, <3>3
  <2>4. CASE ExpireHistory
    <3>1. r \in history'
      BY <2>4 DEF ExpireHistory
    <3> QED BY <3>1
  <2>5. CASE \E all \in BOOLEAN : ClearHistory(all)
    BY <2>5 DEF ClearHistory
  <2> QED
    BY <1>4, <2>1, <2>2, <2>3, <2>4, <2>5
       DEF ClipNext, SetFirewall, ResolvePending, MarkDelivered
<1> QED BY <1>1, <1>2, <1>3, <1>4 DEF Next

\* Nothing but a wipe takes a pinned row away: not the cap of the history, not its
\* retention, not a repeat of the content, whatever the numbers of items and peers.
THEOREM PinnedRowsStayPut == Spec => PinnedRowsStay
<1> DEFINE A == \A r \in history : r.fav =>
                  \/ \E s \in history' : s.item = r.item
                  \/ wipeGen' = wipeGen + 1
<1>1. TypeOK /\ [Next]_vars => [A]_vars
  BY PinnedStep
<1> QED BY <1>1, TypeCorrect, PTL DEF Spec, PinnedRowsStay
=============================================================================
