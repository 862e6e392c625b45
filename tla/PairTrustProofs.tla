-------------------------- MODULE PairTrustProofs --------------------------
(* Theorems about PairTrust, for any peers and any handshake tasks. *)
EXTENDS PairTrust, TLAPS

-----------------------------------------------------------------------------

\* A task that goes on to its next step, and one that ends.
LEMMA GotoType ==
    ASSUME job \in [Tasks -> Jobs], NEW t \in Tasks, NEW at \in Steps, Goto(t, at)
    PROVE  job' \in [Tasks -> Jobs]
    BY DEF Goto, Jobs

LEMMA FinishType ==
    ASSUME job \in [Tasks -> Jobs], NEW t \in Tasks, Finish(t)
    PROVE  job' \in [Tasks -> Jobs]
    BY DEF Finish, Jobs, Idle, Ops, Steps

\* Every step keeps the types.
LEMMA TypeStep == TrustTypeOK /\ [TrustNext]_trustVars => TrustTypeOK'
<1> SUFFICES ASSUME TrustTypeOK, [TrustNext]_trustVars PROVE  TrustTypeOK'
    OBVIOUS
<1> USE DEF TrustTypeOK, Jobs, Ops, Steps, Faults, Idle, trustHistory, Tasks
<1>1. ASSUME NEW t \in Tasks, Continue(t) PROVE  TrustTypeOK'
  <2>1. CASE LockDisk(t)
      BY <2>1 DEF LockDisk, Goto, DiskFree
  <2>2. CASE ReadTrusted(t)
      BY <2>2 DEF ReadTrusted, Goto
  <2>3. CASE WritePeers(t)
      BY <2>3 DEF WritePeers, Goto
  <2>4. CASE Distrust(t)
      BY <2>4 DEF Distrust
  <2>5. CASE Purge(t)
      BY <2>5 DEF Purge, Goto
  <2>6. CASE Removed(t)
      BY <2>6 DEF Removed, Finish
  <2>7. CASE PutBack(t)
      <3>1. job' \in [Tasks -> Jobs]
          <4>1. Goto(t, "repend") => job' \in [Tasks -> Jobs]
              BY GotoType
          <4>2. Finish(t) => job' \in [Tasks -> Jobs]
              BY FinishType
          <4> QED BY <2>7, <4>1, <4>2 DEF PutBack
      <3>2. /\ trusted' \subseteq Devices /\ disk' \subseteq Devices /\ pending' \subseteq Devices
           /\ window' \in BOOLEAN /\ linked' \subseteq Devices /\ snap' \subseteq Devices
           /\ unverified' \subseteq trusted' /\ refused' \subseteq Devices /\ faults' \subseteq Faults
          BY <2>7 DEF PutBack
      <3> QED BY <3>1, <3>2
  <2>8. CASE Repend(t)
      BY <2>8 DEF Repend, Finish
  <2>9. CASE NoteAddr(t)
      <3>1. job' \in [Tasks -> Jobs]
          <4>1. Goto(t, "addr") => job' \in [Tasks -> Jobs]
              BY GotoType
          <4>3. Goto(t, "pend") => job' \in [Tasks -> Jobs]
              BY GotoType
          <4>2. Finish(t) => job' \in [Tasks -> Jobs]
              BY FinishType
          <4> QED BY <2>9, <4>1, <4>3, <4>2 DEF NoteAddr, AfterNote
      <3>2. /\ trusted' \subseteq Devices /\ disk' \subseteq Devices /\ pending' \subseteq Devices
           /\ window' \in BOOLEAN /\ linked' \subseteq Devices /\ snap' \subseteq Devices
           /\ unverified' \subseteq trusted' /\ refused' \subseteq Devices /\ faults' \subseteq Faults
          BY <2>9 DEF NoteAddr
      <3> QED BY <3>1, <3>2
  <2>10. CASE StoreAddr(t)
      <3>1. job' \in [Tasks -> Jobs]
          <4>1. Goto(t, "pend") => job' \in [Tasks -> Jobs]
              BY GotoType
          <4>2. Finish(t) => job' \in [Tasks -> Jobs]
              BY FinishType
          <4> QED BY <2>10, <4>1, <4>2 DEF StoreAddr, AfterNote
      <3>2. /\ trusted' \subseteq Devices /\ disk' \subseteq Devices /\ pending' \subseteq Devices
           /\ window' \in BOOLEAN /\ linked' \subseteq Devices /\ snap' \subseteq Devices
           /\ unverified' \subseteq trusted' /\ refused' \subseteq Devices /\ faults' \subseteq Faults
          BY <2>10 DEF StoreAddr, Store, StoreFails
      <3> QED BY <3>1, <3>2
  <2>11. CASE Pend(t)
      <3>1. job' \in [Tasks -> Jobs]
          <4>1. Goto(t, "install") => job' \in [Tasks -> Jobs]
              BY GotoType
          <4>2. Finish(t) => job' \in [Tasks -> Jobs]
              BY FinishType
          <4> QED BY <2>11, <4>1, <4>2 DEF Pend
      <3>2. /\ trusted' \subseteq Devices /\ disk' \subseteq Devices /\ pending' \subseteq Devices
           /\ window' \in BOOLEAN /\ linked' \subseteq Devices /\ snap' \subseteq Devices
           /\ unverified' \subseteq trusted' /\ refused' \subseteq Devices /\ faults' \subseteq Faults
          BY <2>11 DEF Pend
      <3> QED BY <3>1, <3>2
  <2>12. CASE t = "cmd" /\ Clear
      BY <2>12 DEF Clear, Goto
  <2>13. CASE t = "cmd" /\ InsertPaired
      BY <2>13 DEF InsertPaired, Goto
  <2>14. CASE t = "cmd" /\ StorePaired
      <3>1. job' \in [Tasks -> Jobs]
          <4>1. Finish("cmd") => job' \in [Tasks -> Jobs]
              BY FinishType
          <4>2. ASSUME NEW h \in Handshakes,
                       job' = [job EXCEPT !["cmd"] = Idle,
                          ![h] = [job["cmd"] EXCEPT !.op = "Dial", !.at = "dial"]]
                PROVE  job' \in [Tasks -> Jobs]
              <5>1. job["cmd"] \in Jobs
                  BY DEF Jobs
              <5>2. [job["cmd"] EXCEPT !.op = "Dial", !.at = "dial"] \in Jobs
                  BY <5>1 DEF Jobs
              <5>3. Idle \in Jobs
                  BY DEF Jobs
              <5> QED BY <4>2, <5>2, <5>3
          <4> QED BY <2>14, <4>1, <4>2 DEF StorePaired
      <3>2. /\ trusted' \subseteq Devices /\ disk' \subseteq Devices /\ pending' \subseteq Devices
           /\ window' \in BOOLEAN /\ linked' \subseteq Devices /\ snap' \subseteq Devices
           /\ unverified' \subseteq trusted' /\ refused' \subseteq Devices /\ faults' \subseteq Faults
          BY <2>14 DEF StorePaired, Store
      <3> QED BY <3>1, <3>2
  <2>15. CASE t = "cmd" /\ StorePairedFails
      BY <2>15 DEF StorePairedFails, Goto, StoreFails, DiskFree
  <2>16. CASE t = "cmd" /\ DropPaired
      BY <2>16 DEF DropPaired, Finish
  <2>17. CASE t \in Handshakes /\ StoreNew(t)
      BY <2>17 DEF StoreNew, Goto, Store, DiskFree
  <2>18. CASE t \in Handshakes /\ StoreNewFails(t)
      BY <2>18 DEF StoreNewFails, Finish, StoreFails, DiskFree
  <2>19. CASE t \in Handshakes /\ Answered(t)
      <3>1. job' \in [Tasks -> Jobs]
          <4>1. Goto(t, "install") => job' \in [Tasks -> Jobs]
              BY GotoType
          <4>2. Finish(t) => job' \in [Tasks -> Jobs]
              BY FinishType
          <4> QED BY <2>19, <4>1, <4>2 DEF Answered
      <3>2. /\ trusted' \subseteq Devices /\ disk' \subseteq Devices /\ pending' \subseteq Devices
           /\ window' \in BOOLEAN /\ linked' \subseteq Devices /\ snap' \subseteq Devices
           /\ unverified' \subseteq trusted' /\ refused' \subseteq Devices /\ faults' \subseteq Faults
          BY <2>19 DEF Answered
      <3> QED BY <3>1, <3>2
  <2>20. CASE t \in Handshakes /\ Install(t)
      <3>1. job' \in [Tasks -> Jobs]
          <4>1. Goto(t, "note") => job' \in [Tasks -> Jobs]
              BY GotoType
          <4>2. Finish(t) => job' \in [Tasks -> Jobs]
              BY FinishType
          <4> QED BY <2>20, <4>1, <4>2 DEF Install
      <3>2. /\ trusted' \subseteq Devices /\ disk' \subseteq Devices /\ pending' \subseteq Devices
           /\ window' \in BOOLEAN /\ linked' \subseteq Devices /\ snap' \subseteq Devices
           /\ unverified' \subseteq trusted' /\ refused' \subseteq Devices /\ faults' \subseteq Faults
          BY <2>20 DEF Install
      <3> QED BY <3>1, <3>2
  <2> QED BY <1>1, <2>1, <2>2, <2>3, <2>4, <2>5, <2>6, <2>7, <2>8, <2>9, <2>10, <2>11, <2>12, <2>13, <2>14, <2>15, <2>16, <2>17, <2>18, <2>19, <2>20 DEF Continue
<1>2. CASE CmdUnpair
    BY <1>2 DEF CmdUnpair
<1>3. CASE CmdList
    BY <1>3 DEF CmdList
<1>4. CASE CmdShow
    BY <1>4 DEF CmdShow
<1>5. CASE WindowCloses
    BY <1>5 DEF WindowCloses
<1>6. CASE Restart
    BY <1>6 DEF Restart
<1>7. ASSUME NEW p \in Devices, Request(p) PROVE  TrustTypeOK'
  <2>1. CASE CmdRevoke(p)
      BY <2>1 DEF CmdRevoke, Begin
  <2>2. CASE CmdReject(p)
      BY <2>2 DEF CmdReject, Begin
  <2>3. CASE CmdAccept(p)
      BY <2>3 DEF CmdAccept
  <2>4. CASE CmdPair(p)
      BY <2>4 DEF CmdPair, Begin
  <2>5. CASE RecvRevoke(p)
      BY <2>5 DEF RecvRevoke, Begin
  <2>6. CASE RecvReject(p)
      BY <2>6 DEF RecvReject, Begin
  <2>7. CASE RecvVerify(p)
      BY <2>7 DEF RecvVerify, Begin
  <2>8. CASE RecvRoam(p)
      BY <2>8 DEF RecvRoam, Begin
  <2>9. CASE LinkDrops(p)
      BY <2>9 DEF LinkDrops
  <2> QED BY <1>7, <2>1, <2>2, <2>3, <2>4, <2>5, <2>6, <2>7, <2>8, <2>9 DEF Request
<1>8. ASSUME NEW h \in Handshakes, NEW p \in Devices, Handshake(h, p) PROVE  TrustTypeOK'
  <2>1. CASE RespondKnown(h, p)
      BY <2>1 DEF RespondKnown, Begin
  <2>2. CASE RespondNew(h, p)
      BY <2>2 DEF RespondNew, Begin
  <2>3. CASE Redial(h, p)
      BY <2>3 DEF Redial, Begin
  <2> QED BY <1>8, <2>1, <2>2, <2>3 DEF Handshake
<1>9. ASSUME NEW expired \in SUBSET pending, Reap(expired) PROVE  TrustTypeOK'
    BY <1>9 DEF Reap, Begin
<1>10. CASE UNCHANGED trustVars
    BY <1>10 DEF trustVars, trustHistory
<1> QED BY <1>1, <1>2, <1>3, <1>4, <1>5, <1>6, <1>7, <1>8, <1>9, <1>10 DEF TrustNext

-----------------------------------------------------------------------------

\* One save holds the disk lock.
Exclusive ==
    \A t, u \in Tasks :
        job[t].at \in {"read", "write"} /\ job[u].at \in {"read", "write"} => t = u

\* Nothing failed as long as every write lands.
NothingFailed ==
    "write" \notin faults => \A t \in Tasks : job[t].at \notin {"failed", "unstored"}

\* What a save is about to write holds every trusted peer nobody else stores.
SnapKeeps ==
    "write" \notin faults =>
        \A t \in Tasks : job[t].at = "write" => \A p \in trusted \ snap : Storing(p)

\* What a save is about to write of a removed peer, a later save takes out.
SnapDrops ==
    faults \cap {"write", "read", "stale"} = {} =>
        \A t \in Tasks : job[t].at = "write" =>
            \A p \in snap \ trusted : \E u \in Tasks : job[u].at \in {"purge", "save"}

\* Storing a paired peer: the command ends, and an idle handshake task may dial.
LEMMA StorePairedJobs ==
    ASSUME TrustTypeOK, StorePaired
    PROVE  \A u \in Tasks :
               \/ u # "cmd" /\ job'[u] = job[u]
               \/ (u = "cmd" \/ job[u].at = "none") /\ job'[u].at \in {"none", "dial"}
<1> USE DEF TrustTypeOK, Idle, Tasks
<1>1. CASE Finish("cmd")
    BY <1>1 DEF Finish
<1>2. ASSUME NEW h \in Handshakes, job[h] = Idle,
             job' = [job EXCEPT !["cmd"] = Idle,
                ![h] = [job["cmd"] EXCEPT !.op = "Dial", !.at = "dial"]]
      PROVE  \A u \in Tasks :
                 \/ u # "cmd" /\ job'[u] = job[u]
                 \/ (u = "cmd" \/ job[u].at = "none") /\ job'[u].at \in {"none", "dial"}
    BY <1>2 DEF Jobs
<1> QED BY <1>1, <1>2 DEF StorePaired


\* Every step keeps the disk lock with one save.
LEMMA ExclusiveStep == TrustTypeOK /\ Exclusive /\ [TrustNext]_trustVars => Exclusive'
<1> SUFFICES ASSUME TrustTypeOK, Exclusive, [TrustNext]_trustVars PROVE  Exclusive'
    OBVIOUS
<1> USE DEF TrustTypeOK, Jobs, Idle, trustHistory, Exclusive
<1>1. ASSUME NEW t \in Tasks, Continue(t) PROVE  Exclusive'
  <2>1. CASE LockDisk(t)
      BY <2>1 DEF LockDisk, Goto, DiskFree
  <2>2. CASE ReadTrusted(t)
      BY <2>2 DEF ReadTrusted, Goto
  <2>3. CASE WritePeers(t)
      BY <2>3 DEF WritePeers, Goto
  <2>4. CASE Distrust(t)
      BY <2>4 DEF Distrust
  <2>5. CASE Purge(t)
      BY <2>5 DEF Purge, Goto
  <2>6. CASE Removed(t)
      BY <2>6 DEF Removed, Finish
  <2>7. CASE PutBack(t)
      BY <2>7 DEF PutBack, Goto, Finish
  <2>8. CASE Repend(t)
      BY <2>8 DEF Repend, Finish
  <2>9. CASE NoteAddr(t)
      BY <2>9 DEF NoteAddr, Goto, AfterNote, Finish
  <2>10. CASE StoreAddr(t)
      BY <2>10 DEF StoreAddr, Goto, AfterNote, Finish, Store, StoreFails, DiskFree
  <2>11. CASE Pend(t)
      BY <2>11 DEF Pend, Goto, Finish
  <2>12. CASE t = "cmd" /\ Clear
      BY <2>12 DEF Clear, Goto
  <2>13. CASE t = "cmd" /\ InsertPaired
      BY <2>13 DEF InsertPaired, Goto
  <2>14. CASE t = "cmd" /\ StorePaired
      BY <2>14, StorePairedJobs DEF StorePaired, Store, DiskFree
  <2>15. CASE t = "cmd" /\ StorePairedFails
      BY <2>15 DEF StorePairedFails, Goto, StoreFails, DiskFree
  <2>16. CASE t = "cmd" /\ DropPaired
      BY <2>16 DEF DropPaired, Finish
  <2>17. CASE t \in Handshakes /\ StoreNew(t)
      BY <2>17 DEF StoreNew, Goto, Store, DiskFree
  <2>18. CASE t \in Handshakes /\ StoreNewFails(t)
      BY <2>18 DEF StoreNewFails, Finish, StoreFails, DiskFree
  <2>19. CASE t \in Handshakes /\ Answered(t)
      BY <2>19 DEF Answered, Goto, Finish
  <2>20. CASE t \in Handshakes /\ Install(t)
      BY <2>20 DEF Install, Goto, Finish
  <2> QED BY <1>1, <2>1, <2>2, <2>3, <2>4, <2>5, <2>6, <2>7, <2>8, <2>9, <2>10, <2>11, <2>12, <2>13, <2>14, <2>15, <2>16, <2>17, <2>18, <2>19, <2>20 DEF Continue
<1>2. CASE CmdUnpair
    BY <1>2 DEF CmdUnpair
<1>3. CASE CmdList
    BY <1>3 DEF CmdList
<1>4. CASE CmdShow
    BY <1>4 DEF CmdShow
<1>5. CASE WindowCloses
    BY <1>5 DEF WindowCloses
<1>6. CASE Restart
    BY <1>6 DEF Restart
<1>7. ASSUME NEW p \in Devices, Request(p) PROVE  Exclusive'
  <2>1. CASE CmdRevoke(p)
      BY <2>1 DEF CmdRevoke, Begin
  <2>2. CASE CmdReject(p)
      BY <2>2 DEF CmdReject, Begin
  <2>3. CASE CmdAccept(p)
      BY <2>3 DEF CmdAccept
  <2>4. CASE CmdPair(p)
      BY <2>4 DEF CmdPair, Begin
  <2>5. CASE RecvRevoke(p)
      BY <2>5 DEF RecvRevoke, Begin
  <2>6. CASE RecvReject(p)
      BY <2>6 DEF RecvReject, Begin
  <2>7. CASE RecvVerify(p)
      BY <2>7 DEF RecvVerify, Begin
  <2>8. CASE RecvRoam(p)
      BY <2>8 DEF RecvRoam, Begin
  <2>9. CASE LinkDrops(p)
      BY <2>9 DEF LinkDrops
  <2> QED BY <1>7, <2>1, <2>2, <2>3, <2>4, <2>5, <2>6, <2>7, <2>8, <2>9 DEF Request
<1>8. ASSUME NEW h \in Handshakes, NEW p \in Devices, Handshake(h, p) PROVE  Exclusive'
  <2>1. CASE RespondKnown(h, p)
      BY <2>1 DEF RespondKnown, Begin
  <2>2. CASE RespondNew(h, p)
      BY <2>2 DEF RespondNew, Begin
  <2>3. CASE Redial(h, p)
      BY <2>3 DEF Redial, Begin
  <2> QED BY <1>8, <2>1, <2>2, <2>3 DEF Handshake
<1>9. ASSUME NEW expired \in SUBSET pending, Reap(expired) PROVE  Exclusive'
    BY <1>9 DEF Reap, Begin
<1>10. CASE UNCHANGED trustVars
    BY <1>10 DEF trustVars, trustHistory
<1> QED BY <1>1, <1>2, <1>3, <1>4, <1>5, <1>6, <1>7, <1>8, <1>9, <1>10 DEF TrustNext

\* Every step that fails is a fault.
LEMMA FailedStep == TrustTypeOK /\ NothingFailed /\ [TrustNext]_trustVars => NothingFailed'
<1> SUFFICES ASSUME TrustTypeOK, NothingFailed, [TrustNext]_trustVars PROVE  NothingFailed'
    OBVIOUS
<1> USE DEF TrustTypeOK, Jobs, Idle, trustHistory, NothingFailed
<1>1. ASSUME NEW t \in Tasks, Continue(t) PROVE  NothingFailed'
  <2>1. CASE LockDisk(t)
      BY <2>1 DEF LockDisk, Goto, DiskFree
  <2>2. CASE ReadTrusted(t)
      BY <2>2 DEF ReadTrusted, Goto
  <2>3. CASE WritePeers(t)
      BY <2>3 DEF WritePeers, Goto
  <2>4. CASE Distrust(t)
      BY <2>4 DEF Distrust
  <2>5. CASE Purge(t)
      BY <2>5 DEF Purge, Goto
  <2>6. CASE Removed(t)
      BY <2>6 DEF Removed, Finish
  <2>7. CASE PutBack(t)
      BY <2>7 DEF PutBack, Goto, Finish
  <2>8. CASE Repend(t)
      BY <2>8 DEF Repend, Finish
  <2>9. CASE NoteAddr(t)
      BY <2>9 DEF NoteAddr, Goto, AfterNote, Finish
  <2>10. CASE StoreAddr(t)
      BY <2>10 DEF StoreAddr, Goto, AfterNote, Finish, Store, StoreFails, DiskFree
  <2>11. CASE Pend(t)
      BY <2>11 DEF Pend, Goto, Finish
  <2>12. CASE t = "cmd" /\ Clear
      BY <2>12 DEF Clear, Goto
  <2>13. CASE t = "cmd" /\ InsertPaired
      BY <2>13 DEF InsertPaired, Goto
  <2>14. CASE t = "cmd" /\ StorePaired
      BY <2>14, StorePairedJobs DEF StorePaired, Store, DiskFree
  <2>15. CASE t = "cmd" /\ StorePairedFails
      BY <2>15 DEF StorePairedFails, Goto, StoreFails, DiskFree
  <2>16. CASE t = "cmd" /\ DropPaired
      BY <2>16 DEF DropPaired, Finish
  <2>17. CASE t \in Handshakes /\ StoreNew(t)
      BY <2>17 DEF StoreNew, Goto, Store, DiskFree
  <2>18. CASE t \in Handshakes /\ StoreNewFails(t)
      BY <2>18 DEF StoreNewFails, Finish, StoreFails, DiskFree
  <2>19. CASE t \in Handshakes /\ Answered(t)
      BY <2>19 DEF Answered, Goto, Finish
  <2>20. CASE t \in Handshakes /\ Install(t)
      BY <2>20 DEF Install, Goto, Finish
  <2> QED BY <1>1, <2>1, <2>2, <2>3, <2>4, <2>5, <2>6, <2>7, <2>8, <2>9, <2>10, <2>11, <2>12, <2>13, <2>14, <2>15, <2>16, <2>17, <2>18, <2>19, <2>20 DEF Continue
<1>2. CASE CmdUnpair
    BY <1>2 DEF CmdUnpair
<1>3. CASE CmdList
    BY <1>3 DEF CmdList
<1>4. CASE CmdShow
    BY <1>4 DEF CmdShow
<1>5. CASE WindowCloses
    BY <1>5 DEF WindowCloses
<1>6. CASE Restart
    BY <1>6 DEF Restart
<1>7. ASSUME NEW p \in Devices, Request(p) PROVE  NothingFailed'
  <2>1. CASE CmdRevoke(p)
      BY <2>1 DEF CmdRevoke, Begin
  <2>2. CASE CmdReject(p)
      BY <2>2 DEF CmdReject, Begin
  <2>3. CASE CmdAccept(p)
      BY <2>3 DEF CmdAccept
  <2>4. CASE CmdPair(p)
      BY <2>4 DEF CmdPair, Begin
  <2>5. CASE RecvRevoke(p)
      BY <2>5 DEF RecvRevoke, Begin
  <2>6. CASE RecvReject(p)
      BY <2>6 DEF RecvReject, Begin
  <2>7. CASE RecvVerify(p)
      BY <2>7 DEF RecvVerify, Begin
  <2>8. CASE RecvRoam(p)
      BY <2>8 DEF RecvRoam, Begin
  <2>9. CASE LinkDrops(p)
      BY <2>9 DEF LinkDrops
  <2> QED BY <1>7, <2>1, <2>2, <2>3, <2>4, <2>5, <2>6, <2>7, <2>8, <2>9 DEF Request
<1>8. ASSUME NEW h \in Handshakes, NEW p \in Devices, Handshake(h, p) PROVE  NothingFailed'
  <2>1. CASE RespondKnown(h, p)
      BY <2>1 DEF RespondKnown, Begin
  <2>2. CASE RespondNew(h, p)
      BY <2>2 DEF RespondNew, Begin
  <2>3. CASE Redial(h, p)
      BY <2>3 DEF Redial, Begin
  <2> QED BY <1>8, <2>1, <2>2, <2>3 DEF Handshake
<1>9. ASSUME NEW expired \in SUBSET pending, Reap(expired) PROVE  NothingFailed'
    BY <1>9 DEF Reap, Begin
<1>10. CASE UNCHANGED trustVars
    BY <1>10 DEF trustVars, trustHistory
<1> QED BY <1>1, <1>2, <1>3, <1>4, <1>5, <1>6, <1>7, <1>8, <1>9, <1>10 DEF TrustNext

\* Every step keeps the trusted peers on disk or on their way there.
LEMMA KeepStep == TrustTypeOK /\ Exclusive /\ NothingFailed /\ TrustSurvivesRestart /\ SnapKeeps /\ [TrustNext]_trustVars => (TrustSurvivesRestart /\ SnapKeeps)'
<1> SUFFICES ASSUME TrustTypeOK, Exclusive, NothingFailed, TrustSurvivesRestart, SnapKeeps, [TrustNext]_trustVars PROVE  (TrustSurvivesRestart /\ SnapKeeps)'
    OBVIOUS
<1> USE DEF TrustTypeOK, Jobs, Idle, trustHistory, Exclusive, NothingFailed, TrustSurvivesRestart, SnapKeeps, Storing
<1>1. ASSUME NEW t \in Tasks, Continue(t) PROVE  (TrustSurvivesRestart /\ SnapKeeps)'
  <2>1. CASE LockDisk(t)
      BY <2>1 DEF LockDisk, Goto, DiskFree
  <2>2. CASE ReadTrusted(t)
      BY <2>2 DEF ReadTrusted, Goto
  <2>3. CASE WritePeers(t)
      BY <2>3 DEF WritePeers, Goto
  <2>4. CASE Distrust(t)
      BY <2>4 DEF Distrust
  <2>5. CASE Purge(t)
      BY <2>5 DEF Purge, Goto
  <2>6. CASE Removed(t)
      BY <2>6 DEF Removed, Finish
  <2>7. CASE PutBack(t)
      BY <2>7 DEF PutBack, Goto, Finish
  <2>8. CASE Repend(t)
      BY <2>8 DEF Repend, Finish
  <2>9. CASE NoteAddr(t)
      BY <2>9 DEF NoteAddr, Goto, AfterNote, Finish
  <2>10. CASE StoreAddr(t)
      BY <2>10 DEF StoreAddr, Goto, AfterNote, Finish, Store, StoreFails, DiskFree
  <2>11. CASE Pend(t)
      BY <2>11 DEF Pend, Goto, Finish
  <2>12. CASE t = "cmd" /\ Clear
      BY <2>12 DEF Clear, Goto
  <2>13. CASE t = "cmd" /\ InsertPaired
      BY <2>13 DEF InsertPaired, Goto
  <2>14. CASE t = "cmd" /\ StorePaired
      BY <2>14, StorePairedJobs DEF StorePaired, Store, DiskFree
  <2>15. CASE t = "cmd" /\ StorePairedFails
      BY <2>15 DEF StorePairedFails, Goto, StoreFails, DiskFree
  <2>16. CASE t = "cmd" /\ DropPaired
      BY <2>16 DEF DropPaired, Finish
  <2>17. CASE t \in Handshakes /\ StoreNew(t)
      BY <2>17 DEF StoreNew, Goto, Store, DiskFree
  <2>18. CASE t \in Handshakes /\ StoreNewFails(t)
      BY <2>18 DEF StoreNewFails, Finish, StoreFails, DiskFree
  <2>19. CASE t \in Handshakes /\ Answered(t)
      BY <2>19 DEF Answered, Goto, Finish
  <2>20. CASE t \in Handshakes /\ Install(t)
      BY <2>20 DEF Install, Goto, Finish
  <2> QED BY <1>1, <2>1, <2>2, <2>3, <2>4, <2>5, <2>6, <2>7, <2>8, <2>9, <2>10, <2>11, <2>12, <2>13, <2>14, <2>15, <2>16, <2>17, <2>18, <2>19, <2>20 DEF Continue
<1>2. CASE CmdUnpair
    BY <1>2 DEF CmdUnpair
<1>3. CASE CmdList
    BY <1>3 DEF CmdList
<1>4. CASE CmdShow
    BY <1>4 DEF CmdShow
<1>5. CASE WindowCloses
    BY <1>5 DEF WindowCloses
<1>6. CASE Restart
    BY <1>6 DEF Restart
<1>7. ASSUME NEW p \in Devices, Request(p) PROVE  (TrustSurvivesRestart /\ SnapKeeps)'
  <2>1. CASE CmdRevoke(p)
      BY <2>1 DEF CmdRevoke, Begin
  <2>2. CASE CmdReject(p)
      BY <2>2 DEF CmdReject, Begin
  <2>3. CASE CmdAccept(p)
      BY <2>3 DEF CmdAccept
  <2>4. CASE CmdPair(p)
      BY <2>4 DEF CmdPair, Begin
  <2>5. CASE RecvRevoke(p)
      BY <2>5 DEF RecvRevoke, Begin
  <2>6. CASE RecvReject(p)
      BY <2>6 DEF RecvReject, Begin
  <2>7. CASE RecvVerify(p)
      BY <2>7 DEF RecvVerify, Begin
  <2>8. CASE RecvRoam(p)
      BY <2>8 DEF RecvRoam, Begin
  <2>9. CASE LinkDrops(p)
      BY <2>9 DEF LinkDrops
  <2> QED BY <1>7, <2>1, <2>2, <2>3, <2>4, <2>5, <2>6, <2>7, <2>8, <2>9 DEF Request
<1>8. ASSUME NEW h \in Handshakes, NEW p \in Devices, Handshake(h, p) PROVE  (TrustSurvivesRestart /\ SnapKeeps)'
  <2>1. CASE RespondKnown(h, p)
      BY <2>1 DEF RespondKnown, Begin
  <2>2. CASE RespondNew(h, p)
      <3>1. job'[h].at = "upsert" /\ job'[h].who = {p}
          BY <2>2 DEF RespondNew, Begin, Tasks
      <3>2. \A u \in Tasks : job[u].at \in {"upsert", "write"} => job'[u] = job[u]
          BY <2>2 DEF RespondNew, Begin
      <3>3. \A u \in Tasks : job'[u].at = "write" => job[u].at = "write"
          BY <2>2 DEF RespondNew, Begin
      <3> QED BY <2>2, <3>1, <3>2, <3>3 DEF RespondNew, Tasks
  <2>3. CASE Redial(h, p)
      BY <2>3 DEF Redial, Begin
  <2> QED BY <1>8, <2>1, <2>2, <2>3 DEF Handshake
<1>9. ASSUME NEW expired \in SUBSET pending, Reap(expired) PROVE  (TrustSurvivesRestart /\ SnapKeeps)'
    BY <1>9 DEF Reap, Begin
<1>10. CASE UNCHANGED trustVars
    BY <1>10 DEF trustVars, trustHistory
<1> QED BY <1>1, <1>2, <1>3, <1>4, <1>5, <1>6, <1>7, <1>8, <1>9, <1>10 DEF TrustNext

\* Every step keeps the removed peers off the disk or on their way off.
LEMMA DropStep == TrustTypeOK /\ Exclusive /\ NothingFailed /\ RemovalReachesDisk /\ SnapDrops /\ [TrustNext]_trustVars => (RemovalReachesDisk /\ SnapDrops)'
<1> SUFFICES ASSUME TrustTypeOK, Exclusive, NothingFailed, RemovalReachesDisk, SnapDrops, [TrustNext]_trustVars PROVE  (RemovalReachesDisk /\ SnapDrops)'
    OBVIOUS
<1> USE DEF TrustTypeOK, Jobs, Idle, trustHistory, Exclusive, NothingFailed, RemovalReachesDisk, SnapDrops, Removing
<1>1. ASSUME NEW t \in Tasks, Continue(t) PROVE  (RemovalReachesDisk /\ SnapDrops)'
  <2>1. CASE LockDisk(t)
      BY <2>1 DEF LockDisk, Goto, DiskFree
  <2>2. CASE ReadTrusted(t)
      BY <2>2 DEF ReadTrusted, Goto
  <2>3. CASE WritePeers(t)
      BY <2>3 DEF WritePeers, Goto
  <2>4. CASE Distrust(t)
      BY <2>4 DEF Distrust
  <2>5. CASE Purge(t)
      BY <2>5 DEF Purge, Goto
  <2>6. CASE Removed(t)
      BY <2>6 DEF Removed, Finish
  <2>7. CASE PutBack(t)
      BY <2>7 DEF PutBack, Goto, Finish
  <2>8. CASE Repend(t)
      BY <2>8 DEF Repend, Finish
  <2>9. CASE NoteAddr(t)
      BY <2>9 DEF NoteAddr, Goto, AfterNote, Finish
  <2>10. CASE StoreAddr(t)
      BY <2>10 DEF StoreAddr, Goto, AfterNote, Finish, Store, StoreFails, DiskFree
  <2>11. CASE Pend(t)
      BY <2>11 DEF Pend, Goto, Finish
  <2>12. CASE t = "cmd" /\ Clear
      BY <2>12 DEF Clear, Goto
  <2>13. CASE t = "cmd" /\ InsertPaired
      BY <2>13 DEF InsertPaired, Goto
  <2>14. CASE t = "cmd" /\ StorePaired
      BY <2>14, StorePairedJobs DEF StorePaired, Store, DiskFree
  <2>15. CASE t = "cmd" /\ StorePairedFails
      BY <2>15 DEF StorePairedFails, Goto, StoreFails, DiskFree
  <2>16. CASE t = "cmd" /\ DropPaired
      BY <2>16 DEF DropPaired, Finish
  <2>17. CASE t \in Handshakes /\ StoreNew(t)
      BY <2>17 DEF StoreNew, Goto, Store, DiskFree
  <2>18. CASE t \in Handshakes /\ StoreNewFails(t)
      BY <2>18 DEF StoreNewFails, Finish, StoreFails, DiskFree
  <2>19. CASE t \in Handshakes /\ Answered(t)
      BY <2>19 DEF Answered, Goto, Finish
  <2>20. CASE t \in Handshakes /\ Install(t)
      BY <2>20 DEF Install, Goto, Finish
  <2> QED BY <1>1, <2>1, <2>2, <2>3, <2>4, <2>5, <2>6, <2>7, <2>8, <2>9, <2>10, <2>11, <2>12, <2>13, <2>14, <2>15, <2>16, <2>17, <2>18, <2>19, <2>20 DEF Continue
<1>2. CASE CmdUnpair
    BY <1>2 DEF CmdUnpair
<1>3. CASE CmdList
    BY <1>3 DEF CmdList
<1>4. CASE CmdShow
    BY <1>4 DEF CmdShow
<1>5. CASE WindowCloses
    BY <1>5 DEF WindowCloses
<1>6. CASE Restart
    BY <1>6 DEF Restart
<1>7. ASSUME NEW p \in Devices, Request(p) PROVE  (RemovalReachesDisk /\ SnapDrops)'
  <2>1. CASE CmdRevoke(p)
      BY <2>1 DEF CmdRevoke, Begin
  <2>2. CASE CmdReject(p)
      BY <2>2 DEF CmdReject, Begin
  <2>3. CASE CmdAccept(p)
      BY <2>3 DEF CmdAccept
  <2>4. CASE CmdPair(p)
      BY <2>4 DEF CmdPair, Begin
  <2>5. CASE RecvRevoke(p)
      BY <2>5 DEF RecvRevoke, Begin
  <2>6. CASE RecvReject(p)
      BY <2>6 DEF RecvReject, Begin
  <2>7. CASE RecvVerify(p)
      BY <2>7 DEF RecvVerify, Begin
  <2>8. CASE RecvRoam(p)
      BY <2>8 DEF RecvRoam, Begin
  <2>9. CASE LinkDrops(p)
      BY <2>9 DEF LinkDrops
  <2> QED BY <1>7, <2>1, <2>2, <2>3, <2>4, <2>5, <2>6, <2>7, <2>8, <2>9 DEF Request
<1>8. ASSUME NEW h \in Handshakes, NEW p \in Devices, Handshake(h, p) PROVE  (RemovalReachesDisk /\ SnapDrops)'
  <2>1. CASE RespondKnown(h, p)
      BY <2>1 DEF RespondKnown, Begin
  <2>2. CASE RespondNew(h, p)
      BY <2>2 DEF RespondNew, Begin
  <2>3. CASE Redial(h, p)
      BY <2>3 DEF Redial, Begin
  <2> QED BY <1>8, <2>1, <2>2, <2>3 DEF Handshake
<1>9. ASSUME NEW expired \in SUBSET pending, Reap(expired) PROVE  (RemovalReachesDisk /\ SnapDrops)'
    BY <1>9 DEF Reap, Begin
<1>10. CASE UNCHANGED trustVars
    BY <1>10 DEF trustVars, trustHistory
<1> QED BY <1>1, <1>2, <1>3, <1>4, <1>5, <1>6, <1>7, <1>8, <1>9, <1>10 DEF TrustNext

\* Every step keeps an unverified peer pending or being taken back.
LEMMA VerifyStep == TrustTypeOK /\ UnverifiedStaysPending /\ [TrustNext]_trustVars => UnverifiedStaysPending'
<1> SUFFICES ASSUME TrustTypeOK, UnverifiedStaysPending, [TrustNext]_trustVars PROVE  UnverifiedStaysPending'
    OBVIOUS
<1> USE DEF TrustTypeOK, Jobs, Idle, trustHistory, UnverifiedStaysPending
<1>1. ASSUME NEW t \in Tasks, Continue(t) PROVE  UnverifiedStaysPending'
  <2>1. CASE LockDisk(t)
      BY <2>1 DEF LockDisk, Goto, DiskFree
  <2>2. CASE ReadTrusted(t)
      BY <2>2 DEF ReadTrusted, Goto
  <2>3. CASE WritePeers(t)
      BY <2>3 DEF WritePeers, Goto
  <2>4. CASE Distrust(t)
      BY <2>4 DEF Distrust
  <2>5. CASE Purge(t)
      BY <2>5 DEF Purge, Goto
  <2>6. CASE Removed(t)
      BY <2>6 DEF Removed, Finish
  <2>7. CASE PutBack(t)
      BY <2>7 DEF PutBack, Goto, Finish
  <2>8. CASE Repend(t)
      BY <2>8 DEF Repend, Finish
  <2>9. CASE NoteAddr(t)
      BY <2>9 DEF NoteAddr, Goto, AfterNote, Finish
  <2>10. CASE StoreAddr(t)
      BY <2>10 DEF StoreAddr, Goto, AfterNote, Finish, Store, StoreFails, DiskFree
  <2>11. CASE Pend(t)
      BY <2>11 DEF Pend, Goto, Finish
  <2>12. CASE t = "cmd" /\ Clear
      BY <2>12 DEF Clear, Goto
  <2>13. CASE t = "cmd" /\ InsertPaired
      BY <2>13 DEF InsertPaired, Goto
  <2>14. CASE t = "cmd" /\ StorePaired
      BY <2>14, StorePairedJobs DEF StorePaired, Store, DiskFree
  <2>15. CASE t = "cmd" /\ StorePairedFails
      BY <2>15 DEF StorePairedFails, Goto, StoreFails, DiskFree
  <2>16. CASE t = "cmd" /\ DropPaired
      BY <2>16 DEF DropPaired, Finish
  <2>17. CASE t \in Handshakes /\ StoreNew(t)
      BY <2>17 DEF StoreNew, Goto, Store, DiskFree
  <2>18. CASE t \in Handshakes /\ StoreNewFails(t)
      BY <2>18 DEF StoreNewFails, Finish, StoreFails, DiskFree
  <2>19. CASE t \in Handshakes /\ Answered(t)
      BY <2>19 DEF Answered, Goto, Finish
  <2>20. CASE t \in Handshakes /\ Install(t)
      BY <2>20 DEF Install, Goto, Finish
  <2> QED BY <1>1, <2>1, <2>2, <2>3, <2>4, <2>5, <2>6, <2>7, <2>8, <2>9, <2>10, <2>11, <2>12, <2>13, <2>14, <2>15, <2>16, <2>17, <2>18, <2>19, <2>20 DEF Continue
<1>2. CASE CmdUnpair
    BY <1>2 DEF CmdUnpair
<1>3. CASE CmdList
    BY <1>3 DEF CmdList
<1>4. CASE CmdShow
    BY <1>4 DEF CmdShow
<1>5. CASE WindowCloses
    BY <1>5 DEF WindowCloses
<1>6. CASE Restart
    BY <1>6 DEF Restart
<1>7. ASSUME NEW p \in Devices, Request(p) PROVE  UnverifiedStaysPending'
  <2>1. CASE CmdRevoke(p)
      BY <2>1 DEF CmdRevoke, Begin
  <2>2. CASE CmdReject(p)
      <3>1. job'["cmd"].at = "distrust" /\ job'["cmd"].who = {p}
          BY <2>2 DEF CmdReject, Begin, Tasks
      <3>2. \A u \in Tasks : job[u].at \in {"distrust", "write"} => job'[u] = job[u]
          BY <2>2 DEF CmdReject, Begin
      <3> QED BY <2>2, <3>1, <3>2 DEF CmdReject, Tasks
  <2>3. CASE CmdAccept(p)
      BY <2>3 DEF CmdAccept
  <2>4. CASE CmdPair(p)
      BY <2>4 DEF CmdPair, Begin
  <2>5. CASE RecvRevoke(p)
      BY <2>5 DEF RecvRevoke, Begin
  <2>6. CASE RecvReject(p)
      <3>1. job'["recv"].at = "distrust" /\ job'["recv"].who = {p}
          BY <2>6 DEF RecvReject, Begin, Tasks
      <3>2. \A u \in Tasks : job[u].at \in {"distrust", "write"} => job'[u] = job[u]
          BY <2>6 DEF RecvReject, Begin
      <3> QED BY <2>6, <3>1, <3>2 DEF RecvReject, Tasks
  <2>7. CASE RecvVerify(p)
      BY <2>7 DEF RecvVerify, Begin
  <2>8. CASE RecvRoam(p)
      BY <2>8 DEF RecvRoam, Begin
  <2>9. CASE LinkDrops(p)
      BY <2>9 DEF LinkDrops
  <2> QED BY <1>7, <2>1, <2>2, <2>3, <2>4, <2>5, <2>6, <2>7, <2>8, <2>9 DEF Request
<1>8. ASSUME NEW h \in Handshakes, NEW p \in Devices, Handshake(h, p) PROVE  UnverifiedStaysPending'
  <2>1. CASE RespondKnown(h, p)
      BY <2>1 DEF RespondKnown, Begin
  <2>2. CASE RespondNew(h, p)
      BY <2>2 DEF RespondNew, Begin
  <2>3. CASE Redial(h, p)
      BY <2>3 DEF Redial, Begin
  <2> QED BY <1>8, <2>1, <2>2, <2>3 DEF Handshake
<1>9. ASSUME NEW expired \in SUBSET pending, Reap(expired) PROVE  UnverifiedStaysPending'
    <3>1. job'["reaper"].at = "distrust" /\ job'["reaper"].who = expired
        BY <1>9 DEF Reap, Begin, Tasks
    <3>2. \A u \in Tasks : job[u].at \in {"distrust", "write"} => job'[u] = job[u]
        BY <1>9 DEF Reap, Begin
    <3> QED BY <1>9, <3>1, <3>2 DEF Reap, Tasks
<1>10. CASE UNCHANGED trustVars
    BY <1>10 DEF trustVars, trustHistory
<1> QED BY <1>1, <1>2, <1>3, <1>4, <1>5, <1>6, <1>7, <1>8, <1>9, <1>10 DEF TrustNext

-----------------------------------------------------------------------------

\* The conjunction is inductive: the disk lock orders saves, and a save under
\* way holds what its snapshot says it holds.
TrustInv ==
    /\ TrustTypeOK /\ Exclusive /\ NothingFailed
    /\ TrustSurvivesRestart /\ SnapKeeps
    /\ RemovalReachesDisk /\ SnapDrops
    /\ UnverifiedStaysPending

\* A new daemon trusts nobody and has nothing on disk.
LEMMA TrustInvInit == TrustInit => TrustInv
<1> SUFFICES ASSUME TrustInit PROVE  TrustInv
    OBVIOUS
<1> USE DEF TrustInit, Idle
<1>1. TrustTypeOK
    BY DEF TrustTypeOK, Jobs, Ops, Steps
<1>2. Exclusive /\ NothingFailed
    BY DEF Exclusive, NothingFailed
<1>3. TrustSurvivesRestart /\ SnapKeeps
    BY DEF TrustSurvivesRestart, SnapKeeps
<1>4. RemovalReachesDisk /\ SnapDrops
    BY DEF RemovalReachesDisk, SnapDrops
<1>5. UnverifiedStaysPending
    BY DEF UnverifiedStaysPending
<1> QED BY <1>1, <1>2, <1>3, <1>4, <1>5 DEF TrustInv

LEMMA TrustInvStep == TrustInv /\ [TrustNext]_trustVars => TrustInv'
    BY TypeStep, ExclusiveStep, FailedStep, KeepStep, DropStep, VerifyStep DEF TrustInv

LEMMA TrustInvariance == TrustSpec => []TrustInv
    BY TrustInvInit, TrustInvStep, PTL DEF TrustSpec

\* Every variable keeps its type.
THEOREM TypeCorrect == TrustSpec => []TrustTypeOK
<1>1. TrustInv => TrustTypeOK
    BY DEF TrustInv
<1> QED BY <1>1, TrustInvariance, PTL

\* However many saves, pairings and handshakes interleave, a trusted peer is on
\* disk or about to be stored, as long as every write lands.
THEOREM TrustIsKept == TrustSpec => []TrustSurvivesRestart
<1>1. TrustInv => TrustSurvivesRestart
    BY DEF TrustInv
<1> QED BY <1>1, TrustInvariance, PTL

\* A removed peer is off the disk or a save is about to take it off, unless the
\* file failed or a task stored a peer it had looked up before.
THEOREM RemovalIsKept == TrustSpec => []RemovalReachesDisk
<1>1. TrustInv => RemovalReachesDisk
    BY DEF TrustInv
<1> QED BY <1>1, TrustInvariance, PTL

\* A restart, a swept entry and a late revocation are the only ways for trust
\* nobody confirmed to escape the reaper.
THEOREM UnverifiedIsPending == TrustSpec => []UnverifiedStaysPending
<1>1. TrustInv => UnverifiedStaysPending
    BY DEF TrustInv
<1> QED BY <1>1, TrustInvariance, PTL
=============================================================================
