-------------------------- MODULE TransportProofs --------------------------
(***************************************************************************)
(* Theorems about Transport, for any devices, PeerConns and tasks: the     *)
(* keys of a handshake sit in one place whatever the scheduling, and the   *)
(* properties of operations that run to their end.                         *)
(***************************************************************************)
EXTENDS Transport, TLAPS

-----------------------------------------------------------------------------
\* Types, and which steps an operation goes through.

TaskType ==
    [op : Ops, at : Steps, peer : Remotes \cup {None}, conn : Conns \cup {None},
     own : Sessions \cup {None}, gen : Nat,
     saw : (Conns \X (Sessions \cup {None})) \cup {None},
     cands : SUBSET (Remotes \X Conns), again : BOOLEAN]

SlotsTyped ==
    /\ session \in [Conns -> Sessions \cup {None}]
    /\ label \in [Conns -> Remotes \cup {None}]
    /\ gen \in [Conns -> Nat]
    /\ extra \in [Remotes -> Extras \cup {None}]
    /\ born \subseteq Sessions
    /\ schedule \in Schedules

SlotTypeOK == SlotsTyped /\ task \in [Tasks -> TaskType]

\* What a record at a step of its operation carries.
Coherent(k) ==
    /\ k.op = "none" <=> k.at = "none"
    /\ k.op = "Install" => k.at \in {"shake", "cur", "live", "extra", "commit", "label", "bump"}
    /\ k.op = "Rekey" =>
          /\ k.at \in {"shake", "resolve", "commit", "cur", "live", "extra", "label"}
          /\ k.at \in {"cur", "live", "extra"} => k.again
          /\ k.saw \in Conns \X (Sessions \cup {None})
    /\ k.op = "Drop" => k.at \in {"resolve", "null", "bump"}
    /\ k.op = "Purge" => k.at \in {"resolve", "null", "bump", "unmap"}
    /\ k.op = "Promote" => k.at \in {"take", "move", "label", "bump"}
    /\ k.op = "Send" => k.at \in {"resolve", "read", "seal"}
    /\ k.op = "Recv" => k.at \in {"more", "open"} /\ k.own # None
    /\ k.op # "Recv" => k.cands = {}
    /\ k.again => k.op \in Installs /\ k.at \in {"cur", "live", "extra", "label"}
    /\ k.at \in {"commit", "label", "bump", "null", "take", "move", "read", "seal"} =>
          k.conn # None
    /\ k.op \in Installs => k.own # None /\ k.peer = Owner(k.own)
    /\ k.op \in {"Purge", "Promote", "Send"} => k.peer # None
    /\ k.at = "move" => k.own # None
    /\ k.op = "Drop" /\ k.at = "resolve" => k.peer # None
    /\ k.op = "Promote" /\ k.at # "take" => k.conn = Primary

Shape == SlotTypeOK /\ \A t \in Tasks : Coherent(task[t])

-----------------------------------------------------------------------------
\* Where the keys of a handshake are: in a slot, with the task that made them
\* and has not installed them, or with the promotion that moves them.

Holding(k) ==
    \/ k.op \in Installs /\ ~k.again
       /\ k.at \in {"shake", "cur", "live", "extra", "resolve", "commit"}
    \/ k.at = "move"

HolderInv ==
    /\ \A c \in Conns : session[c] # None => session[c] \in born
    /\ \A t \in Tasks : Holding(task[t]) => task[t].own \in born
    /\ \A c, d \in Conns : c # d /\ session[c] # None => session[c] # session[d]
    /\ \A t \in Tasks : Holding(task[t]) => \A c \in Conns : session[c] # task[t].own
    /\ \A t, u \in Tasks :
          t # u /\ Holding(task[t]) /\ Holding(task[u]) => task[t].own # task[u].own

-----------------------------------------------------------------------------
\* What holds when operations run to their end.

\* One operation is between two locks at a time.
OneRuns == \A t, u \in Tasks : Running(t) /\ Running(u) => t = u

\* A secondary slot is one device's, and holds a session with that device.
OwnSlots ==
    /\ \A p, q \in Remotes : p # q /\ extra[p] # None => extra[p] # extra[q]
    /\ \A p \in Remotes : extra[p] # None /\ session[extra[p]] # None =>
          Owner(session[extra[p]]) = p

\* A linked slot is labelled, or about to be.
Named ==
    \A c \in Conns : Linked(c) =>
        \/ label[c] = Owner(session[c])
        \/ \E t \in Tasks : task[t].at = "label" /\ task[t].conn = c

\* The slot an operation works on, by the step it is at.
Works(k) ==
    /\ k.op \in Installs /\ k.at \in {"commit", "label"} =>
          k.conn = Primary \/ k.conn = extra[k.peer]
    /\ k.at = "label" /\ session[k.conn] # None => Owner(session[k.conn]) = k.peer
    /\ k.at = "take" =>
          /\ k.conn \in Extras /\ \A p \in Remotes : extra[p] # k.conn
          /\ session[k.conn] # None => Owner(session[k.conn]) = k.peer
    /\ k.at = "move" => Owner(k.own) = k.peer
    /\ \A x \in k.cands :
          \/ x[2] = Primary /\ x[1] = label[Primary]
          \/ x[2] = extra[x[1]]

\* A rekey that is not over knows the slot it read at an earlier generation, or
\* still finds there what it saw.
Waiting(k) == k.op = "Rekey" /\ k.at \in {"shake", "resolve", "commit"}

Known(k) ==
    Waiting(k) =>
        LET c == k.saw[1]
        IN  c = Primary \/ (\E p \in Remotes : extra[p] = c) =>
                /\ k.gen <= gen[c]
                /\ k.gen = gen[c] /\ ~Changing(c) => session[c] = k.saw[2]

SlotsInv ==
    /\ OneRuns /\ OwnSlots /\ Named
    /\ \A t \in Tasks : Works(task[t]) /\ Known(task[t])

WholeInv == WholeOperations => SlotsInv
-----------------------------------------------------------------------------
\* A session is some device's, and None is not one.
LEMMA SessionFacts == \A s \in Sessions : s # None /\ Owner(s) \in Remotes
<1> SUFFICES ASSUME NEW s \in Sessions PROVE  s # None /\ Owner(s) \in Remotes
    OBVIOUS
<1>1. PICK p \in Remotes, n \in 1 .. MaxSessions : s = <<p, n>>
    BY DEF Sessions
<1>2. MaxSessions \in Nat
    BY SlotAssumption
<1>3. s \in Remotes \X Nat
    BY <1>1, <1>2
<1> QED BY <1>1, <1>3, SlotAssumption DEF Owner

\* The records stay typed and coherent.

LEMMA Replaced ==
    ASSUME Shape, NEW t \in Tasks, NEW k \in TaskType, Coherent(k),
           task' = [task EXCEPT ![t] = k], SlotsTyped'
    PROVE  Shape'
    BY DEF Shape, SlotTypeOK

LEMMA GotoShape ==
    ASSUME Shape, NEW t \in Tasks, NEW at \in Steps, Goto(t, at),
           Coherent([task[t] EXCEPT !.at = at]), SlotsTyped'
    PROVE  Shape'
<1>1. task[t] \in TaskType
    BY DEF Shape, SlotTypeOK
<1>2. [task[t] EXCEPT !.at = at] \in TaskType
    BY <1>1 DEF TaskType
<1> QED BY <1>2, Replaced DEF Goto

LEMMA IdleShape == Idle \in TaskType /\ Coherent(Idle)
    BY DEF Idle, TaskType, Coherent, Ops, Steps, Installs

LEMMA FinishShape ==
    ASSUME Shape, NEW t \in Tasks, Finish(t), SlotsTyped'
    PROVE  Shape'
    BY IdleShape, Replaced DEF Finish

\* What acquire_conn resolves.
LEMMA AcquiredShape ==
    ASSUME Shape, NEW t \in Tasks, task[t].at \in {"cur", "live", "extra"},
           NEW c \in Conns, Acquired(t, c), SlotsTyped'
    PROVE  Shape'
<1> DEFINE n == [task[t] EXCEPT !.conn = c, !.at = IF task[t].again THEN "label" ELSE "commit"]
<1>1. task[t] \in TaskType /\ Coherent(task[t])
    BY DEF Shape, SlotTypeOK
<1>2. n \in TaskType
    BY <1>1 DEF TaskType, Steps
<1>3. Coherent(n)
    BY <1>1, SlotAssumption DEF TaskType, Coherent, Installs, Conns
<1> QED BY <1>2, <1>3, Replaced DEF Acquired

\* What the record of a task carries at each step, with its type.
LEMMA Carries ==
    ASSUME Shape, NEW t \in Tasks
    PROVE  /\ task[t] \in TaskType /\ Coherent(task[t])
           /\ task[t].at \in {"commit", "label", "bump", "null", "take", "move", "read", "seal"} =>
                 task[t].conn \in Conns
           /\ task[t].at \in {"cur", "live", "extra", "commit", "resolve", "label", "unmap", "take"}
                 => task[t].peer \in Remotes
           /\ task[t].at \in {"shake", "commit", "move", "open"} => task[t].own \in Sessions
           /\ task[t].cands \subseteq Remotes \X Conns
<1>1. task[t] \in TaskType /\ Coherent(task[t])
    BY DEF Shape, SlotTypeOK
<1> DEFINE k == task[t]
<1> HIDE DEF k
<1>2. k \in TaskType /\ Coherent(k)
    BY <1>1 DEF k
<1>3. k.at \in {"commit", "label", "bump", "null", "take", "move", "read", "seal"} => k.conn \in Conns
    BY <1>2 DEF TaskType, Coherent
<1>4. k.at \in {"cur", "live", "extra", "commit", "resolve", "label", "unmap", "take"}
                => k.peer \in Remotes
    BY <1>2, SlotAssumption DEF TaskType, Coherent, Installs, Sessions, Owner, Ops
<1>5. k.at \in {"shake", "commit", "move", "open"} => k.own \in Sessions
    BY <1>2 DEF TaskType, Coherent, Installs, Ops
<1>6. k.cands \subseteq Remotes \X Conns
    BY <1>2 DEF TaskType
<1> QED BY <1>1, <1>3, <1>4, <1>5, <1>6 DEF k

LEMMA ShapeStep == Shape /\ [SlotNext]_slotVars => Shape'
<1> SUFFICES ASSUME Shape, [SlotNext]_slotVars PROVE  Shape'
    OBVIOUS
<1>1. CASE UNCHANGED slotVars
    BY <1>1 DEF slotVars, Shape, SlotTypeOK, SlotsTyped
<1>2. ASSUME NEW t \in Tasks, NEW s \in Sessions, Install(t, s) PROVE  Shape'
  <2> DEFINE n == [Idle EXCEPT !.op = "Install", !.at = "shake", !.peer = Owner(s), !.own = s]
  <2>1. SlotsTyped'
      BY <1>2 DEF Install, Start, Handshakes, Shape, SlotTypeOK, SlotsTyped, slots
  <2>2. n \in TaskType
      BY <1>2, SessionFacts DEF Install, Start, Handshakes, Idle, TaskType, Ops, Steps, SlotsTyped, Shape, SlotTypeOK, Conns
  <2>3. Coherent(n)
      BY <1>2, SlotAssumption, SessionFacts DEF Install, Start, Handshakes, Idle, Coherent, Installs, SlotsTyped, Shape, SlotTypeOK, Conns
  <2>4. task' = [task EXCEPT ![t] = n]
      BY <1>2 DEF Install, Start, Handshakes, Idle
  <2> QED BY <2>1, <2>2, <2>3, <2>4, Replaced
<1>3. ASSUME NEW t \in Tasks, NEW s \in Sessions, Rekey(t, s) PROVE  Shape'
  <2> DEFINE c == ConnFor(Owner(s))
             n == [Idle EXCEPT !.op = "Rekey", !.at = "shake", !.peer = Owner(s), !.own = s,
                    !.gen = gen[c], !.saw = <<c, session[c]>>]
  <2>1. SlotsTyped'
      BY <1>3 DEF Rekey, Handshakes, Shape, SlotTypeOK, SlotsTyped, slots
  <2>5. c \in Conns
      BY <1>3, SessionFacts, SlotAssumption DEF Rekey, ConnFor, Shape, SlotTypeOK, SlotsTyped, Conns
  <2>6. gen[c] \in Nat /\ session[c] \in Sessions \cup {None}
      BY <2>5 DEF Shape, SlotTypeOK, SlotsTyped
  <2>4. task' = [task EXCEPT ![t] = n]
      BY <1>3 DEF Rekey
  <2> HIDE DEF c
  <2>2. n \in TaskType
      BY <2>5, <2>6, SessionFacts DEF Idle, TaskType, Ops, Steps
  <2>3. Coherent(n)
      BY <2>5, <2>6, SlotAssumption, SessionFacts DEF Idle, Coherent, Installs
  <2> QED BY <2>1, <2>2, <2>3, <2>4, Replaced
<1>4. ASSUME NEW t \in Tasks, NEW s \in Sessions, Recv(t, s) PROVE  Shape'
  <2> DEFINE n == [Idle EXCEPT !.op = "Recv", !.at = "more", !.own = s,
                    !.cands = IF label[Primary] = None THEN {} ELSE {<<label[Primary], Primary>>}]
  <2>1. SlotsTyped'
      BY <1>4 DEF Recv, Shape, SlotTypeOK, SlotsTyped, slots
  <2>2. n \in TaskType
      BY <1>4, SessionFacts DEF Recv, Idle, TaskType, Ops, Steps, SlotsTyped, Shape, SlotTypeOK, Conns
  <2>3. Coherent(n)
      BY <1>4, SlotAssumption, SessionFacts DEF Recv, Idle, Coherent, Installs, SlotsTyped, Shape, SlotTypeOK, Conns
  <2>4. task' = [task EXCEPT ![t] = n]
      BY <1>4 DEF Recv, Idle
  <2> QED BY <2>1, <2>2, <2>3, <2>4, Replaced
<1>5. ASSUME NEW t \in Tasks, NEW p \in Remotes, NEW op \in {"Drop", "Purge"}, Drop(t, op, p) PROVE  Shape'
  <2> DEFINE n == [Idle EXCEPT !.op = op, !.at = "resolve", !.peer = p, !.own = None]
  <2>1. SlotsTyped'
      BY <1>5 DEF Drop, Start, Shape, SlotTypeOK, SlotsTyped, slots
  <2>2. n \in TaskType
      BY <1>5 DEF Drop, Start, Idle, TaskType, Ops, Steps, SlotsTyped, Shape, SlotTypeOK, Conns, Sessions, Owner
  <2>3. Coherent(n)
      BY <1>5, SlotAssumption DEF Drop, Start, Idle, Coherent, Installs, Sessions, Owner, SlotsTyped, Shape, SlotTypeOK, Conns
  <2>4. task' = [task EXCEPT ![t] = n]
      BY <1>5 DEF Drop, Start, Idle
  <2> QED BY <2>1, <2>2, <2>3, <2>4, Replaced
<1>6. ASSUME NEW t \in Tasks, NEW p \in Remotes, SendEncrypted(t, p) PROVE  Shape'
  <2> DEFINE n == [Idle EXCEPT !.op = "Send", !.at = "resolve", !.peer = p, !.own = None]
  <2>1. SlotsTyped'
      BY <1>6 DEF SendEncrypted, Start, Shape, SlotTypeOK, SlotsTyped, slots
  <2>2. n \in TaskType
      BY <1>6 DEF SendEncrypted, Start, Idle, TaskType, Ops, Steps, SlotsTyped, Shape, SlotTypeOK, Conns, Sessions, Owner
  <2>3. Coherent(n)
      BY <1>6, SlotAssumption DEF SendEncrypted, Start, Idle, Coherent, Installs, Sessions, Owner, SlotsTyped, Shape, SlotTypeOK, Conns
  <2>4. task' = [task EXCEPT ![t] = n]
      BY <1>6 DEF SendEncrypted, Start, Idle
  <2> QED BY <2>1, <2>2, <2>3, <2>4, Replaced
<1>7. ASSUME NEW t \in Tasks, NEW p \in Remotes, Promote(t, p) PROVE  Shape'
  <2> DEFINE n == [Idle EXCEPT !.op = "Promote", !.at = "take", !.peer = p, !.conn = extra[p]]
  <2>1. SlotsTyped'
      BY <1>7 DEF Promote, Shape, SlotTypeOK, SlotsTyped, slots
  <2>2. n \in TaskType
      BY <1>7 DEF Promote, Idle, TaskType, Ops, Steps, SlotsTyped, Shape, SlotTypeOK, Conns, Sessions, Owner
  <2>3. Coherent(n)
      BY <1>7, SlotAssumption DEF Promote, Idle, Coherent, Installs, Sessions, Owner, SlotsTyped, Shape, SlotTypeOK, Conns
  <2>4. task' = [task EXCEPT ![t] = n]
      BY <1>7 DEF Promote, Idle
  <2> QED BY <2>1, <2>2, <2>3, <2>4, Replaced
<1>8. ASSUME NEW t \in Tasks, DropPrimary(t) PROVE  Shape'
  <2> DEFINE n == [Idle EXCEPT !.op = "Drop", !.at = "null", !.conn = Primary]
  <2>1. SlotsTyped'
      BY <1>8 DEF DropPrimary, Shape, SlotTypeOK, SlotsTyped, slots
  <2>2. n \in TaskType
      BY <1>8 DEF DropPrimary, Idle, TaskType, Ops, Steps, SlotsTyped, Shape, SlotTypeOK, Conns, Sessions, Owner
  <2>3. Coherent(n)
      BY <1>8, SlotAssumption DEF DropPrimary, Idle, Coherent, Installs, Sessions, Owner, SlotsTyped, Shape, SlotTypeOK, Conns
  <2>4. task' = [task EXCEPT ![t] = n]
      BY <1>8 DEF DropPrimary, Idle
  <2> QED BY <2>1, <2>2, <2>3, <2>4, Replaced
<1>9. ASSUME NEW t \in Tasks, Shaken(t) PROVE  Shape'
  <2> DEFINE k == task[t]
  <2>0. k \in TaskType /\ Coherent(k) /\ k.at = "shake"
      BY <1>9, Carries DEF Shaken, Installs
  <2>a. SlotsTyped'
      BY <1>9, Carries DEF Shaken, Shape, SlotTypeOK, SlotsTyped, slots, Installs
  <2> HIDE DEF k
  <2>1. CASE Goto(t, "cur") /\ k.op = "Install"
    <3>1. Coherent([k EXCEPT !.at = "cur"])
        BY <2>0, <2>1, SlotAssumption DEF TaskType, Coherent, Installs
    <3> QED BY <2>a, <2>1, <3>1, GotoShape DEF k, Steps
  <2>2. CASE Goto(t, "resolve") /\ k.op # "Install"
    <3>1. Coherent([k EXCEPT !.at = "resolve"])
        BY <2>0, <2>2, SlotAssumption DEF TaskType, Coherent, Installs
    <3> QED BY <2>a, <2>2, <3>1, GotoShape DEF k, Steps
  <2>3. CASE Finish(t)
      BY <2>a, <2>3, FinishShape
  <2> QED BY <1>9, <2>1, <2>2, <2>3, <2>0 DEF Shaken, k, Installs
<1>10. ASSUME NEW t \in Tasks, AcquireCur(t) PROVE  Shape'
  <2> DEFINE k == task[t]
  <2>0. k \in TaskType /\ Coherent(k) /\ k.at = "cur"
      BY <1>10, Carries DEF AcquireCur, Installs
  <2>a. SlotsTyped'
      BY <1>10, Carries DEF AcquireCur, Shape, SlotTypeOK, SlotsTyped, slots, Installs
  <2> HIDE DEF k
  <2>1. CASE Acquired(t, Primary)
      BY <1>10, <2>a, <2>1, AcquiredShape DEF AcquireCur, Conns
  <2>2. CASE Goto(t, "live")
    <3>1. Coherent([k EXCEPT !.at = "live"])
        BY <2>0, <2>2, SlotAssumption DEF TaskType, Coherent, Installs
    <3> QED BY <2>a, <2>2, <3>1, GotoShape DEF k, Steps
  <2> QED BY <1>10, <2>1, <2>2, <2>0 DEF AcquireCur, k, Installs
<1>11. ASSUME NEW t \in Tasks, AcquireLive(t) PROVE  Shape'
  <2> DEFINE k == task[t]
  <2>0. k \in TaskType /\ Coherent(k) /\ k.at = "live"
      BY <1>11, Carries DEF AcquireLive, Installs
  <2>a. SlotsTyped'
      BY <1>11, Carries DEF AcquireLive, Shape, SlotTypeOK, SlotsTyped, slots, Installs
  <2> HIDE DEF k
  <2>1. CASE Acquired(t, Primary)
      BY <1>11, <2>a, <2>1, AcquiredShape DEF AcquireLive, Conns
  <2>2. CASE Goto(t, "extra")
    <3>1. Coherent([k EXCEPT !.at = "extra"])
        BY <2>0, <2>2, SlotAssumption DEF TaskType, Coherent, Installs
    <3> QED BY <2>a, <2>2, <3>1, GotoShape DEF k, Steps
  <2> QED BY <1>11, <2>1, <2>2, <2>0 DEF AcquireLive, k, Installs
<1>12. ASSUME NEW t \in Tasks, AcquireExtra(t) PROVE  Shape'
  <2>1. PICK c \in Extras :
            /\ IF extra[task[t].peer] # None
               THEN c = extra[task[t].peer] /\ UNCHANGED slots
               ELSE /\ Unused(c)
                    /\ extra' = [extra EXCEPT ![task[t].peer] = c]
                    /\ session' = [session EXCEPT ![c] = None]
                    /\ label' = [label EXCEPT ![c] = None]
                    /\ gen' = [gen EXCEPT ![c] = 0]
            /\ Acquired(t, c)
      BY <1>12 DEF AcquireExtra
  <2>2. SlotsTyped'
      BY <1>12, <2>1 DEF AcquireExtra, Shape, SlotTypeOK, SlotsTyped, slots
  <2> QED BY <1>12, <2>1, <2>2, AcquiredShape DEF AcquireExtra, Conns
<1>13. ASSUME NEW t \in Tasks, Resolve(t) PROVE  Shape'
  <2> DEFINE c == ConnFor(task[t].peer)
             then == IF task[t].op = "Rekey" THEN "commit"
                     ELSE IF task[t].op = "Send" THEN "read" ELSE "null"
             n == [task[t] EXCEPT !.conn = c, !.at = then]
  <2>0. SlotsTyped'
      BY <1>13 DEF Resolve, Shape, SlotTypeOK, SlotsTyped, slots
  <2>1. CASE c # None
    <3>1. task' = [task EXCEPT ![t] = n]
        BY <1>13, <2>1 DEF Resolve
    <3>2. task[t].peer \in Remotes
        BY <1>13, Carries DEF Resolve
    <3>3. c \in Conns
        BY <2>1, <3>2 DEF ConnFor, Shape, SlotTypeOK, SlotsTyped, Conns
    <3> DEFINE k == task[t]
    <3>6. k \in TaskType /\ Coherent(k) /\ k.at = "resolve"
        BY <1>13, Carries DEF Resolve
    <3> HIDE DEF k, c
    <3>4. ASSUME NEW at \in {"commit", "read", "null"}
          PROVE  [k EXCEPT !.conn = c, !.at = at] \in TaskType
        BY <3>6, <3>3 DEF TaskType, Steps
    <3>5. Coherent([k EXCEPT !.conn = c, !.at = IF k.op = "Rekey" THEN "commit"
                     ELSE IF k.op = "Send" THEN "read" ELSE "null"])
        BY <3>6, <2>1, SlotAssumption DEF TaskType, Coherent, Installs, Ops
    <3> QED BY <2>0, <3>1, <3>4, <3>5, Replaced DEF k
  <2>2. CASE Goto(t, "unmap") /\ task[t].op = "Purge"
    <3> DEFINE k == task[t]
    <3>1. k \in TaskType /\ Coherent(k) /\ k.at = "resolve" /\ k.op = "Purge"
        BY <1>13, <2>2, Carries DEF Resolve
    <3> HIDE DEF k
    <3>2. Coherent([k EXCEPT !.at = "unmap"])
        BY <3>1 DEF TaskType, Coherent, Installs
    <3> QED BY <2>0, <2>2, <3>2, GotoShape DEF Steps, k
  <2>3. CASE Finish(t)
      BY <2>0, <2>3, FinishShape
  <2> QED BY <1>13, <2>1, <2>2, <2>3 DEF Resolve
<1>14. ASSUME NEW t \in Tasks, CommitInstall(t) PROVE  Shape'
  <2> DEFINE k == task[t]
  <2>0. k \in TaskType /\ Coherent(k) /\ k.op = "Install" /\ k.at = "commit"
      BY <1>14, Carries DEF CommitInstall, At, Installs
  <2>a. SlotsTyped'
      BY <1>14, Carries DEF CommitInstall, At, Shape, SlotTypeOK, SlotsTyped, slots, Installs
  <2> HIDE DEF k
  <2>1. CASE Finish(t)
      BY <2>a, <2>1, FinishShape
  <2>2. CASE Goto(t, "label")
    <3>1. Coherent([k EXCEPT !.at = "label"])
        BY <2>0, <2>2, SlotAssumption DEF TaskType, Coherent, Installs
    <3> QED BY <2>a, <2>2, <3>1, GotoShape DEF k, Steps
  <2> QED BY <1>14, <2>1, <2>2, <2>0 DEF CommitInstall, At, k, Installs
<1>15. ASSUME NEW t \in Tasks, CommitRekey(t) PROVE  Shape'
  <2> DEFINE k == task[t]
  <2>0. k \in TaskType /\ Coherent(k) /\ k.op = "Rekey" /\ k.at = "commit"
      BY <1>15, Carries DEF CommitRekey, At, Installs
  <2>a. SlotsTyped'
      BY <1>15, Carries DEF CommitRekey, At, Shape, SlotTypeOK, SlotsTyped, slots, Installs
  <2> HIDE DEF k
  <2>1. CASE Finish(t)
      BY <2>a, <2>1, FinishShape
  <2>2. CASE Goto(t, "label")
    <3>1. Coherent([k EXCEPT !.at = "label"])
        BY <2>0, <2>2, SlotAssumption DEF TaskType, Coherent, Installs
    <3> QED BY <2>a, <2>2, <3>1, GotoShape DEF k, Steps
  <2> QED BY <1>15, <2>1, <2>2, <2>0 DEF CommitRekey, At, k, Installs
<1>16. ASSUME NEW t \in Tasks, Label(t) PROVE  Shape'
  <2> DEFINE k == task[t]
  <2>0. k \in TaskType /\ Coherent(k) /\ k.op \in Installs /\ k.at = "label"
      BY <1>16, Carries DEF Label, Installs
  <2>a. SlotsTyped'
      BY <1>16, Carries DEF Label, Shape, SlotTypeOK, SlotsTyped, slots, Installs
  <2> HIDE DEF k
  <2>1. CASE Finish(t)
      BY <2>a, <2>1, FinishShape
  <2>2. CASE Goto(t, "bump") /\ k.op = "Install" /\ ~k.again
    <3>1. Coherent([k EXCEPT !.at = "bump"])
        BY <2>0, <2>2, SlotAssumption DEF TaskType, Coherent, Installs
    <3> QED BY <2>a, <2>2, <3>1, GotoShape DEF k, Steps
  <2>3. CASE task' = [task EXCEPT ![t] = [k EXCEPT !.at = "cur", !.again = TRUE]] /\ ~k.again
    <3> DEFINE n == [k EXCEPT !.at = "cur", !.again = TRUE]
    <3>1. n \in TaskType
        BY <1>16, <2>0, <2>3, Carries DEF TaskType, Steps, Conns, Shape, SlotTypeOK, SlotsTyped, k
    <3>2. Coherent(n)
        BY <2>0, <2>3, SlotAssumption DEF TaskType, Coherent, Installs, Conns
    <3> QED BY <2>a, <2>3, <3>1, <3>2, Replaced
  <2> QED BY <1>16, <2>1, <2>2, <2>3, <2>0 DEF Label, k, Installs
<1>17. ASSUME NEW t \in Tasks, Bump(t) PROVE  Shape'
  <2> DEFINE k == task[t]
  <2>0. k \in TaskType /\ Coherent(k) /\ k.at = "bump"
      BY <1>17, Carries DEF Bump, Installs
  <2>a. SlotsTyped'
      BY <1>17, Carries DEF Bump, Shape, SlotTypeOK, SlotsTyped, slots, Installs
  <2> HIDE DEF k
  <2>1. CASE task' = [task EXCEPT ![t] = [k EXCEPT !.at = "cur", !.again = TRUE]] /\ k.op = "Install"
    <3> DEFINE n == [k EXCEPT !.at = "cur", !.again = TRUE]
    <3>1. n \in TaskType
        BY <1>17, <2>0, <2>1, Carries DEF TaskType, Steps, Conns, Shape, SlotTypeOK, SlotsTyped, k
    <3>2. Coherent(n)
        BY <2>0, <2>1, SlotAssumption DEF TaskType, Coherent, Installs, Conns
    <3> QED BY <2>a, <2>1, <3>1, <3>2, Replaced
  <2>2. CASE Goto(t, "unmap") /\ k.op = "Purge"
    <3>1. Coherent([k EXCEPT !.at = "unmap"])
        BY <2>0, <2>2, SlotAssumption DEF TaskType, Coherent, Installs
    <3> QED BY <2>a, <2>2, <3>1, GotoShape DEF k, Steps
  <2>3. CASE Finish(t)
      BY <2>a, <2>3, FinishShape
  <2> QED BY <1>17, <2>1, <2>2, <2>3, <2>0 DEF Bump, k, Installs
<1>18. ASSUME NEW t \in Tasks, Null(t) PROVE  Shape'
  <2> DEFINE k == task[t]
  <2>0. k \in TaskType /\ Coherent(k) /\ k.at = "null"
      BY <1>18, Carries DEF Null, Installs
  <2>a. SlotsTyped'
      BY <1>18, Carries DEF Null, Shape, SlotTypeOK, SlotsTyped, slots, Installs
  <2> HIDE DEF k
  <2>1. CASE Goto(t, "bump")
    <3>1. Coherent([k EXCEPT !.at = "bump"])
        BY <2>0, <2>1, SlotAssumption DEF TaskType, Coherent, Installs
    <3> QED BY <2>a, <2>1, <3>1, GotoShape DEF k, Steps
  <2> QED BY <1>18, <2>1, <2>0 DEF Null, k, Installs
<1>19. ASSUME NEW t \in Tasks, Unmap(t) PROVE  Shape'
  <2>a. SlotsTyped'
      BY <1>19, Carries DEF Unmap, Shape, SlotTypeOK, SlotsTyped, slots, Installs
  <2>1. CASE Finish(t)
      BY <2>a, <2>1, FinishShape
  <2> QED BY <1>19, <2>1 DEF Unmap
<1>20. ASSUME NEW t \in Tasks, TakeOut(t) PROVE  Shape'
  <2> DEFINE k == task[t]
  <2>0. k \in TaskType /\ Coherent(k) /\ k.at = "take"
      BY <1>20, Carries DEF TakeOut, Installs
  <2>a. SlotsTyped'
      BY <1>20, Carries DEF TakeOut, Shape, SlotTypeOK, SlotsTyped, slots, Installs
  <2> HIDE DEF k
  <2>1. CASE Finish(t)
      BY <2>a, <2>1, FinishShape
  <2>2. CASE task' = [task EXCEPT ![t] = [k EXCEPT !.own = session[k.conn], !.conn = Primary,
                                                !.at = "move"]] /\ session[k.conn] # None
    <3> DEFINE n == [k EXCEPT !.own = session[k.conn], !.conn = Primary,
                                                !.at = "move"]
    <3>1. n \in TaskType
        BY <1>20, <2>0, <2>2, Carries DEF TaskType, Steps, Conns, Shape, SlotTypeOK, SlotsTyped, k
    <3>2. Coherent(n)
        BY <2>0, <2>2, SlotAssumption DEF TaskType, Coherent, Installs, Conns
    <3> QED BY <2>a, <2>2, <3>1, <3>2, Replaced
  <2> QED BY <1>20, <2>1, <2>2, <2>0 DEF TakeOut, k, Installs
<1>21. ASSUME NEW t \in Tasks, Move(t) PROVE  Shape'
  <2> DEFINE k == task[t]
  <2>0. k \in TaskType /\ Coherent(k) /\ k.at = "move"
      BY <1>21, Carries DEF Move, Installs
  <2>a. SlotsTyped'
      BY <1>21, Carries DEF Move, Shape, SlotTypeOK, SlotsTyped, slots, Installs
  <2> HIDE DEF k
  <2>1. CASE Goto(t, "label")
    <3>1. Coherent([k EXCEPT !.at = "label"])
        BY <2>0, <2>1, SlotAssumption DEF TaskType, Coherent, Installs
    <3> QED BY <2>a, <2>1, <3>1, GotoShape DEF k, Steps
  <2> QED BY <1>21, <2>1, <2>0 DEF Move, k, Installs
<1>22. ASSUME NEW t \in Tasks, LabelPromoted(t) PROVE  Shape'
  <2> DEFINE k == task[t]
  <2>0. k \in TaskType /\ Coherent(k) /\ k.op = "Promote" /\ k.at = "label"
      BY <1>22, Carries DEF LabelPromoted, At, Installs
  <2>a. SlotsTyped'
      BY <1>22, Carries DEF LabelPromoted, At, Shape, SlotTypeOK, SlotsTyped, slots, Installs
  <2> HIDE DEF k
  <2>1. CASE Goto(t, "bump")
    <3>1. Coherent([k EXCEPT !.at = "bump"])
        BY <2>0, <2>1, SlotAssumption DEF TaskType, Coherent, Installs
    <3> QED BY <2>a, <2>1, <3>1, GotoShape DEF k, Steps
  <2> QED BY <1>22, <2>1, <2>0 DEF LabelPromoted, At, k, Installs
<1>23. ASSUME NEW t \in Tasks, ReadGen(t) PROVE  Shape'
  <2> DEFINE k == task[t]
  <2>0. k \in TaskType /\ Coherent(k) /\ k.at = "read"
      BY <1>23, Carries DEF ReadGen, Installs
  <2>a. SlotsTyped'
      BY <1>23, Carries DEF ReadGen, Shape, SlotTypeOK, SlotsTyped, slots, Installs
  <2> HIDE DEF k
  <2>1. CASE task' = [task EXCEPT ![t] = [k EXCEPT !.gen = gen[k.conn],
                                     !.saw = <<k.conn, session[k.conn]>>, !.at = "seal"]]
    <3> DEFINE n == [k EXCEPT !.gen = gen[k.conn],
                              !.saw = <<k.conn, session[k.conn]>>, !.at = "seal"]
    <3>0. k.conn \in Conns /\ gen[k.conn] \in Nat /\ session[k.conn] \in Sessions \cup {None}
        BY <1>23, <2>0, Carries DEF Shape, SlotTypeOK, SlotsTyped, k
    <3>1. n \in TaskType
        BY <2>0, <3>0 DEF TaskType, Steps
    <3>2. Coherent(n)
        BY <2>0, <2>1, SlotAssumption DEF TaskType, Coherent, Installs, Conns
    <3> QED BY <2>a, <2>1, <3>1, <3>2, Replaced
  <2> QED BY <1>23, <2>1, <2>0 DEF ReadGen, k, Installs
<1>24. ASSUME NEW t \in Tasks, Seal(t) PROVE  Shape'
  <2>a. SlotsTyped'
      BY <1>24, Carries DEF Seal, Shape, SlotTypeOK, SlotsTyped, slots, Installs
  <2>1. CASE Finish(t)
      BY <2>a, <2>1, FinishShape
  <2> QED BY <1>24, <2>1 DEF Seal
<1>25. ASSUME NEW t \in Tasks, AbortSend(t) PROVE  Shape'
  <2>a. SlotsTyped'
      BY <1>25, Carries DEF AbortSend, Shape, SlotTypeOK, SlotsTyped, slots, Installs
  <2>1. CASE Finish(t)
      BY <2>a, <2>1, FinishShape
  <2> QED BY <1>25, <2>1 DEF AbortSend
<1>26. ASSUME NEW t \in Tasks, RecvMore(t) PROVE  Shape'
  <2> DEFINE k == task[t]
  <2>0. k \in TaskType /\ Coherent(k) /\ k.at = "more"
      BY <1>26, Carries DEF RecvMore, Installs
  <2>a. SlotsTyped'
      BY <1>26, Carries DEF RecvMore, Shape, SlotTypeOK, SlotsTyped, slots, Installs
  <2> HIDE DEF k
  <2> DEFINE more == {<<p, extra[p]>> : p \in {p \in Remotes : extra[p] # None}}
             n == [k EXCEPT !.at = "open", !.cands = @ \cup more]
  <2>1. more \subseteq Remotes \X Conns
      BY DEF Shape, SlotTypeOK, SlotsTyped, Conns
  <2>2. task' = [task EXCEPT ![t] = n]
      BY <1>26 DEF RecvMore, k
  <2> HIDE DEF more
  <2>3. n \in TaskType
      BY <2>0, <2>1 DEF TaskType, Steps
  <2>4. Coherent(n)
      BY <2>0, SlotAssumption DEF TaskType, Coherent, Installs, Ops
  <2> QED BY <2>a, <2>2, <2>3, <2>4, Replaced
<1>27. ASSUME NEW t \in Tasks, Open(t) PROVE  Shape'
  <2>a. SlotsTyped'
      BY <1>27, Carries DEF Open, Shape, SlotTypeOK, SlotsTyped, slots, Installs
  <2>1. CASE Finish(t)
      BY <2>a, <2>1, FinishShape
  <2> QED BY <1>27, <2>1 DEF Open
<1>28. ASSUME NEW t \in Tasks, TryNext(t) PROVE  Shape'
  <2>0. SlotsTyped'
      BY <1>28 DEF TryNext, Shape, SlotTypeOK, SlotsTyped, slots
  <2>1. PICK x \in task[t].cands :
            Tries(t, x) /\ task' = [task EXCEPT ![t] = [task[t] EXCEPT !.cands = @ \ {x}]]
      BY <1>28 DEF TryNext
  <2> DEFINE k == task[t]
  <2>2. k \in TaskType /\ Coherent(k) /\ k.at = "open"
      BY <1>28, Carries DEF TryNext, Tries
  <2> HIDE DEF k
  <2> DEFINE n == [k EXCEPT !.cands = @ \ {x}]
  <2>3. n \in TaskType
      BY <2>2 DEF TaskType
  <2>4. Coherent(n)
      BY <2>2 DEF TaskType, Coherent, Installs
  <2> QED BY <2>0, <2>1, <2>3, <2>4, Replaced DEF k
<1>29. ASSUME NEW t \in Tasks, Undecryptable(t) PROVE  Shape'
  <2>a. SlotsTyped'
      BY <1>29, Carries DEF Undecryptable, Shape, SlotTypeOK, SlotsTyped, slots, Installs
  <2>1. CASE Finish(t)
      BY <2>a, <2>1, FinishShape
  <2> QED BY <1>29, <2>1 DEF Undecryptable
<1> QED BY <1>1, <1>2, <1>3, <1>4, <1>5, <1>6, <1>7, <1>8, <1>9, <1>10, <1>11, <1>12, <1>13, <1>14, <1>15, <1>16, <1>17, <1>18, <1>19, <1>20, <1>21, <1>22, <1>23, <1>24, <1>25, <1>26, <1>27, <1>28, <1>29 DEF SlotNext

THEOREM SlotTypes == SlotSpec => []SlotTypeOK
<1>1. SlotInit => Shape
    BY IdleShape DEF SlotInit, Shape, SlotTypeOK, SlotsTyped, Conns
<1>2. Shape => SlotTypeOK
    BY DEF Shape
<1> QED BY <1>1, <1>2, ShapeStep, PTL DEF SlotSpec

-----------------------------------------------------------------------------
\* The keys of a handshake sit in one place.

\* What the common steps of a task change in its record.
LEMMA GotoKeeps ==
    ASSUME Shape, NEW t \in Tasks, NEW at, Goto(t, at)
    PROVE  /\ task'[t].at = at
           /\ task'[t].op = task[t].op /\ task'[t].own = task[t].own
           /\ task'[t].peer = task[t].peer /\ task'[t].conn = task[t].conn
           /\ task'[t].again = task[t].again /\ task'[t].cands = task[t].cands
           /\ task'[t].gen = task[t].gen /\ task'[t].saw = task[t].saw
           /\ \A u \in Tasks : u # t => task'[u] = task[u]
<1> task \in [Tasks -> TaskType]
    BY DEF Shape, SlotTypeOK
<1> QED BY DEF Goto, TaskType

LEMMA AcquiredKeeps ==
    ASSUME Shape, NEW t \in Tasks, NEW c, Acquired(t, c)
    PROVE  /\ task'[t].at = (IF task[t].again THEN "label" ELSE "commit")
           /\ task'[t].conn = c
           /\ task'[t].op = task[t].op /\ task'[t].own = task[t].own
           /\ task'[t].peer = task[t].peer
           /\ task'[t].again = task[t].again /\ task'[t].cands = task[t].cands
           /\ task'[t].gen = task[t].gen /\ task'[t].saw = task[t].saw
           /\ \A u \in Tasks : u # t => task'[u] = task[u]
<1> task \in [Tasks -> TaskType]
    BY DEF Shape, SlotTypeOK
<1> QED BY DEF Acquired, TaskType

LEMMA FinishKeeps ==
    ASSUME Shape, NEW t \in Tasks, Finish(t)
    PROVE  task'[t] = Idle /\ \A u \in Tasks : u # t => task'[u] = task[u]
<1> task \in [Tasks -> TaskType]
    BY DEF Shape, SlotTypeOK
<1> QED BY DEF Finish

\* A step that puts no session anywhere and gives none to a task.
LEMMA HoldersLeave ==
    ASSUME HolderInv, born \subseteq born',
           \A c \in Conns : session'[c] \in {session[c], None},
           \A t \in Tasks : Holding(task'[t]) =>
               Holding(task[t]) /\ task'[t].own = task[t].own /\ task[t].own # None
    PROVE  HolderInv'
    BY DEF HolderInv

\* A task puts the session it holds into a slot.
LEMMA HolderPuts ==
    ASSUME HolderInv, Shape, NEW t \in Tasks, NEW c \in Conns, born' = born,
           Holding(task[t]), ~Holding(task'[t]),
           session' = [session EXCEPT ![c] = task[t].own],
           \A u \in Tasks : u # t => task'[u] = task[u]
    PROVE  HolderInv'
<1>1. session \in [Conns -> Sessions \cup {None}]
    BY DEF Shape, SlotTypeOK, SlotsTyped
<1>2. session'[c] = task[t].own /\ \A d \in Conns : d # c => session'[d] = session[d]
    BY <1>1
<1> QED BY <1>2 DEF HolderInv

LEMMA IdleHolds == ~Holding(Idle)
    BY DEF Holding, Idle, Installs

\* The five ways a step moves keys: not at all, except that a task gives up what it
\* holds; a slot is emptied; a handshake begins; a task installs or lands what it
\* holds; a promotion lifts what a slot holds.
OthersStay(t) == \A u \in Tasks : u # t => task'[u] = task[u]

Still(t) ==
    /\ born' = born /\ session' = session /\ OthersStay(t)
    /\ task[t].at # "move" /\ task'[t].at # "move"
    /\ Holding(task'[t]) => Holding(task[t]) /\ task'[t].own = task[t].own

Empties(t, c) ==
    /\ born' = born /\ session' = [session EXCEPT ![c] = None] /\ OthersStay(t)
    /\ task[t].at # "move" /\ task'[t].at # "move"
    /\ Holding(task'[t]) <=> Holding(task[t])
    /\ Holding(task[t]) => task'[t].own = task[t].own

Begins(t, s) ==
    /\ s \notin born /\ born' = born \cup {s} /\ session' = session /\ OthersStay(t)
    /\ task[t].at # "move" /\ task'[t].at # "move"
    /\ ~Holding(task[t]) /\ Holding(task'[t]) /\ task'[t].own = s

Puts(t, c) ==
    /\ born' = born /\ session' = [session EXCEPT ![c] = task[t].own] /\ OthersStay(t)
    /\ Holding(task[t]) /\ ~Holding(task'[t])
    /\ task[t].at = "move" => c = Primary

Lifts(t, c) ==
    /\ born' = born /\ session' = [session EXCEPT ![c] = None] /\ OthersStay(t)
    /\ session[c] # None /\ ~Holding(task[t])
    /\ task'[t].at = "move" /\ task'[t].own = session[c]

KeysMove ==
    \/ UNCHANGED <<born, session, task>>
    \/ \E t \in Tasks :
          \/ Still(t)
          \/ \E s \in Sessions : Begins(t, s)
          \/ \E c \in Conns : Empties(t, c) \/ Puts(t, c) \/ Lifts(t, c)

LEMMA StepsMoveKeys == Shape /\ [SlotNext]_slotVars => KeysMove
<1> SUFFICES ASSUME Shape, [SlotNext]_slotVars PROVE  KeysMove
    OBVIOUS
<1>0. session \in [Conns -> Sessions \cup {None}] /\ task \in [Tasks -> TaskType]
    BY DEF Shape, SlotTypeOK, SlotsTyped
<1>1. CASE UNCHANGED slotVars
    BY <1>1 DEF slotVars, KeysMove
<1>2. ASSUME NEW t \in Tasks, NEW s \in Sessions, Install(t, s) PROVE  KeysMove
  <2>1. /\ s \notin born /\ born' = born \cup {s} /\ session' = session
        /\ task[t] = Idle /\ task'[t].own = s
        /\ task'[t].op = "Install" /\ task'[t].at = "shake" /\ ~task'[t].again
        /\ \A u \in Tasks : u # t => task'[u] = task[u]
      BY <1>2, <1>0 DEF Install, Start, Handshakes, slots, Idle
  <2>2. Idle.at # "move"
      BY DEF Idle
  <2>3. Begins(t, s)
      BY <2>1, <2>2, IdleHolds DEF Begins, OthersStay, Holding, Installs
  <2> QED BY <2>3 DEF KeysMove
<1>3. ASSUME NEW t \in Tasks, NEW s \in Sessions, Rekey(t, s) PROVE  KeysMove
  <2>1. /\ s \notin born /\ born' = born \cup {s} /\ session' = session
        /\ task[t] = Idle /\ task'[t].own = s
        /\ task'[t].op = "Rekey" /\ task'[t].at = "shake" /\ ~task'[t].again
        /\ \A u \in Tasks : u # t => task'[u] = task[u]
      BY <1>3, <1>0 DEF Rekey, Handshakes, slots, Idle
  <2>2. Idle.at # "move"
      BY DEF Idle
  <2>3. Begins(t, s)
      BY <2>1, <2>2, IdleHolds DEF Begins, OthersStay, Holding, Installs
  <2> QED BY <2>3 DEF KeysMove
<1>4. ASSUME NEW t \in Tasks, NEW s \in Sessions, Recv(t, s) PROVE  KeysMove
  <2> Still(t)
      BY <1>4, <1>0 DEF Still, OthersStay, Recv, Holding, Idle, slots, Installs, Goto, Finish, At
  <2> QED BY DEF KeysMove
<1>5. ASSUME NEW t \in Tasks, NEW p \in Remotes, NEW op \in {"Drop", "Purge"}, Drop(t, op, p) PROVE  KeysMove
  <2> Still(t)
      BY <1>5, <1>0 DEF Still, OthersStay, Drop, Start, Holding, Idle, slots, Installs, Goto, Finish, At
  <2> QED BY DEF KeysMove
<1>6. ASSUME NEW t \in Tasks, NEW p \in Remotes, Promote(t, p) PROVE  KeysMove
  <2> Still(t)
      BY <1>6, <1>0 DEF Still, OthersStay, Promote, Holding, Idle, slots, Installs, Goto, Finish, At
  <2> QED BY DEF KeysMove
<1>7. ASSUME NEW t \in Tasks, NEW p \in Remotes, SendEncrypted(t, p) PROVE  KeysMove
  <2> Still(t)
      BY <1>7, <1>0 DEF Still, OthersStay, SendEncrypted, Start, Holding, Idle, slots, Installs, Goto, Finish, At
  <2> QED BY DEF KeysMove
<1>8. ASSUME NEW t \in Tasks, DropPrimary(t) PROVE  KeysMove
  <2> Still(t)
      BY <1>8, <1>0 DEF Still, OthersStay, DropPrimary, Holding, Idle, slots, Installs, Goto, Finish, At
  <2> QED BY DEF KeysMove
<1>9. ASSUME NEW t \in Tasks, Shaken(t) PROVE  KeysMove
  <2> Still(t)
      BY <1>9, <1>0, Carries, GotoKeeps, AcquiredKeeps, FinishKeeps, IdleHolds
      DEF Still, OthersStay, Shaken, Holding, slots, Installs, Coherent
  <2> QED BY DEF KeysMove
<1>10. ASSUME NEW t \in Tasks, AcquireCur(t) PROVE  KeysMove
  <2> Still(t)
      BY <1>10, <1>0, Carries, GotoKeeps, AcquiredKeeps, FinishKeeps, IdleHolds
      DEF Still, OthersStay, AcquireCur, Holding, slots, Installs, Coherent
  <2> QED BY DEF KeysMove
<1>11. ASSUME NEW t \in Tasks, AcquireLive(t) PROVE  KeysMove
  <2> Still(t)
      BY <1>11, <1>0, Carries, GotoKeeps, AcquiredKeeps, FinishKeeps, IdleHolds
      DEF Still, OthersStay, AcquireLive, Holding, slots, Installs, Coherent
  <2> QED BY DEF KeysMove
<1>12. ASSUME NEW t \in Tasks, AcquireExtra(t) PROVE  KeysMove
  <2>1. PICK c \in Extras :
          /\ \/ UNCHANGED slots
             \/ session' = [session EXCEPT ![c] = None]
          /\ Acquired(t, c)
      BY <1>12 DEF AcquireExtra
  <2>2. born' = born /\ task[t].at = "extra" /\ Coherent(task[t]) /\ task[t] \in TaskType
      BY <1>12, Carries DEF AcquireExtra
  <2>3. /\ task'[t].at \in {"label", "commit"} /\ (task'[t].at = "label" <=> task[t].again)
        /\ task'[t].op = task[t].op /\ task'[t].own = task[t].own /\ task'[t].again = task[t].again
        /\ \A u \in Tasks : u # t => task'[u] = task[u]
      BY <2>1, AcquiredKeeps
  <2>4. task[t].op \in Installs
      BY <2>2 DEF Coherent, Installs, TaskType, Ops
  <2>5. Holding(task'[t]) <=> Holding(task[t])
      BY <2>2, <2>3, <2>4 DEF Holding
  <2>6. CASE UNCHANGED slots
    <3>1. Still(t)
        BY <2>2, <2>3, <2>5, <2>6 DEF Still, OthersStay, slots
    <3> QED BY <3>1 DEF KeysMove
  <2>7. CASE session' = [session EXCEPT ![c] = None]
    <3>1. Empties(t, c)
        BY <2>2, <2>3, <2>5, <2>7 DEF Empties, OthersStay
    <3> QED BY <3>1 DEF KeysMove, Conns
  <2> QED BY <2>1, <2>6, <2>7
<1>13. ASSUME NEW t \in Tasks, Resolve(t) PROVE  KeysMove
  <2> Still(t)
      BY <1>13, <1>0, Carries, GotoKeeps, AcquiredKeeps, FinishKeeps, IdleHolds
      DEF Still, OthersStay, Resolve, Holding, slots, Installs, Coherent, TaskType
  <2> QED BY DEF KeysMove
<1>14. ASSUME NEW t \in Tasks, Label(t) PROVE  KeysMove
  <2> Still(t)
      BY <1>14, <1>0, Carries, GotoKeeps, AcquiredKeeps, FinishKeeps, IdleHolds
      DEF Still, OthersStay, Label, Holding, slots, Installs, Coherent, TaskType
  <2> QED BY DEF KeysMove
<1>15. ASSUME NEW t \in Tasks, Bump(t) PROVE  KeysMove
  <2> Still(t)
      BY <1>15, <1>0, Carries, GotoKeeps, AcquiredKeeps, FinishKeeps, IdleHolds
      DEF Still, OthersStay, Bump, Holding, slots, Installs, Coherent, TaskType
  <2> QED BY DEF KeysMove
<1>16. ASSUME NEW t \in Tasks, Null(t) PROVE  KeysMove
  <2>1. task[t].conn \in Conns /\ task[t].at = "null"
      BY <1>16, Carries DEF Null
  <2>2. Empties(t, task[t].conn)
      BY <1>16, <1>0, <2>1, GotoKeeps DEF Null, Empties, OthersStay, Holding
  <2> QED BY <2>1, <2>2 DEF KeysMove
<1>17. ASSUME NEW t \in Tasks, Unmap(t) PROVE  KeysMove
  <2> Still(t)
      BY <1>17, <1>0 DEF Still, OthersStay, Unmap, Holding, Idle, slots, Installs, Goto, Finish, At
  <2> QED BY DEF KeysMove
<1>18. ASSUME NEW t \in Tasks, LabelPromoted(t) PROVE  KeysMove
  <2> Still(t)
      BY <1>18, <1>0 DEF Still, OthersStay, LabelPromoted, Holding, Idle, slots, Installs, Goto, Finish, At
  <2> QED BY DEF KeysMove
<1>19. ASSUME NEW t \in Tasks, ReadGen(t) PROVE  KeysMove
  <2> Still(t)
      BY <1>19, <1>0 DEF Still, OthersStay, ReadGen, Holding, Idle, slots, Installs, Goto, Finish, At
  <2> QED BY DEF KeysMove
<1>20. ASSUME NEW t \in Tasks, Seal(t) PROVE  KeysMove
  <2> Still(t)
      BY <1>20, <1>0 DEF Still, OthersStay, Seal, Seals, Holding, Idle, slots, Installs, Goto, Finish, At
  <2> QED BY DEF KeysMove
<1>21. ASSUME NEW t \in Tasks, AbortSend(t) PROVE  KeysMove
  <2> Still(t)
      BY <1>21, <1>0 DEF Still, OthersStay, AbortSend, Holding, Idle, slots, Installs, Goto, Finish, At
  <2> QED BY DEF KeysMove
<1>22. ASSUME NEW t \in Tasks, RecvMore(t) PROVE  KeysMove
  <2> Still(t)
      BY <1>22, <1>0 DEF Still, OthersStay, RecvMore, Holding, Idle, slots, Installs, Goto, Finish, At
  <2> QED BY DEF KeysMove
<1>23. ASSUME NEW t \in Tasks, Open(t) PROVE  KeysMove
  <2> Still(t)
      BY <1>23, <1>0 DEF Still, OthersStay, Open, Tries, Holding, Idle, slots, Installs, Goto, Finish, At
  <2> QED BY DEF KeysMove
<1>24. ASSUME NEW t \in Tasks, TryNext(t) PROVE  KeysMove
  <2> Still(t)
      BY <1>24, <1>0 DEF Still, OthersStay, TryNext, Tries, Holding, Idle, slots, Installs, Goto, Finish, At
  <2> QED BY DEF KeysMove
<1>25. ASSUME NEW t \in Tasks, Undecryptable(t) PROVE  KeysMove
  <2> Still(t)
      BY <1>25, <1>0 DEF Still, OthersStay, Undecryptable, Holding, Idle, slots, Installs, Goto, Finish, At
  <2> QED BY DEF KeysMove
<1>26. ASSUME NEW t \in Tasks, CommitInstall(t) PROVE  KeysMove
  <2>1. CASE session[task[t].conn] # None
    <3> Still(t)
        BY <1>26, <2>1, <1>0 DEF CommitInstall, At, Finish, Idle, Holding, Installs, Still, OthersStay
    <3> QED BY DEF KeysMove
  <2>2. CASE ~(session[task[t].conn] # None)
    <3>1. task[t].conn \in Conns /\ Coherent(task[t])
        BY <1>26, Carries DEF CommitInstall, At
    <3>2. Holding(task[t])
        BY <1>26, <3>1 DEF CommitInstall, At, Holding, Installs, Coherent
    <3>3. /\ ~Holding(task'[t]) /\ born' = born /\ task[t].at = "commit"
          /\ session' = [session EXCEPT ![task[t].conn] = task[t].own]
          /\ \A u \in Tasks : u # t => task'[u] = task[u]
        BY <1>26, <2>2, GotoKeeps DEF CommitInstall, At, Holding
    <3>4. Puts(t, task[t].conn)
        BY <3>2, <3>3 DEF Puts, OthersStay
    <3> QED BY <3>1, <3>4 DEF KeysMove
  <2> QED BY <2>1, <2>2
<1>27. ASSUME NEW t \in Tasks, CommitRekey(t) PROVE  KeysMove
  <2>1. CASE gen[task[t].conn] # task[t].gen
    <3> Still(t)
        BY <1>27, <2>1, <1>0 DEF CommitRekey, At, Finish, Idle, Holding, Installs, Still, OthersStay
    <3> QED BY DEF KeysMove
  <2>2. CASE ~(gen[task[t].conn] # task[t].gen)
    <3>1. task[t].conn \in Conns /\ Coherent(task[t])
        BY <1>27, Carries DEF CommitRekey, At
    <3>2. Holding(task[t])
        BY <1>27, <3>1 DEF CommitRekey, At, Holding, Installs, Coherent
    <3>3. /\ ~Holding(task'[t]) /\ born' = born /\ task[t].at = "commit"
          /\ session' = [session EXCEPT ![task[t].conn] = task[t].own]
          /\ \A u \in Tasks : u # t => task'[u] = task[u]
        BY <1>27, <2>2, GotoKeeps DEF CommitRekey, At, Holding
    <3>4. Puts(t, task[t].conn)
        BY <3>2, <3>3 DEF Puts, OthersStay
    <3> QED BY <3>1, <3>4 DEF KeysMove
  <2> QED BY <2>1, <2>2
<1>28. ASSUME NEW t \in Tasks, Move(t) PROVE  KeysMove
  <2>1. Holding(task[t]) /\ Primary \in Conns
      BY <1>28 DEF Move, Holding, Conns
  <2>2. /\ born' = born /\ session' = [session EXCEPT ![Primary] = task[t].own]
        /\ \A u \in Tasks : u # t => task'[u] = task[u]
      BY <1>28, <1>0 DEF Move, Goto
  <2>3. Coherent(task[t]) /\ task[t] \in TaskType /\ task[t].at = "move"
      BY <1>28, Carries DEF Move
  <2>4. task[t].op = "Promote"
      BY <2>3 DEF Coherent, TaskType, Ops
  <2>5. ~Holding(task'[t])
      BY <1>28, <1>0, <2>4 DEF Move, Goto, Holding, Installs
  <2>6. Puts(t, Primary)
      BY <2>1, <2>2, <2>5 DEF Puts, OthersStay
  <2> QED BY <2>1, <2>6 DEF KeysMove
<1>29. ASSUME NEW t \in Tasks, TakeOut(t) PROVE  KeysMove
  <2> DEFINE c == task[t].conn
  <2>0. /\ c \in Conns /\ session' = [session EXCEPT ![c] = None] /\ born' = born
        /\ task[t].at = "take" /\ ~Holding(task[t])
      BY <1>29, Carries DEF TakeOut, Holding
  <2>1. CASE session[c] = None
    <3> Empties(t, c)
        BY <1>29, <2>0, <2>1, <1>0 DEF TakeOut, Finish, Idle, Holding, Installs, Empties, OthersStay
    <3> QED BY <2>0 DEF KeysMove
  <2>2. CASE session[c] # None
    <3> Lifts(t, c)
        BY <1>29, <2>0, <2>2, <1>0 DEF TakeOut, TaskType, Lifts, OthersStay
    <3> QED BY <2>0 DEF KeysMove
  <2> QED BY <2>1, <2>2
<1> QED BY <1>1, <1>2, <1>3, <1>4, <1>5, <1>6, <1>7, <1>8, <1>9, <1>10, <1>11, <1>12, <1>13,
           <1>14, <1>15, <1>16, <1>17, <1>18, <1>19, <1>20, <1>21, <1>22, <1>23, <1>24, <1>25,
           <1>26, <1>27, <1>28, <1>29 DEF SlotNext

LEMMA HolderStep == Shape /\ HolderInv /\ [SlotNext]_slotVars => HolderInv'
<1> SUFFICES ASSUME Shape, HolderInv, [SlotNext]_slotVars PROVE  HolderInv'
    OBVIOUS
<1>0. /\ session \in [Conns -> Sessions \cup {None}] /\ task \in [Tasks -> TaskType]
      /\ \A t \in Tasks : Holding(task[t]) => task[t].own # None
    BY DEF Shape, SlotTypeOK, SlotsTyped, Coherent, Holding
<1>1. CASE UNCHANGED <<born, session, task>>
    BY <1>1, <1>0, HoldersLeave
<1>2. ASSUME NEW t \in Tasks, Still(t) PROVE  HolderInv'
    BY <1>2, <1>0, HoldersLeave DEF Still, OthersStay
<1>3. ASSUME NEW t \in Tasks, NEW c \in Conns, Empties(t, c) PROVE  HolderInv'
  <2>1. \A d \in Conns : session'[d] \in {session[d], None}
      BY <1>0, <1>3 DEF Empties
  <2> QED BY <1>3, <2>1, <1>0, HoldersLeave DEF Empties, OthersStay
<1>4. ASSUME NEW t \in Tasks, NEW s \in Sessions, Begins(t, s) PROVE  HolderInv'
  <2>1. s # None
      BY SessionFacts
  <2> QED BY <1>4, <2>1, <1>0 DEF HolderInv, Begins, OthersStay
<1>5. ASSUME NEW t \in Tasks, NEW c \in Conns, Puts(t, c) PROVE  HolderInv'
    BY <1>5, HolderPuts DEF Puts, OthersStay
<1>6. ASSUME NEW t \in Tasks, NEW c \in Conns, Lifts(t, c) PROVE  HolderInv'
  <2>1. \A d \in Conns : session'[d] = IF d = c THEN None ELSE session[d]
      BY <1>0, <1>6 DEF Lifts
  <2>2. Holding(task'[t])
      BY <1>6 DEF Lifts, Holding
  <2> QED BY <1>6, <2>1, <2>2, <1>0 DEF HolderInv, Lifts, OthersStay
<1>7. KeysMove
    BY StepsMoveKeys
<1> QED BY <1>1, <1>2, <1>3, <1>4, <1>5, <1>6, <1>7 DEF KeysMove

\* Where a task with keys counts: with the handshakes, or on the move.
LEMMA HoldingIs ==
    /\ \A t \in Tasks : Holding(task[t]) <=> Handshaking(task[t]) \/ task[t].at = "move"
    /\ \A t \in Tasks : ~(Handshaking(task[t]) /\ task[t].at = "move")
    BY DEF Holding, Handshaking

LEMMA HoldingWillBe ==
    /\ \A t \in Tasks : Holding(task'[t]) <=> Handshaking(task'[t]) \/ task'[t].at = "move"
    /\ \A t \in Tasks : ~(Handshaking(task'[t]) /\ task'[t].at = "move")
    BY DEF Holding, Handshaking

\* How the two sets of keys change with one task.
FreshStays == \A u \in Tasks : /\ Handshaking(task'[u]) <=> Handshaking(task[u])
                               /\ Handshaking(task[u]) => task'[u].own = task[u].own

MotionStays == \A u \in Tasks : /\ task'[u].at = "move" <=> task[u].at = "move"
                                /\ task[u].at = "move" => task'[u].own = task[u].own

LEMMA FreshUnchanged == FreshStays => Fresh' = Fresh
<1> SUFFICES ASSUME FreshStays PROVE \A x : x \in Fresh' <=> x \in Fresh
    OBVIOUS
<1> QED BY DEF FreshStays, Fresh, OwnedBy

LEMMA MotionUnchanged == MotionStays => InMotion' = InMotion
<1> SUFFICES ASSUME MotionStays PROVE \A x : x \in InMotion' <=> x \in InMotion
    OBVIOUS
<1> QED BY DEF MotionStays, InMotion, OwnedBy

LEMMA FreshGains ==
    ASSUME NEW t \in Tasks, OthersStay(t), ~Handshaking(task[t]), Handshaking(task'[t])
    PROVE  Fresh' = Fresh \cup {task'[t].own}
<1>1. \A x : x \in Fresh' <=> x \in Fresh \/ x = task'[t].own
    BY DEF OthersStay, Fresh, OwnedBy
<1> QED BY <1>1

LEMMA MotionGains ==
    ASSUME NEW t \in Tasks, OthersStay(t), task[t].at # "move", task'[t].at = "move"
    PROVE  InMotion' = InMotion \cup {task'[t].own}
<1>1. \A x : x \in InMotion' <=> x \in InMotion \/ x = task'[t].own
    BY DEF OthersStay, InMotion, OwnedBy
<1> QED BY <1>1

LEMMA FreshLoses ==
    ASSUME NEW t \in Tasks, OthersStay(t), Handshaking(task[t]), ~Handshaking(task'[t]),
           \A u \in Tasks : u # t /\ Handshaking(task[u]) => task[u].own # task[t].own
    PROVE  /\ task[t].own \in Fresh
           /\ Fresh' = Fresh \ {task[t].own}
<1>1. \A x : x \in Fresh' <=> x \in Fresh /\ x # task[t].own
    BY DEF OthersStay, Fresh, OwnedBy
<1> QED BY <1>1 DEF Fresh, OwnedBy

LEMMA MotionLoses ==
    ASSUME NEW t \in Tasks, OthersStay(t), task[t].at = "move", task'[t].at # "move",
           \A u \in Tasks : u # t /\ task[u].at = "move" => task[u].own # task[t].own
    PROVE  /\ task[t].own \in InMotion
           /\ InMotion' = InMotion \ {task[t].own}
<1>1. \A x : x \in InMotion' <=> x \in InMotion /\ x # task[t].own
    BY DEF OthersStay, InMotion, OwnedBy
<1> QED BY <1>1 DEF InMotion, OwnedBy

\* Every step of the slots is one of SessionKeys, or changes no keys.
LEMMA HandedStep ==
    Shape /\ HolderInv /\ [SlotNext]_slotVars =>
        [Handed!KNext]_(<<born, Fresh, session, InMotion>>)
<1> SUFFICES ASSUME Shape, HolderInv, [SlotNext]_slotVars
             PROVE  [Handed!KNext]_(<<born, Fresh, session, InMotion>>)
    OBVIOUS
<1>0. /\ born \subseteq Sessions
      /\ \A t \in Tasks : Holding(task[t]) => task[t].own \in born
      /\ \A t, u \in Tasks :
            t # u /\ Holding(task[t]) /\ Holding(task[u]) => task[t].own # task[u].own
    BY DEF Shape, SlotTypeOK, SlotsTyped, HolderInv
<1>a. CASE UNCHANGED <<born, session, task>>
    BY <1>a DEF Fresh, InMotion, OwnedBy
<1>b. ASSUME NEW t \in Tasks, Still(t)
      PROVE  [Handed!KNext]_(<<born, Fresh, session, InMotion>>)
  <2> DEFINE k == task[t].own
  <2>1. InMotion' = InMotion
      BY <1>b, MotionUnchanged DEF Still, OthersStay, MotionStays
  <2>2. CASE Holding(task[t]) /\ ~Holding(task'[t])
    <3>1. Fresh' = Fresh \ {k} /\ k \in Fresh
      <4>1. Handshaking(task[t]) /\ ~Handshaking(task'[t])
          BY <1>b, <2>2, HoldingIs, HoldingWillBe DEF Still
      <4>2. \A u \in Tasks : u # t /\ Handshaking(task[u]) => task[u].own # task[t].own
          BY <1>0, <2>2, HoldingIs
      <4> QED BY <1>b, <4>1, <4>2, FreshLoses DEF Still
    <3>2. Handed!GiveUp(k)
        BY <1>b, <2>1, <3>1 DEF Still, Handed!GiveUp
    <3>3. k \in Sessions
        BY <1>0, <2>2
    <3> QED BY <3>2, <3>3 DEF Handed!KNext
  <2>3. CASE ~(Holding(task[t]) /\ ~Holding(task'[t]))
    <3>1. FreshStays
        BY <1>b, <2>3, HoldingIs, HoldingWillBe DEF Still, OthersStay, FreshStays
    <3> QED BY <1>b, <2>1, <3>1, FreshUnchanged DEF Still
  <2> QED BY <2>2, <2>3
<1>c. ASSUME NEW t \in Tasks, NEW c \in Conns, Empties(t, c)
      PROVE  [Handed!KNext]_(<<born, Fresh, session, InMotion>>)
  <2>1. Fresh' = Fresh /\ InMotion' = InMotion
    <3>1. FreshStays /\ MotionStays
        BY <1>c, HoldingIs, HoldingWillBe DEF Empties, OthersStay, FreshStays, MotionStays
    <3> QED BY <3>1, FreshUnchanged, MotionUnchanged
  <2>2. Handed!Empty(c)
      BY <1>c, <2>1 DEF Empties, Handed!Empty
  <2> QED BY <2>2 DEF Handed!KNext
<1>d. ASSUME NEW t \in Tasks, NEW s \in Sessions, Begins(t, s)
      PROVE  [Handed!KNext]_(<<born, Fresh, session, InMotion>>)
  <2>1. Fresh' = Fresh \cup {s}
    <3>1. ~Handshaking(task[t]) /\ Handshaking(task'[t])
        BY <1>d, HoldingIs, HoldingWillBe DEF Begins
    <3> QED BY <1>d, <3>1, FreshGains DEF Begins
  <2>2. InMotion' = InMotion
      BY <1>d, MotionUnchanged DEF Begins, OthersStay, MotionStays
  <2>3. Handed!Make(s)
      BY <1>d, <2>1, <2>2 DEF Begins, Handed!Make
  <2> QED BY <2>3 DEF Handed!KNext
<1>e. ASSUME NEW t \in Tasks, NEW c \in Conns, Puts(t, c)
      PROVE  [Handed!KNext]_(<<born, Fresh, session, InMotion>>)
  <2> DEFINE k == task[t].own
  <2>0. /\ k \in Sessions /\ ~Handshaking(task'[t]) /\ task'[t].at # "move"
        /\ \A u \in Tasks : u # t /\ Holding(task[u]) => task[u].own # k
      BY <1>0, <1>e, HoldingWillBe DEF Puts
  <2>1. CASE task[t].at = "move"
    <3>1. Fresh' = Fresh
      <4>1. FreshStays
          BY <1>e, <2>0, <2>1, HoldingIs DEF Puts, OthersStay, FreshStays
      <4> QED BY <4>1, FreshUnchanged
    <3>2. k \in InMotion /\ InMotion' = InMotion \ {k}
      <4>1. \A u \in Tasks : u # t /\ task[u].at = "move" => task[u].own # task[t].own
          BY <2>0, HoldingIs
      <4> QED BY <1>e, <2>0, <2>1, <4>1, MotionLoses DEF Puts
    <3>3. Handed!Land(k)
        BY <1>e, <2>1, <3>1, <3>2 DEF Puts, Handed!Land
    <3> QED BY <2>0, <3>3 DEF Handed!KNext
  <2>2. CASE task[t].at # "move"
    <3>1. k \in Fresh /\ Fresh' = Fresh \ {k}
      <4>1. Handshaking(task[t])
          BY <1>e, <2>2, HoldingIs DEF Puts
      <4>2. \A u \in Tasks : u # t /\ Handshaking(task[u]) => task[u].own # task[t].own
          BY <2>0, HoldingIs
      <4> QED BY <1>e, <2>0, <4>1, <4>2, FreshLoses DEF Puts
    <3>2. InMotion' = InMotion
        BY <1>e, <2>0, <2>2, MotionUnchanged DEF Puts, OthersStay, MotionStays
    <3>3. Handed!Fill(k, c)
        BY <1>e, <3>1, <3>2 DEF Puts, Handed!Fill
    <3> QED BY <2>0, <3>3 DEF Handed!KNext
  <2> QED BY <2>1, <2>2
<1>f. ASSUME NEW t \in Tasks, NEW c \in Conns, Lifts(t, c)
      PROVE  [Handed!KNext]_(<<born, Fresh, session, InMotion>>)
  <2>0. /\ ~Handshaking(task[t]) /\ task[t].at # "move" /\ ~Handshaking(task'[t])
      BY <1>f, HoldingIs, HoldingWillBe DEF Lifts
  <2>1. Fresh' = Fresh
    <3>1. FreshStays
        BY <1>f, <2>0 DEF Lifts, OthersStay, FreshStays
    <3> QED BY <3>1, FreshUnchanged
  <2>2. InMotion' = InMotion \cup {session[c]}
      BY <1>f, <2>0, MotionGains DEF Lifts
  <2>3. Handed!Lift(c)
      BY <1>f, <2>1, <2>2 DEF Lifts, Handed!Lift
  <2> QED BY <2>3 DEF Handed!KNext
<1>g. KeysMove
    BY StepsMoveKeys
<1> QED BY <1>a, <1>b, <1>c, <1>d, <1>e, <1>f, <1>g DEF KeysMove

LEMMA HolderStart == SlotInit => Shape /\ HolderInv
<1>1. SlotInit => Shape
    BY IdleShape DEF SlotInit, Shape, SlotTypeOK, SlotsTyped, Conns
<1>2. SlotInit => HolderInv
    BY IdleHolds DEF SlotInit, HolderInv
<1> QED BY <1>1, <1>2

\* The slots implement SessionKeys, whatever the scheduling: a handshake's keys are
\* installed once, change slots only by leaving the old one, and do not come back once
\* given up, replaced or dropped (try_install_session, install_session_if_generation_for,
\* drop_session_for, promote_secondary).
THEOREM SlotsHandKeysOn == SlotSpec => KeysAreHandedOn
<1>1. SlotInit => Handed!KInit
  <2>1. SlotInit => Fresh = {} /\ InMotion = {}
    <3> SUFFICES ASSUME SlotInit PROVE Fresh = {} /\ InMotion = {}
        OBVIOUS
    <3>1. \A t \in Tasks : task[t] = Idle
        BY DEF SlotInit
    <3>2. ~Handshaking(Idle) /\ Idle.at # "move"
        BY DEF Idle, Handshaking, Installs
    <3> QED BY <3>1, <3>2 DEF Fresh, InMotion, OwnedBy
  <2> QED BY <2>1 DEF SlotInit, Handed!KInit
<1> QED BY <1>1, HolderStart, ShapeStep, HolderStep, HandedStep, PTL
        DEF SlotSpec, KeysAreHandedOn, Handed!KSpec

\* Keys that a failed install gave up, or that a rekey, a drop, a purge or a promotion
\* threw out, are never in a slot again (Session is moved and zeroized, not copied).
THEOREM SpentKeysStaySpent == SlotSpec => Handed!SpentForGood
<1>1. ASSUME Shape, Handed!KNext, NEW k \in Sessions, Handed!Spent(k) PROVE  Handed!Spent(k)'
  <2>0. k # None /\ DOMAIN session = Conns
      BY <1>1, SessionFacts DEF Shape, SlotTypeOK, SlotsTyped
  <2>1. ASSUME NEW s \in Sessions, Handed!Make(s) \/ Handed!GiveUp(s) PROVE  Handed!Spent(k)'
      BY <1>1, <2>1 DEF Handed!Spent, Handed!Make, Handed!GiveUp
  <2>2. ASSUME NEW s \in Sessions, Handed!Land(s) PROVE  Handed!Spent(k)'
      BY <1>1, <2>0, <2>2 DEF Handed!Spent, Handed!Land
  <2>3. ASSUME NEW s \in Sessions, NEW c \in Conns, Handed!Fill(s, c) PROVE  Handed!Spent(k)'
      BY <1>1, <2>0, <2>3 DEF Handed!Spent, Handed!Fill
  <2>4. ASSUME NEW c \in Conns, Handed!Empty(c) \/ Handed!Lift(c) PROVE  Handed!Spent(k)'
      BY <1>1, <2>0, <2>4 DEF Handed!Spent, Handed!Empty, Handed!Lift
  <2> QED BY <1>1, <2>1, <2>2, <2>3, <2>4 DEF Handed!KNext
<1>2. Shape /\ [Handed!KNext]_(<<born, Fresh, session, InMotion>>) =>
        [\A k \in Sessions : Handed!Spent(k) => Handed!Spent(k)']_(<<born, Fresh, session, InMotion>>)
    BY <1>1
<1> QED BY <1>2, HolderStart, ShapeStep, HolderStep, HandedStep, PTL
        DEF SlotSpec, Handed!SpentForGood

\* The keys of a handshake sit in one place, whatever the scheduling: no two
\* slots hold one session and a promotion leaves no copy behind, so that no
\* nonce is used from two slots (promote_secondary, the installs).
THEOREM OneHolderHolds == SlotSpec => []OneHolder
<1>1. HolderInv => OneHolder
    BY DEF HolderInv, OneHolder, At, Holding
<1> QED BY <1>1, HolderStart, ShapeStep, HolderStep, PTL DEF SlotSpec

-----------------------------------------------------------------------------
\* Operations that run to their end.

\* While t runs, nobody else is at a step of its own.
LEMMA OthersWait ==
    ASSUME Shape, WholeOperations, SlotsInv, NEW t \in Tasks, MayRun(t)
    PROVE  \A u \in Tasks : u # t => task[u].at \in {"none", "shake"} /\ task[u].cands = {}
<1> SUFFICES ASSUME NEW u \in Tasks, u # t
             PROVE  task[u].at \in {"none", "shake"} /\ task[u].cands = {}
    OBVIOUS
<1>1. task[u].at \in {"none", "shake"}
    BY DEF MayRun, WholeOperations, Running
<1>2. Coherent(task[u])
    BY Carries
<1> QED BY <1>1, <1>2 DEF Coherent

\* A waiting task promises nothing about the slots.
LEMMA RunnerStep ==
    ASSUME Shape, WholeOperations, SlotsInv, NEW t \in Tasks, MayRun(t),
           \A u \in Tasks : u # t => task'[u] = task[u],
           OwnSlots', Named', Works(task[t])', \A u \in Tasks : Known(task[u])'
    PROVE  SlotsInv'
<1>1. \A u \in Tasks : u # t => task'[u].at \in {"none", "shake"} /\ task'[u].cands = {}
    BY OthersWait
<1>2. OneRuns'
    BY <1>1 DEF OneRuns, Running
<1>3. ASSUME NEW u \in Tasks, u # t PROVE  Works(task[u])'
    BY <1>1, <1>3 DEF Works
<1> QED BY <1>2, <1>3 DEF SlotsInv

\* Nobody is changing a slot when the task that runs is at another step.
LEMMA NobodyChanges ==
    ASSUME Shape, WholeOperations, SlotsInv, NEW t \in Tasks, MayRun(t),
           task[t].at \notin {"label", "bump"}
    PROVE  /\ \A c \in Conns : ~Changing(c)
           /\ \A c \in Conns : Linked(c) => label[c] = Owner(session[c])
<1>1. \A u \in Tasks : task[u].at \notin {"label", "bump"}
    BY OthersWait
<1> QED BY <1>1 DEF Changing, SlotsInv, Named

\* What a rekey knows when nobody is changing the slot.
Knows(k) ==
    Waiting(k) =>
        LET c == k.saw[1]
        IN  c = Primary \/ (\E p \in Remotes : extra[p] = c) =>
                k.gen <= gen[c] /\ (k.gen = gen[c] => session[c] = k.saw[2])

LEMMA AllKnow ==
    ASSUME Shape, WholeOperations, SlotsInv, NEW t \in Tasks, MayRun(t),
           task[t].at \notin {"label", "bump"}
    PROVE  \A u \in Tasks : Knows(task[u])
<1> SUFFICES ASSUME NEW u \in Tasks PROVE  Knows(task[u])
    OBVIOUS
<1>1. Coherent(task[u]) /\ Known(task[u])
    BY Carries DEF SlotsInv
<1>2. Waiting(task[u]) => task[u].saw[1] \in Conns
    BY <1>1 DEF Coherent, Waiting
<1>3. \A c \in Conns : ~Changing(c)
    BY NobodyChanges
<1> QED BY <1>1, <1>2, <1>3 DEF Known, Knows

LEMMA KnowsKnown == \A k : Knows(k) => Known(k)
    BY DEF Knows, Known

\* A step that leaves the slots alone.
LEMMA QuietStep ==
    ASSUME Shape, WholeOperations, SlotsInv, NEW t \in Tasks, MayRun(t),
           task[t].at \notin {"label", "bump"},
           UNCHANGED slots, \A u \in Tasks : u # t => task'[u] = task[u],
           Works(task'[t]), Knows(task'[t])
    PROVE  SlotsInv'
<1>1. OwnSlots'
    BY DEF SlotsInv, OwnSlots, slots
<1>2. Named'
  <2>1. \A c \in Conns : Linked(c)' => label'[c] = Owner(session'[c])
      BY NobodyChanges DEF slots, Linked
  <2> QED BY <2>1 DEF Named
<1>3. Works(task[t])'
    BY DEF Works, slots, ConnFor
<1>4. \A u \in Tasks : Knows(task'[u])
    BY AllKnow
<1>5. \A u \in Tasks : Known(task[u])'
    BY <1>4 DEF Knows, Known, Waiting, slots
<1> QED BY <1>1, <1>2, <1>3, <1>5, RunnerStep

\* A record that has ended, or has only gone on, promises no more than before.
LEMMA IdleWorks == Works(Idle) /\ Knows(Idle)
    BY DEF Works, Knows, Waiting, Idle, Installs

\* What a task may do next.
Step(t) ==
    \/ \E s \in Sessions : Install(t, s) \/ Rekey(t, s) \/ Recv(t, s)
    \/ \E p \in Remotes : \/ Drop(t, "Drop", p) \/ Drop(t, "Purge", p)
                        \/ Promote(t, p) \/ SendEncrypted(t, p)
    \/ DropPrimary(t) \/ Shaken(t)
    \/ AcquireCur(t) \/ AcquireLive(t) \/ AcquireExtra(t) \/ Resolve(t)
    \/ CommitInstall(t) \/ CommitRekey(t) \/ Label(t) \/ Bump(t)
    \/ Null(t) \/ Unmap(t) \/ TakeOut(t) \/ Move(t) \/ LabelPromoted(t)
    \/ ReadGen(t) \/ Seal(t) \/ AbortSend(t)
    \/ RecvMore(t) \/ Open(t) \/ TryNext(t) \/ Undecryptable(t)

LEMMA WholeStep ==
    ASSUME Shape, WholeOperations, SlotsInv, SlotNext PROVE  SlotsInv'
<1> USE DEF slots
<1>0. PICK t \in Tasks : MayRun(t) /\ Step(t)
    BY DEF SlotNext, Step
<1> DEFINE k == task[t]
           n == task'[t]
<1>k. k \in TaskType /\ Coherent(k)
    BY Carries
<1>u. \A u \in Tasks : u # t => task[u].at \in {"none", "shake"}
    BY <1>0, OthersWait
<1>y. /\ session \in [Conns -> Sessions \cup {None}] /\ label \in [Conns -> Remotes \cup {None}]
      /\ gen \in [Conns -> Nat] /\ extra \in [Remotes -> Extras \cup {None}]
      /\ task \in [Tasks -> TaskType]
    BY DEF Shape, SlotTypeOK, SlotsTyped
<1>w. Works(k) /\ \A u \in Tasks : Known(task[u])
    BY DEF SlotsInv
<1>1. ASSUME NEW s \in Sessions, Install(t, s) PROVE  SlotsInv'
  <2>1. UNCHANGED slots /\ \A u \in Tasks : u # t => task'[u] = task[u]
      BY <1>1, <1>y DEF Install, Start, Goto, Finish, Acquired
  <2>2. k.at \notin {"label", "bump"}
      BY <1>1 DEF Install, Start, Idle, At
  <2>3. Works(n)
      BY <1>1, <1>y DEF Install, Start, Works, Idle, Installs
  <2>4. Knows(n)
      BY <1>1, <1>y DEF Install, Start, Knows, Waiting, Idle
  <2> QED BY <1>0, <2>1, <2>2, <2>3, <2>4, QuietStep
<1>2. ASSUME NEW s \in Sessions, Rekey(t, s) PROVE  SlotsInv'
  <2> DEFINE c == ConnFor(Owner(s))
  <2>1. UNCHANGED slots /\ \A u \in Tasks : u # t => task'[u] = task[u]
      BY <1>2, <1>y DEF Rekey
  <2>2. k.at \notin {"label", "bump"}
      BY <1>2 DEF Rekey, Idle
  <2>5. c \in Conns
      BY <1>2, <1>y, SessionFacts DEF Rekey, ConnFor, Conns
  <2>6. n = [Idle EXCEPT !.op = "Rekey", !.at = "shake",
                        !.peer = Owner(s), !.own = s, !.gen = gen[c], !.saw = <<c, session[c]>>]
      BY <1>2, <1>y DEF Rekey
  <2>3. Works(n)
      BY <2>6 DEF Works, Idle, Installs
  <2>4. Knows(n)
    <3>1. n.gen = gen[c] /\ n.saw = <<c, session[c]>>
        BY <2>6 DEF Idle
    <3> QED BY <3>1, <2>5, <1>y DEF Knows
  <2> QED BY <1>0, <2>1, <2>2, <2>3, <2>4, QuietStep
<1>3. ASSUME NEW s \in Sessions, Recv(t, s) PROVE  SlotsInv'
  <2>1. UNCHANGED slots /\ \A u \in Tasks : u # t => task'[u] = task[u]
      BY <1>3, <1>y DEF Recv, Goto, Finish, Acquired
  <2>2. k.at \notin {"label", "bump"}
      BY <1>3 DEF Recv, Idle, At
  <2>3. Works(n)
      BY <1>3, <1>y DEF Recv, Works, Idle, Installs
  <2>4. Knows(n)
      BY <1>3, <1>y DEF Recv, Knows, Waiting, Idle
  <2> QED BY <1>0, <2>1, <2>2, <2>3, <2>4, QuietStep
<1>4. ASSUME NEW p \in Remotes, NEW op \in {"Drop", "Purge"}, Drop(t, op, p) PROVE  SlotsInv'
  <2>1. UNCHANGED slots /\ \A u \in Tasks : u # t => task'[u] = task[u]
      BY <1>4, <1>y DEF Drop, Start, Goto, Finish, Acquired
  <2>2. k.at \notin {"label", "bump"}
      BY <1>4 DEF Drop, Start, Idle, At
  <2>3. Works(n)
      BY <1>4, <1>y DEF Drop, Start, Works, Idle, Installs
  <2>4. Knows(n)
      BY <1>4, <1>y DEF Drop, Start, Knows, Waiting, Idle
  <2> QED BY <1>0, <2>1, <2>2, <2>3, <2>4, QuietStep
<1>5. ASSUME NEW p \in Remotes, SendEncrypted(t, p) PROVE  SlotsInv'
  <2>1. UNCHANGED slots /\ \A u \in Tasks : u # t => task'[u] = task[u]
      BY <1>5, <1>y DEF SendEncrypted, Start, Goto, Finish, Acquired
  <2>2. k.at \notin {"label", "bump"}
      BY <1>5 DEF SendEncrypted, Start, Idle, At
  <2>3. Works(n)
      BY <1>5, <1>y DEF SendEncrypted, Start, Works, Idle, Installs
  <2>4. Knows(n)
      BY <1>5, <1>y DEF SendEncrypted, Start, Knows, Waiting, Idle
  <2> QED BY <1>0, <2>1, <2>2, <2>3, <2>4, QuietStep
<1>6. CASE DropPrimary(t)
  <2>1. UNCHANGED slots /\ \A u \in Tasks : u # t => task'[u] = task[u]
      BY <1>6, <1>y DEF DropPrimary, Goto, Finish, Acquired
  <2>2. k.at \notin {"label", "bump"}
      BY <1>6 DEF DropPrimary, Idle, At
  <2>3. Works(n)
      BY <1>6, <1>y DEF DropPrimary, Works, Idle, Installs
  <2>4. Knows(n)
      BY <1>6, <1>y DEF DropPrimary, Knows, Waiting, Idle
  <2> QED BY <1>0, <2>1, <2>2, <2>3, <2>4, QuietStep
<1>7. CASE Shaken(t)
  <2>1. UNCHANGED slots /\ \A u \in Tasks : u # t => task'[u] = task[u]
      BY <1>7, <1>y DEF Shaken, Goto, Finish, Acquired
  <2>2. k.at \notin {"label", "bump"}
      BY <1>7 DEF Shaken, Idle, At
  <2>3. Works(n)
      BY <1>0, <1>7, <1>k, <1>w, <2>2, GotoKeeps, AcquiredKeeps, FinishKeeps, IdleWorks DEF Shaken, Works, Coherent, Installs
  <2>4. Knows(n)
      BY <1>0, <1>7, <1>k, <2>2, AllKnow, GotoKeeps, AcquiredKeeps, FinishKeeps, IdleWorks DEF Shaken, Knows, Waiting, Coherent
  <2> QED BY <1>0, <2>1, <2>2, <2>3, <2>4, QuietStep
<1>p. k.at \notin {"label", "bump"} /\ session[Primary] # None => label[Primary] = Owner(session[Primary])
    BY <1>0, NobodyChanges DEF Linked, Conns
<1>8. CASE AcquireCur(t)
  <2>1. UNCHANGED slots /\ \A u \in Tasks : u # t => task'[u] = task[u]
      BY <1>8, <1>y DEF AcquireCur, Goto, Finish, Acquired
  <2>2. k.at \notin {"label", "bump"}
      BY <1>8 DEF AcquireCur, Idle, At
  <2>3. Works(n)
    <3>1. k.at = "cur" /\ k.cands = {} /\ k.op \in Installs /\ k.peer \in Remotes
        BY <1>8, <1>k, Carries DEF AcquireCur, Coherent, TaskType, Ops, Installs
    <3>2. CASE label[Primary] \in {k.peer, None}
      <4>1. session[Primary] # None => Owner(session[Primary]) = k.peer
        <5>1. session[Primary] # None => Owner(session[Primary]) \in Remotes
            BY <1>y, SessionFacts DEF Conns
        <5>2. session[Primary] # None => label[Primary] = Owner(session[Primary])
            BY <2>2, <1>p
        <5>3. None \notin Remotes
            BY SlotAssumption
        <5> QED BY <3>2, <5>1, <5>2, <5>3
      <4>2. /\ n.at \in {"label", "commit"} /\ n.conn = Primary /\ n.peer = k.peer
            /\ n.cands = {}
          BY <1>8, <3>1, <3>2, AcquiredKeeps DEF AcquireCur
      <4> QED BY <4>1, <4>2 DEF Works
    <3>3. CASE ~(label[Primary] \in {k.peer, None})
      <4>1. n.at = "live" /\ n.cands = {}
          BY <1>8, <3>1, <3>3, GotoKeeps DEF AcquireCur
      <4> QED BY <4>1 DEF Works
    <3> QED BY <3>2, <3>3
  <2>4. Knows(n)
      BY <1>0, <1>8, <1>k, <2>2, AllKnow, GotoKeeps, AcquiredKeeps, FinishKeeps, IdleWorks DEF AcquireCur, Knows, Waiting, Coherent
  <2> QED BY <1>0, <2>1, <2>2, <2>3, <2>4, QuietStep
<1>9. CASE AcquireLive(t)
  <2>1. UNCHANGED slots /\ \A u \in Tasks : u # t => task'[u] = task[u]
      BY <1>9, <1>y DEF AcquireLive, Goto, Finish, Acquired
  <2>2. k.at \notin {"label", "bump"}
      BY <1>9 DEF AcquireLive, Idle, At
  <2>3. Works(n)
      BY <1>9, <1>k, <1>w, GotoKeeps, AcquiredKeeps DEF AcquireLive, Works, Coherent, Installs, Conns
  <2>4. Knows(n)
      BY <1>0, <1>9, <1>k, <2>2, AllKnow, GotoKeeps, AcquiredKeeps, FinishKeeps, IdleWorks DEF AcquireLive, Knows, Waiting, Coherent
  <2> QED BY <1>0, <2>1, <2>2, <2>3, <2>4, QuietStep
<1>10. CASE AcquireExtra(t) /\ extra[k.peer] # None
  <2>1. UNCHANGED slots /\ \A u \in Tasks : u # t => task'[u] = task[u]
      BY <1>10, <1>y DEF AcquireExtra, Goto, Finish, Acquired
  <2>2. k.at \notin {"label", "bump"}
      BY <1>10 DEF AcquireExtra, Idle, At
  <2>3. Works(n)
      BY <1>10, <1>k, Carries, AcquiredKeeps DEF AcquireExtra, Works, Coherent, Installs, SlotsInv, OwnSlots
  <2>4. Knows(n)
      BY <1>0, <1>10, <1>k, <2>2, AllKnow, GotoKeeps, AcquiredKeeps, FinishKeeps, IdleWorks DEF AcquireExtra, Knows, Waiting, Coherent
  <2> QED BY <1>0, <2>1, <2>2, <2>3, <2>4, QuietStep
<1>11. CASE Resolve(t)
  <2>1. UNCHANGED slots /\ \A u \in Tasks : u # t => task'[u] = task[u]
      BY <1>11, <1>y DEF Resolve, Goto, Finish, Acquired
  <2>2. k.at \notin {"label", "bump"}
      BY <1>11 DEF Resolve, Idle, At
  <2>3. Works(n)
      BY <1>11, <1>k, <1>y, FinishKeeps, GotoKeeps, IdleWorks DEF Resolve, Works, Coherent, Installs, ConnFor, TaskType
  <2>4. Knows(n)
      BY <1>11, <1>0, <1>k, <1>y, <2>2, AllKnow, FinishKeeps, GotoKeeps, IdleWorks DEF Resolve, Knows, Waiting, TaskType
  <2> QED BY <1>0, <2>1, <2>2, <2>3, <2>4, QuietStep
<1>12. CASE CommitInstall(t) /\ session[k.conn] # None
  <2>1. UNCHANGED slots /\ \A u \in Tasks : u # t => task'[u] = task[u]
      BY <1>12, <1>y DEF CommitInstall, Goto, Finish, Acquired
  <2>2. k.at \notin {"label", "bump"}
      BY <1>12 DEF CommitInstall, Idle, At
  <2>3. Works(n)
      BY <1>12, FinishKeeps, IdleWorks DEF CommitInstall
  <2>4. Knows(n)
      BY <1>12, FinishKeeps, IdleWorks DEF CommitInstall
  <2> QED BY <1>0, <2>1, <2>2, <2>3, <2>4, QuietStep
<1>13. CASE CommitRekey(t) /\ gen[k.conn] # k.gen
  <2>1. UNCHANGED slots /\ \A u \in Tasks : u # t => task'[u] = task[u]
      BY <1>13, <1>y DEF CommitRekey, Goto, Finish, Acquired
  <2>2. k.at \notin {"label", "bump"}
      BY <1>13 DEF CommitRekey, Idle, At
  <2>3. Works(n)
      BY <1>13, FinishKeeps, IdleWorks DEF CommitRekey
  <2>4. Knows(n)
      BY <1>13, FinishKeeps, IdleWorks DEF CommitRekey
  <2> QED BY <1>0, <2>1, <2>2, <2>3, <2>4, QuietStep
<1>14. CASE Seal(t)
  <2>1. UNCHANGED slots /\ \A u \in Tasks : u # t => task'[u] = task[u]
      BY <1>14, <1>y DEF Seal, Seals, Goto, Finish, Acquired
  <2>2. k.at \notin {"label", "bump"}
      BY <1>14 DEF Seal, Seals, Idle, At
  <2>3. Works(n)
      BY <1>14, FinishKeeps, IdleWorks DEF Seal
  <2>4. Knows(n)
      BY <1>14, FinishKeeps, IdleWorks DEF Seal
  <2> QED BY <1>0, <2>1, <2>2, <2>3, <2>4, QuietStep
<1>15. CASE AbortSend(t)
  <2>1. UNCHANGED slots /\ \A u \in Tasks : u # t => task'[u] = task[u]
      BY <1>15, <1>y DEF AbortSend, Goto, Finish, Acquired
  <2>2. k.at \notin {"label", "bump"}
      BY <1>15 DEF AbortSend, Idle, At
  <2>3. Works(n)
      BY <1>15, FinishKeeps, IdleWorks DEF AbortSend
  <2>4. Knows(n)
      BY <1>15, FinishKeeps, IdleWorks DEF AbortSend
  <2> QED BY <1>0, <2>1, <2>2, <2>3, <2>4, QuietStep
<1>16. CASE Open(t)
  <2>1. UNCHANGED slots /\ \A u \in Tasks : u # t => task'[u] = task[u]
      BY <1>16, <1>y DEF Open, Tries, Goto, Finish, Acquired
  <2>2. k.at \notin {"label", "bump"}
      BY <1>16 DEF Open, Tries, Idle, At
  <2>3. Works(n)
      BY <1>16, FinishKeeps, IdleWorks DEF Open
  <2>4. Knows(n)
      BY <1>16, FinishKeeps, IdleWorks DEF Open
  <2> QED BY <1>0, <2>1, <2>2, <2>3, <2>4, QuietStep
<1>17. CASE Undecryptable(t)
  <2>1. UNCHANGED slots /\ \A u \in Tasks : u # t => task'[u] = task[u]
      BY <1>17, <1>y DEF Undecryptable, Goto, Finish, Acquired
  <2>2. k.at \notin {"label", "bump"}
      BY <1>17 DEF Undecryptable, Idle, At
  <2>3. Works(n)
      BY <1>17, FinishKeeps, IdleWorks DEF Undecryptable
  <2>4. Knows(n)
      BY <1>17, FinishKeeps, IdleWorks DEF Undecryptable
  <2> QED BY <1>0, <2>1, <2>2, <2>3, <2>4, QuietStep
<1>18. CASE ReadGen(t)
  <2>1. UNCHANGED slots /\ \A u \in Tasks : u # t => task'[u] = task[u]
      BY <1>18, <1>y DEF ReadGen, Goto, Finish, Acquired
  <2>2. k.at \notin {"label", "bump"}
      BY <1>18 DEF ReadGen, Idle, At
  <2>3. Works(n)
      BY <1>18, <1>k, <1>w, <1>y DEF ReadGen, Works, Installs, TaskType
  <2>4. Knows(n)
      BY <1>18, <1>y DEF ReadGen, Knows, Waiting, TaskType
  <2> QED BY <1>0, <2>1, <2>2, <2>3, <2>4, QuietStep
<1>19. CASE RecvMore(t)
  <2>1. UNCHANGED slots /\ \A u \in Tasks : u # t => task'[u] = task[u]
      BY <1>19, <1>y DEF RecvMore, Goto, Finish, Acquired
  <2>2. k.at \notin {"label", "bump"}
      BY <1>19 DEF RecvMore, Idle, At
  <2>3. Works(n)
      BY <1>19, <1>k, <1>w, <1>y DEF RecvMore, Works, Installs, TaskType
  <2>4. Knows(n)
      BY <1>19, <1>y DEF RecvMore, Knows, Waiting, TaskType
  <2> QED BY <1>0, <2>1, <2>2, <2>3, <2>4, QuietStep
<1>20. CASE TryNext(t)
  <2>1. UNCHANGED slots /\ \A u \in Tasks : u # t => task'[u] = task[u]
      BY <1>20, <1>y DEF TryNext, Tries, Goto, Finish, Acquired
  <2>2. k.at \notin {"label", "bump"}
      BY <1>20 DEF TryNext, Tries, Idle, At
  <2>3. Works(n)
      BY <1>20, <1>k, <1>w, <1>y DEF TryNext, Tries, Works, Installs, TaskType
  <2>4. Knows(n)
      BY <1>20, <1>y DEF TryNext, Tries, Knows, Waiting, TaskType
  <2> QED BY <1>0, <2>1, <2>2, <2>3, <2>4, QuietStep
<1>21. CASE Bump(t)
  <2>o. \A u \in Tasks : u # t => task'[u] = task[u]
      BY <1>21, <1>y, GotoKeeps, FinishKeeps, AcquiredKeeps DEF Bump
  <2>n. k.at = "bump" /\ k.conn \in Conns /\ n.at \in {"cur", "unmap", "none"} /\ n.cands = {}
      BY <1>21, <1>k, <1>y, Carries, GotoKeeps, FinishKeeps, AcquiredKeeps DEF Bump, Idle, Coherent, TaskType, Installs
  <2>a. OwnSlots'
      BY <1>21 DEF Bump, SlotsInv, OwnSlots
  <2>b. Named'
      BY <1>21, <1>u, <2>n, <2>o DEF Bump, SlotsInv, Named, Linked
  <2>c. Works(task[t])'
      BY <2>n DEF Works
  <2>d. ASSUME NEW u \in Tasks PROVE  Known(task[u])'
    <3>1. Waiting(task'[u]) => u # t /\ task'[u] = task[u]
        BY <2>o, <2>n DEF Waiting
    <3>2. Known(task[u]) /\ Coherent(task[u])
        BY <1>w, Carries
    <3>3. Waiting(task[u]) => task[u].saw[1] \in Conns /\ task[u].gen \in Nat
        BY <3>2, Carries DEF Coherent, Waiting, TaskType
    <3>4. ASSUME NEW c \in Conns, c = Primary \/ \E p \in Remotes : extra'[p] = c,
                 Waiting(task[u]), task[u].saw[1] = c, u # t
          PROVE  /\ c = Primary \/ \E p \in Remotes : extra[p] = c
                 /\ task[u].gen <= gen[c] =>
                       /\ task[u].gen <= gen'[c]
                       /\ \/ task[u].gen < gen'[c]
                          \/ Changing(c)'
                          \/ gen'[c] = gen[c] /\ session'[c] = session[c] /\ ~Changing(c)
        BY <1>21, <1>u, <1>y, <1>k, <2>o, <2>n, <3>3, <3>4 DEF Bump, Changing
    <3> QED BY <3>1, <3>2, <3>3, <3>4 DEF Known
  <2> QED BY <1>0, <2>o, <2>a, <2>b, <2>c, <2>d, RunnerStep
<1>22. CASE Null(t)
  <2>o. \A u \in Tasks : u # t => task'[u] = task[u]
      BY <1>22, <1>y, GotoKeeps, FinishKeeps, AcquiredKeeps DEF Null
  <2>n. k.at = "null" /\ k.conn \in Conns /\ n.conn = k.conn /\ n.at = "bump" /\ n.cands = {}
      BY <1>22, <1>k, <1>y, Carries, GotoKeeps, FinishKeeps, AcquiredKeeps DEF Null, Idle, Coherent, TaskType, Installs
  <2>a. OwnSlots'
      BY <1>22, <1>y, <2>n DEF Null, SlotsInv, OwnSlots, Conns
  <2>b. Named'
      BY <1>22, <1>u, <1>y, <2>n, <2>o DEF Null, SlotsInv, Named, Linked
  <2>c. Works(task[t])'
      BY <2>n DEF Works
  <2>d. ASSUME NEW u \in Tasks PROVE  Known(task[u])'
    <3>1. Waiting(task'[u]) => u # t /\ task'[u] = task[u]
        BY <2>o, <2>n DEF Waiting
    <3>2. Known(task[u]) /\ Coherent(task[u])
        BY <1>w, Carries
    <3>3. Waiting(task[u]) => task[u].saw[1] \in Conns /\ task[u].gen \in Nat
        BY <3>2, Carries DEF Coherent, Waiting, TaskType
    <3>4. ASSUME NEW c \in Conns, c = Primary \/ \E p \in Remotes : extra'[p] = c,
                 Waiting(task[u]), task[u].saw[1] = c, u # t
          PROVE  /\ c = Primary \/ \E p \in Remotes : extra[p] = c
                 /\ task[u].gen <= gen[c] =>
                       /\ task[u].gen <= gen'[c]
                       /\ \/ task[u].gen < gen'[c]
                          \/ Changing(c)'
                          \/ gen'[c] = gen[c] /\ session'[c] = session[c] /\ ~Changing(c)
        BY <1>22, <1>u, <1>y, <1>k, <2>o, <2>n, <3>4 DEF Null, Changing
    <3> QED BY <3>1, <3>2, <3>3, <3>4 DEF Known
  <2> QED BY <1>0, <2>o, <2>a, <2>b, <2>c, <2>d, RunnerStep
<1>23. CASE Unmap(t)
  <2>o. \A u \in Tasks : u # t => task'[u] = task[u]
      BY <1>23, <1>y, GotoKeeps, FinishKeeps, AcquiredKeeps DEF Unmap
  <2>n. k.at = "unmap" /\ k.peer \in Remotes /\ n.at = "none" /\ n.cands = {}
      BY <1>23, <1>k, <1>y, Carries, GotoKeeps, FinishKeeps, AcquiredKeeps DEF Unmap, Idle, Coherent, TaskType, Installs
  <2>a. OwnSlots'
      BY <1>23, <1>y, <2>n DEF Unmap, SlotsInv, OwnSlots
  <2>b. Named'
      BY <1>23, <1>u, <1>y, <2>n, <2>o, SlotAssumption DEF Unmap, SlotsInv, Named, Linked, Conns
  <2>c. Works(task[t])'
      BY <2>n DEF Works
  <2>d. ASSUME NEW u \in Tasks PROVE  Known(task[u])'
    <3>1. Waiting(task'[u]) => u # t /\ task'[u] = task[u]
        BY <2>o, <2>n DEF Waiting
    <3>2. Known(task[u]) /\ Coherent(task[u])
        BY <1>w, Carries
    <3>3. Waiting(task[u]) => task[u].saw[1] \in Conns /\ task[u].gen \in Nat
        BY <3>2, Carries DEF Coherent, Waiting, TaskType
    <3>4. ASSUME NEW c \in Conns, c = Primary \/ \E p \in Remotes : extra'[p] = c,
                 Waiting(task[u]), task[u].saw[1] = c, u # t
          PROVE  /\ c = Primary \/ \E p \in Remotes : extra[p] = c
                 /\ task[u].gen <= gen[c] =>
                       /\ task[u].gen <= gen'[c]
                       /\ \/ task[u].gen < gen'[c]
                          \/ Changing(c)'
                          \/ gen'[c] = gen[c] /\ session'[c] = session[c] /\ ~Changing(c)
        BY <1>23, <1>u, <1>y, <1>k, <2>o, <2>n, <3>4, SlotAssumption DEF Unmap, Changing, Conns
    <3> QED BY <3>1, <3>2, <3>3, <3>4 DEF Known
  <2> QED BY <1>0, <2>o, <2>a, <2>b, <2>c, <2>d, RunnerStep
<1>24. CASE CommitInstall(t) /\ session[k.conn] = None
  <2>o. \A u \in Tasks : u # t => task'[u] = task[u]
      BY <1>24, <1>y, GotoKeeps, FinishKeeps, AcquiredKeeps DEF CommitInstall
  <2>n. /\ k.at = "commit" /\ k.op = "Install" /\ k.conn \in Conns /\ n.conn = k.conn /\ n.peer = k.peer
        /\ n.at = "label" /\ n.op = "Install" /\ ~n.again /\ n.cands = {} /\ Owner(k.own) = k.peer
        /\ k.conn = Primary \/ k.conn = extra[k.peer]
      BY <1>w, <1>24, <1>k, <1>y, Carries, GotoKeeps, FinishKeeps, AcquiredKeeps DEF CommitInstall, At, Idle, Coherent, TaskType, Installs, Works
  <2>p. k.peer \in Remotes
      BY <2>n, Carries
  <2>a. OwnSlots'
    <3>1. ASSUME NEW p \in Remotes, extra'[p] # None, session'[extra'[p]] # None
          PROVE  Owner(session'[extra'[p]]) = p
      <4>1. extra[p] \in Extras /\ extra[p] # Primary /\ extra' = extra
          BY <1>24, <3>1, <1>y, SlotAssumption DEF CommitInstall
      <4>2. CASE extra[p] = k.conn
        <5>3. extra[k.peer] = extra[p]
            BY <4>1, <4>2, <2>n
        <5>1. p = k.peer
            BY <4>1, <5>3, <2>p, <3>1 DEF SlotsInv, OwnSlots
        <5>2. session'[extra'[p]] = k.own
            BY <1>24, <4>1, <4>2, <2>n, <1>y DEF CommitInstall
        <5> QED BY <5>1, <5>2, <2>n
      <4>3. CASE extra[p] # k.conn
        <5>1. session'[extra'[p]] = session[extra[p]]
            BY <1>24, <4>1, <4>3, <2>n, <1>y DEF CommitInstall, Conns
        <5> QED BY <3>1, <4>1, <5>1 DEF SlotsInv, OwnSlots
      <4> QED BY <4>2, <4>3
    <3> QED BY <1>24, <3>1 DEF SlotsInv, OwnSlots, CommitInstall
  <2>b. Named'
      BY <1>24, <1>u, <1>y, <2>n, <2>o DEF CommitInstall, SlotsInv, Named, Linked
  <2>c. Works(task[t])'
      BY <1>24, <1>y, <2>n DEF CommitInstall, Works
  <2>d. ASSUME NEW u \in Tasks PROVE  Known(task[u])'
    <3>1. Waiting(task'[u]) => u # t /\ task'[u] = task[u]
        BY <2>o, <2>n DEF Waiting
    <3>2. Known(task[u]) /\ Coherent(task[u])
        BY <1>w, Carries
    <3>3. Waiting(task[u]) => task[u].saw[1] \in Conns /\ task[u].gen \in Nat
        BY <3>2, Carries DEF Coherent, Waiting, TaskType
    <3>4. ASSUME NEW c \in Conns, c = Primary \/ \E p \in Remotes : extra'[p] = c,
                 Waiting(task[u]), task[u].saw[1] = c, u # t
          PROVE  /\ c = Primary \/ \E p \in Remotes : extra[p] = c
                 /\ task[u].gen <= gen[c] =>
                       /\ task[u].gen <= gen'[c]
                       /\ \/ task[u].gen < gen'[c]
                          \/ Changing(c)'
                          \/ gen'[c] = gen[c] /\ session'[c] = session[c] /\ ~Changing(c)
        BY <1>24, <1>u, <1>y, <1>k, <2>o, <2>n, <3>4 DEF CommitInstall, Changing
    <3> QED BY <3>1, <3>2, <3>3, <3>4 DEF Known
  <2> QED BY <1>0, <2>o, <2>a, <2>b, <2>c, <2>d, RunnerStep
<1>25. CASE CommitRekey(t) /\ gen[k.conn] = k.gen
  <2>o. \A u \in Tasks : u # t => task'[u] = task[u]
      BY <1>25, <1>y, GotoKeeps, FinishKeeps, AcquiredKeeps DEF CommitRekey
  <2>n. /\ k.at = "commit" /\ k.op = "Rekey" /\ k.conn \in Conns /\ n.conn = k.conn /\ n.peer = k.peer
        /\ n.at = "label" /\ n.op = "Rekey" /\ n.cands = {} /\ Owner(k.own) = k.peer
        /\ k.conn = Primary \/ k.conn = extra[k.peer]
      BY <1>w, <1>25, <1>k, <1>y, Carries, GotoKeeps, FinishKeeps, AcquiredKeeps DEF CommitRekey, At, Idle, Coherent, TaskType, Installs, Works
  <2>p. k.peer \in Remotes
      BY <2>n, Carries
  <2>a. OwnSlots'
    <3>1. ASSUME NEW p \in Remotes, extra'[p] # None, session'[extra'[p]] # None
          PROVE  Owner(session'[extra'[p]]) = p
      <4>1. extra[p] \in Extras /\ extra[p] # Primary /\ extra' = extra
          BY <1>25, <3>1, <1>y, SlotAssumption DEF CommitRekey
      <4>2. CASE extra[p] = k.conn
        <5>3. extra[k.peer] = extra[p]
            BY <4>1, <4>2, <2>n
        <5>1. p = k.peer
            BY <4>1, <5>3, <2>p, <3>1 DEF SlotsInv, OwnSlots
        <5>2. session'[extra'[p]] = k.own
            BY <1>25, <4>1, <4>2, <2>n, <1>y DEF CommitRekey
        <5> QED BY <5>1, <5>2, <2>n
      <4>3. CASE extra[p] # k.conn
        <5>1. session'[extra'[p]] = session[extra[p]]
            BY <1>25, <4>1, <4>3, <2>n, <1>y DEF CommitRekey, Conns
        <5> QED BY <3>1, <4>1, <5>1 DEF SlotsInv, OwnSlots
      <4> QED BY <4>2, <4>3
    <3> QED BY <1>25, <3>1 DEF SlotsInv, OwnSlots, CommitRekey
  <2>b. Named'
      BY <1>25, <1>u, <1>y, <2>n, <2>o DEF CommitRekey, SlotsInv, Named, Linked
  <2>c. Works(task[t])'
      BY <1>25, <1>y, <2>n DEF CommitRekey, Works
  <2>d. ASSUME NEW u \in Tasks PROVE  Known(task[u])'
    <3>1. Waiting(task'[u]) => u # t /\ task'[u] = task[u]
        BY <2>o, <2>n DEF Waiting
    <3>2. Known(task[u]) /\ Coherent(task[u])
        BY <1>w, Carries
    <3>3. Waiting(task[u]) => task[u].saw[1] \in Conns /\ task[u].gen \in Nat
        BY <3>2, Carries DEF Coherent, Waiting, TaskType
    <3>4. ASSUME NEW c \in Conns, c = Primary \/ \E p \in Remotes : extra'[p] = c,
                 Waiting(task[u]), task[u].saw[1] = c, u # t
          PROVE  /\ c = Primary \/ \E p \in Remotes : extra[p] = c
                 /\ task[u].gen <= gen[c] =>
                       /\ task[u].gen <= gen'[c]
                       /\ \/ task[u].gen < gen'[c]
                          \/ Changing(c)'
                          \/ gen'[c] = gen[c] /\ session'[c] = session[c] /\ ~Changing(c)
        BY <1>25, <1>u, <1>y, <1>k, <2>o, <2>n, <3>3, <3>4 DEF CommitRekey, Changing
    <3> QED BY <3>1, <3>2, <3>3, <3>4 DEF Known
  <2> QED BY <1>0, <2>o, <2>a, <2>b, <2>c, <2>d, RunnerStep
<1>26. CASE Label(t)
  <2>o. \A u \in Tasks : u # t => task'[u] = task[u]
      BY <1>26, <1>y, GotoKeeps, FinishKeeps, AcquiredKeeps DEF Label
  <2>n. /\ k.at = "label" /\ k.conn \in Conns
        /\ n.at \in {"none", "bump", "cur"} /\ n.cands = {}
        /\ ~k.again /\ k.op = "Install" => n.at = "bump" /\ n.conn = k.conn
      BY <1>26, <1>k, <1>y, Carries, GotoKeeps, FinishKeeps, AcquiredKeeps DEF Label, Idle, Coherent, TaskType, Installs
  <2>a. OwnSlots'
      BY <1>26 DEF Label, SlotsInv, OwnSlots
  <2>b. Named'
      BY <1>26, <1>u, <1>y, <1>w, <2>n, <2>o DEF Label, SlotsInv, Named, Linked, Works
  <2>c. Works(task[t])'
      BY <2>n DEF Works
  <2>d. ASSUME NEW u \in Tasks PROVE  Known(task[u])'
    <3>1. Waiting(task'[u]) => u # t /\ task'[u] = task[u]
        BY <2>o, <2>n DEF Waiting
    <3>2. Known(task[u]) /\ Coherent(task[u])
        BY <1>w, Carries
    <3>3. Waiting(task[u]) => task[u].saw[1] \in Conns /\ task[u].gen \in Nat
        BY <3>2, Carries DEF Coherent, Waiting, TaskType
    <3>4. ASSUME NEW c \in Conns, c = Primary \/ \E p \in Remotes : extra'[p] = c,
                 Waiting(task[u]), task[u].saw[1] = c, u # t
          PROVE  /\ c = Primary \/ \E p \in Remotes : extra[p] = c
                 /\ task[u].gen <= gen[c] =>
                       /\ task[u].gen <= gen'[c]
                       /\ \/ task[u].gen < gen'[c]
                          \/ Changing(c)'
                          \/ gen'[c] = gen[c] /\ session'[c] = session[c] /\ ~Changing(c)
        BY <1>26, <1>u, <1>y, <1>k, <2>o, <2>n, <3>4 DEF Label, Changing, Installs
    <3> QED BY <3>1, <3>2, <3>3, <3>4 DEF Known
  <2> QED BY <1>0, <2>o, <2>a, <2>b, <2>c, <2>d, RunnerStep
<1>27. CASE LabelPromoted(t)
  <2>o. \A u \in Tasks : u # t => task'[u] = task[u]
      BY <1>27, <1>y, GotoKeeps, FinishKeeps, AcquiredKeeps DEF LabelPromoted
  <2>n. /\ k.at = "label" /\ k.conn = Primary /\ n.conn = k.conn
        /\ n.at = "bump" /\ n.cands = {}
      BY <1>27, <1>k, <1>y, Carries, GotoKeeps, FinishKeeps, AcquiredKeeps DEF LabelPromoted, At, Idle, Coherent, TaskType, Installs
  <2>a. OwnSlots'
      BY <1>27 DEF LabelPromoted, SlotsInv, OwnSlots
  <2>b. Named'
      BY <1>27, <1>u, <1>y, <1>w, <2>n, <2>o DEF LabelPromoted, SlotsInv, Named, Linked, Works, Conns
  <2>c. Works(task[t])'
      BY <2>n DEF Works
  <2>d. ASSUME NEW u \in Tasks PROVE  Known(task[u])'
    <3>1. Waiting(task'[u]) => u # t /\ task'[u] = task[u]
        BY <2>o, <2>n DEF Waiting
    <3>2. Known(task[u]) /\ Coherent(task[u])
        BY <1>w, Carries
    <3>3. Waiting(task[u]) => task[u].saw[1] \in Conns /\ task[u].gen \in Nat
        BY <3>2, Carries DEF Coherent, Waiting, TaskType
    <3>4. ASSUME NEW c \in Conns, c = Primary \/ \E p \in Remotes : extra'[p] = c,
                 Waiting(task[u]), task[u].saw[1] = c, u # t
          PROVE  /\ c = Primary \/ \E p \in Remotes : extra[p] = c
                 /\ task[u].gen <= gen[c] =>
                       /\ task[u].gen <= gen'[c]
                       /\ \/ task[u].gen < gen'[c]
                          \/ Changing(c)'
                          \/ gen'[c] = gen[c] /\ session'[c] = session[c] /\ ~Changing(c)
        BY <1>27, <1>u, <1>y, <1>k, <2>o, <2>n, <3>4 DEF LabelPromoted, Changing
    <3> QED BY <3>1, <3>2, <3>3, <3>4 DEF Known
  <2> QED BY <1>0, <2>o, <2>a, <2>b, <2>c, <2>d, RunnerStep
<1>28. ASSUME NEW p \in Remotes, Promote(t, p) PROVE  SlotsInv'
  <2>o. \A u \in Tasks : u # t => task'[u] = task[u]
      BY <1>28, <1>y, GotoKeeps, FinishKeeps, AcquiredKeeps DEF Promote
  <2>n. /\ k.at = "none" /\ n.conn = extra[p] /\ n.peer = p /\ extra[p] \in Extras
        /\ n.at = "take" /\ n.cands = {}
      BY <1>28, <1>k, <1>y, Carries, GotoKeeps, FinishKeeps, AcquiredKeeps DEF Promote, Idle, Coherent, TaskType, Installs
  <2>a. OwnSlots'
      BY <1>28, <1>y DEF Promote, SlotsInv, OwnSlots
  <2>b. Named'
    <3>1. \A c \in Conns : Linked(c)' => Linked(c)
        BY <1>28, <1>y, SlotAssumption DEF Promote, Linked, Conns
    <3>2. \A c \in Conns : Linked(c) => label[c] = Owner(session[c])
        BY <1>0, <2>n, NobodyChanges
    <3>3. label' = label /\ session' = session
        BY <1>28 DEF Promote
    <3> QED BY <3>1, <3>2, <3>3 DEF Named
  <2>c. Works(task[t])'
    <3>1. ASSUME NEW q \in Remotes PROVE  extra'[q] # n.conn
      <4>1. extra[p] # None /\ extra'[q] = IF q = p THEN None ELSE extra[q]
          BY <1>28, <1>y DEF Promote
      <4>2. q # p => extra[q] # extra[p]
          BY <4>1 DEF SlotsInv, OwnSlots
      <4> QED BY <4>1, <4>2, <2>n
    <3>2. session'[n.conn] # None => Owner(session'[n.conn]) = n.peer
        BY <1>28, <2>n, SlotAssumption DEF Promote, SlotsInv, OwnSlots
    <3> QED BY <2>n, <3>1, <3>2 DEF Works
  <2>d. ASSUME NEW u \in Tasks PROVE  Known(task[u])'
    <3>1. Waiting(task'[u]) => u # t /\ task'[u] = task[u]
        BY <2>o, <2>n DEF Waiting
    <3>2. Known(task[u]) /\ Coherent(task[u])
        BY <1>w, Carries
    <3>3. Waiting(task[u]) => task[u].saw[1] \in Conns /\ task[u].gen \in Nat
        BY <3>2, Carries DEF Coherent, Waiting, TaskType
    <3>4. ASSUME NEW c \in Conns, c = Primary \/ \E r \in Remotes : extra'[r] = c,
                 Waiting(task[u]), task[u].saw[1] = c, u # t
          PROVE  /\ c = Primary \/ \E r \in Remotes : extra[r] = c
                 /\ task[u].gen <= gen[c] =>
                       /\ task[u].gen <= gen'[c]
                       /\ \/ task[u].gen < gen'[c]
                          \/ Changing(c)'
                          \/ gen'[c] = gen[c] /\ session'[c] = session[c] /\ ~Changing(c)
        BY <1>28, <1>u, <1>y, <1>k, <2>o, <2>n, <3>4, SlotAssumption DEF Promote, Changing, Conns
    <3> QED BY <3>1, <3>2, <3>3, <3>4 DEF Known
  <2> QED BY <1>0, <2>o, <2>a, <2>b, <2>c, <2>d, RunnerStep
<1>29. CASE TakeOut(t)
  <2>o. \A u \in Tasks : u # t => task'[u] = task[u]
      BY <1>29, <1>y, GotoKeeps, FinishKeeps, AcquiredKeeps DEF TakeOut
  <2>n. /\ k.at = "take" /\ k.conn \in Extras /\ \A p \in Remotes : extra[p] # k.conn
        /\ n.cands = {}
        /\ \/ n.at = "none"
           \/ n.at = "move" /\ Owner(n.own) = n.peer
    <3>1. /\ k.at = "take" /\ k.conn \in Extras /\ \A p \in Remotes : extra[p] # k.conn
          /\ session[k.conn] # None => Owner(session[k.conn]) = k.peer
        BY <1>29, <1>w DEF TakeOut, Works
    <3>2. CASE session[k.conn] = None
        BY <1>29, <3>1, <3>2, FinishKeeps DEF TakeOut, Idle
    <3>3. CASE session[k.conn] # None
      <4>1. n = [k EXCEPT !.own = session[k.conn], !.conn = Primary, !.at = "move"]
          BY <1>29, <3>3, <1>y DEF TakeOut
      <4>2. k.cands = {}
          BY <3>1, <1>k DEF Coherent
      <4>3. n.at = "move" /\ n.own = session[k.conn] /\ n.peer = k.peer /\ n.cands = k.cands
          BY <4>1, <1>k DEF TaskType
      <4> QED BY <3>1, <3>3, <4>2, <4>3
    <3> QED BY <3>2, <3>3
  <2>a. OwnSlots'
      BY <1>29, <1>y, <2>n DEF TakeOut, SlotsInv, OwnSlots, Conns
  <2>b. Named'
      BY <1>29, <1>u, <1>y, <2>n, <2>o DEF TakeOut, SlotsInv, Named, Linked
  <2>c. Works(task[t])'
      BY <2>n DEF Works, Installs
  <2>d. ASSUME NEW u \in Tasks PROVE  Known(task[u])'
    <3>1. Waiting(task'[u]) => u # t /\ task'[u] = task[u]
        BY <2>o, <2>n DEF Waiting
    <3>2. Known(task[u]) /\ Coherent(task[u])
        BY <1>w, Carries
    <3>3. Waiting(task[u]) => task[u].saw[1] \in Conns /\ task[u].gen \in Nat
        BY <3>2, Carries DEF Coherent, Waiting, TaskType
    <3>4. ASSUME NEW c \in Conns, c = Primary \/ \E p \in Remotes : extra'[p] = c,
                 Waiting(task[u]), task[u].saw[1] = c, u # t
          PROVE  /\ c = Primary \/ \E p \in Remotes : extra[p] = c
                 /\ task[u].gen <= gen[c] =>
                       /\ task[u].gen <= gen'[c]
                       /\ \/ task[u].gen < gen'[c]
                          \/ Changing(c)'
                          \/ gen'[c] = gen[c] /\ session'[c] = session[c] /\ ~Changing(c)
      <4>0. extra' = extra
          BY <1>29 DEF TakeOut
      <4>1. c # k.conn
          BY <2>n, <3>4, <4>0, SlotAssumption
      <4>2. session'[c] = session[c] /\ gen' = gen /\ extra' = extra
          BY <1>29, <4>1, <1>y DEF TakeOut
      <4>3. ~Changing(c)
          BY <1>u, <2>n DEF Changing
      <4> QED BY <3>4, <4>2, <4>3
    <3> QED BY <3>1, <3>2, <3>3, <3>4 DEF Known
  <2> QED BY <1>0, <2>o, <2>a, <2>b, <2>c, <2>d, RunnerStep
<1>30. CASE Move(t)
  <2>o. \A u \in Tasks : u # t => task'[u] = task[u]
      BY <1>30, <1>y, GotoKeeps, FinishKeeps, AcquiredKeeps DEF Move
  <2>n. /\ k.at = "move" /\ n.op = "Promote" /\ n.at = "label" /\ n.conn = Primary /\ ~n.again
        /\ n.cands = {} /\ n.peer = k.peer /\ Owner(k.own) = k.peer
      BY <1>w, <1>30, <1>k, <1>y, Carries, GotoKeeps, FinishKeeps, AcquiredKeeps DEF Move, Idle, Coherent, TaskType, Installs, Works, Ops
  <2>a. OwnSlots'
    <3>1. \A p \in Remotes : extra[p] # None => session'[extra[p]] = session[extra[p]]
        BY <1>30, <1>y, SlotAssumption DEF Move, Conns
    <3>2. extra' = extra
        BY <1>30 DEF Move
    <3> QED BY <3>1, <3>2 DEF SlotsInv, OwnSlots
  <2>b. Named'
      BY <1>30, <1>u, <1>y, <2>n, <2>o DEF Move, SlotsInv, Named, Linked, Conns
  <2>c. Works(task[t])'
      BY <1>30, <1>y, <2>n DEF Move, Works, Conns, Installs
  <2>d. ASSUME NEW u \in Tasks PROVE  Known(task[u])'
    <3>1. Waiting(task'[u]) => u # t /\ task'[u] = task[u]
        BY <2>o, <2>n DEF Waiting
    <3>2. Known(task[u]) /\ Coherent(task[u])
        BY <1>w, Carries
    <3>3. Waiting(task[u]) => task[u].saw[1] \in Conns /\ task[u].gen \in Nat
        BY <3>2, Carries DEF Coherent, Waiting, TaskType
    <3>4. ASSUME NEW c \in Conns, c = Primary \/ \E p \in Remotes : extra'[p] = c,
                 Waiting(task[u]), task[u].saw[1] = c, u # t
          PROVE  /\ c = Primary \/ \E p \in Remotes : extra[p] = c
                 /\ task[u].gen <= gen[c] =>
                       /\ task[u].gen <= gen'[c]
                       /\ \/ task[u].gen < gen'[c]
                          \/ Changing(c)'
                          \/ gen'[c] = gen[c] /\ session'[c] = session[c] /\ ~Changing(c)
        BY <1>30, <1>u, <1>y, <1>k, <2>o, <2>n, <3>4 DEF Move, Changing, Conns
    <3> QED BY <3>1, <3>2, <3>3, <3>4 DEF Known
  <2> QED BY <1>0, <2>o, <2>a, <2>b, <2>c, <2>d, RunnerStep
<1>31. CASE AcquireExtra(t) /\ extra[k.peer] = None
  <2>1. PICK c \in Extras :
            /\ Unused(c)
            /\ extra' = [extra EXCEPT ![k.peer] = c]
            /\ session' = [session EXCEPT ![c] = None]
            /\ label' = [label EXCEPT ![c] = None]
            /\ gen' = [gen EXCEPT ![c] = 0]
            /\ Acquired(t, c)
      BY <1>31 DEF AcquireExtra
  <2>o. \A u \in Tasks : u # t => task'[u] = task[u]
      BY <1>31, <1>y, GotoKeeps, FinishKeeps, AcquiredKeeps DEF AcquireExtra
  <2>n. /\ k.at = "extra" /\ k.peer \in Remotes /\ n.at \in {"commit", "label"} /\ n.conn = c /\ n.peer = k.peer
        /\ n.cands = {} /\ (n.op = "Rekey" => n.at = "label") /\ n.op \in Installs
      BY <2>1, <1>31, <1>k, <1>y, Carries, GotoKeeps, FinishKeeps, AcquiredKeeps DEF AcquireExtra, Idle, Coherent, TaskType, Installs, Ops
  <2>a. OwnSlots'
      BY <1>y, <2>1, <2>n, SlotAssumption DEF Unused, SlotsInv, OwnSlots, Conns
  <2>b. Named'
      BY <1>u, <1>y, <2>1, <2>n, <2>o DEF SlotsInv, Named, Linked, Conns
  <2>c. Works(task[t])'
      BY <1>y, <2>1, <2>n DEF Works, Conns, Installs
  <2>d. ASSUME NEW u \in Tasks PROVE  Known(task[u])'
    <3>1. Waiting(task'[u]) => u # t /\ task'[u] = task[u]
        BY <2>o, <2>n DEF Waiting
    <3>2. Known(task[u]) /\ Coherent(task[u])
        BY <1>w, Carries
    <3>3. Waiting(task[u]) => task[u].saw[1] \in Conns /\ task[u].gen \in Nat
        BY <3>2, Carries DEF Coherent, Waiting, TaskType
    <3>4. ASSUME NEW d \in Conns, d = Primary \/ \E p \in Remotes : extra'[p] = d,
                 Waiting(task[u]), task[u].saw[1] = d, u # t
          PROVE  /\ d = Primary \/ \E p \in Remotes : extra[p] = d
                 /\ task[u].gen <= gen[d] =>
                       /\ task[u].gen <= gen'[d]
                       /\ \/ task[u].gen < gen'[d]
                          \/ Changing(d)'
                          \/ gen'[d] = gen[d] /\ session'[d] = session[d] /\ ~Changing(d)
        <4>1. task[u].saw[1] # c
            BY <2>1, <3>4 DEF Unused, Waiting
        <4> QED BY <2>1, <1>u, <1>y, <1>k, <2>o, <2>n, <3>4, <4>1 DEF Changing, Conns
    <3> QED BY <3>1, <3>2, <3>3, <3>4 DEF Known
  <2> QED BY <1>0, <2>o, <2>a, <2>b, <2>c, <2>d, RunnerStep
<1> QED BY <1>0, <1>1, <1>2, <1>3, <1>4, <1>5, <1>6, <1>7, <1>8, <1>9, <1>10, <1>11, <1>12, <1>13, <1>14, <1>15, <1>16, <1>17, <1>18, <1>19, <1>20, <1>21, <1>22, <1>23, <1>24, <1>25, <1>26, <1>27, <1>28, <1>29, <1>30, <1>31 DEF Step

LEMMA WholeInvStep == Shape /\ WholeInv /\ [SlotNext]_slotVars => WholeInv'
<1> SUFFICES ASSUME Shape, WholeInv, [SlotNext]_slotVars PROVE  WholeInv'
    OBVIOUS
<1>1. CASE UNCHANGED slotVars
  <2>1. OneRuns' = OneRuns /\ OwnSlots' = OwnSlots
      BY <1>1 DEF slotVars, OneRuns, Running, OwnSlots
  <2>2. Named' = Named
      BY <1>1 DEF slotVars, Named, Linked
  <2>3. \A t \in Tasks : Works(task[t])' = Works(task[t])
      BY <1>1 DEF slotVars, Works, ConnFor
  <2>4. \A t \in Tasks : Known(task[t])' = Known(task[t])
      BY <1>1 DEF slotVars, Known, Waiting, Changing
  <2> QED BY <1>1, <2>1, <2>2, <2>3, <2>4 DEF slotVars, WholeInv, WholeOperations, SlotsInv
<1>2. CASE SlotNext
  <2>0. PICK t \in Tasks : MayRun(t) /\ Step(t)
      BY <1>2 DEF SlotNext, Step
  <2>1. schedule' = schedule
    <3>1. CASE \E x : \/ Install(t, x) \/ Rekey(t, x) \/ Recv(t, x) \/ Promote(t, x)
                      \/ SendEncrypted(t, x) \/ \E op : Drop(t, op, x)
        BY <3>1 DEF Install, Rekey, Recv, Drop, Promote, SendEncrypted
    <3>2. CASE \/ DropPrimary(t) \/ Shaken(t) \/ AcquireCur(t) \/ AcquireLive(t)
               \/ AcquireExtra(t) \/ Resolve(t) \/ CommitInstall(t) \/ CommitRekey(t)
        BY <3>2 DEF DropPrimary, Shaken, AcquireCur, AcquireLive, AcquireExtra, Resolve,
           CommitInstall, CommitRekey
    <3>3. CASE \/ Label(t) \/ Bump(t) \/ Null(t) \/ Unmap(t) \/ TakeOut(t) \/ Move(t)
               \/ LabelPromoted(t)
        BY <3>3 DEF Label, Bump, Null, Unmap, TakeOut, Move, LabelPromoted
    <3>4. CASE \/ ReadGen(t) \/ Seal(t) \/ AbortSend(t) \/ RecvMore(t) \/ Open(t) \/ TryNext(t)
               \/ Undecryptable(t)
        BY <3>4 DEF ReadGen, Seal, AbortSend, RecvMore, Open, TryNext, Undecryptable
    <3> QED BY <2>0, <3>1, <3>2, <3>3, <3>4, ZenonT(60) DEF Step
  <2> QED BY <1>2, <2>1, WholeStep DEF WholeInv, WholeOperations
<1> QED BY <1>1, <1>2

LEMMA SlotInitInv == SlotInit => Shape /\ WholeInv
<1> SUFFICES ASSUME SlotInit PROVE  Shape /\ WholeInv
    OBVIOUS
<1>1. Shape
    BY IdleShape DEF SlotInit, Shape, SlotTypeOK, SlotsTyped, Conns
<1>2. OneRuns /\ OwnSlots /\ Named
    BY DEF SlotInit, OneRuns, Running, OwnSlots, Named, Linked, Idle
<1>3. \A t \in Tasks : Works(task[t]) /\ Known(task[t])
    BY IdleWorks, KnowsKnown DEF SlotInit
<1> QED BY <1>1, <1>2, <1>3 DEF WholeInv, SlotsInv

\* Every linked slot is its owner's when no task is at the step that labels it.
LEMMA NamedAtRest ==
    ASSUME SlotsInv, \A t \in Tasks : task[t].at # "label"
    PROVE  \A c \in Conns : Linked(c) => label[c] = Owner(session[c])
    BY DEF SlotsInv, Named

\* recv hands a datagram on under the name of the device whose session opened
\* it: whatever slot a candidate lists, its name is the session's owner.
THEOREM ReceivedFromOwnerHolds == SlotSpec => []ReceivedFromOwner
<1>1. Shape /\ WholeInv => ReceivedFromOwner
  <2> SUFFICES ASSUME Shape, SlotsInv, NEW t \in Tasks, NEW x \in task[t].cands,
                      task[t].at = "open", session[x[2]] = task[t].own
               PROVE  x[1] = Owner(task[t].own)
      BY DEF WholeInv, ReceivedFromOwner, Tries
  <2>1. /\ x \in Remotes \X Conns /\ task[t].own \in Sessions /\ Works(task[t])
      BY Carries DEF SlotsInv
  <2>2. \A u \in Tasks : task[u].at # "label"
      BY DEF SlotsInv, OneRuns, Running
  <2>3. session[x[2]] # None
      BY <2>1, SessionFacts
  <2>4. CASE x[2] = Primary /\ x[1] = label[Primary]
      BY <2>2, <2>3, <2>4, NamedAtRest DEF Linked, Conns
  <2>5. CASE x[2] = extra[x[1]]
    <3>1. x[1] \in Remotes /\ extra[x[1]] # None
        BY <2>1, <2>5, SlotAssumption DEF Conns
    <3> QED BY <3>1, <2>3, <2>5 DEF SlotsInv, OwnSlots
  <2> QED BY <2>1, <2>4, <2>5 DEF Works
<1> QED BY <1>1, SlotInitInv, ShapeStep, WholeInvStep, PTL DEF SlotSpec

\* Between operations a linked slot carries the id of the device its session is
\* with (set_peer_info, promote_secondary).
THEOREM SlotNamesItsPeerHolds == SlotSpec => []SlotNamesItsPeer
<1>1. WholeInv => SlotNamesItsPeer
    BY NamedAtRest DEF WholeInv, SlotNamesItsPeer, AtRest, Running
<1> QED BY <1>1, SlotInitInv, ShapeStep, WholeInvStep, PTL DEF SlotSpec

\* A rekey that finds the generation it read replaces the session it saw
\* (install_session_if_generation_for).
THEOREM RekeyReplacesWhatItSawHolds == SlotSpec => []RekeyReplacesWhatItSaw
<1>1. Shape /\ WholeInv => RekeyReplacesWhatItSaw
  <2> SUFFICES ASSUME Shape, SlotsInv, NEW t \in Tasks, At(t, "Rekey", "commit"),
                      gen[task[t].conn] = task[t].gen, task[t].saw[1] = task[t].conn
               PROVE  session[task[t].conn] = task[t].saw[2]
      BY DEF WholeInv, RekeyReplacesWhatItSaw
  <2>1. /\ task[t].conn \in Conns /\ task[t].peer \in Remotes
        /\ Works(task[t]) /\ Known(task[t]) /\ Waiting(task[t])
      BY Carries DEF SlotsInv, At, Waiting
  <2>2. \A c \in Conns : ~Changing(c)
      BY DEF SlotsInv, OneRuns, Running, At, Changing
  <2>3. task[t].conn = Primary \/ \E p \in Remotes : extra[p] = task[t].conn
      BY <2>1 DEF Works, At, Installs
  <2> QED BY <2>1, <2>2, <2>3 DEF Known
<1> QED BY <1>1, SlotInitInv, ShapeStep, WholeInvStep, PTL DEF SlotSpec

-----------------------------------------------------------------------------
\* What a send that has read a generation knows, whatever the scheduling.

\* The task is changing slot c.
Changes(k, c) ==
    /\ k.conn = c
    /\ k.at = "bump" \/ (k.at = "label" /\ k.op # "Rekey" /\ ~k.again)

LEMMA ChangingIs == \A c : Changing(c) <=> \E t \in Tasks : Changes(task[t], c)
    BY DEF Changing, Changes

\* The slot it read has moved on to a later generation, is being changed, is empty, or
\* holds what it saw.
SealKnown(k) ==
    k.at = "seal" =>
        /\ k.gen <= gen[k.conn]
        /\ k.gen = gen[k.conn] /\ ~Changing(k.conn) => session[k.conn] \in {None, k.saw[2]}

SealInv == \A t \in Tasks : SealKnown(task[t])

\* What a step of t does to slot c: its generation moves on, it is left to count, or it
\* is emptied or kept.
StepOn(c) ==
    \/ gen'[c] > gen[c]
    \/ gen'[c] = gen[c] /\ Changing(c)'
    \/ gen'[c] = gen[c] /\ session'[c] \in {session[c], None} /\ ~Changing(c)

\* A task that is not at a step that changes a slot leaves each one as it is or empty.
LEMMA PlainStep ==
    ASSUME NEW t \in Tasks, NEW c \in Conns, OthersStay(t),
           Changes(task[t], c) => Changes(task'[t], c),
           gen'[c] = gen[c], session'[c] \in {session[c], None}
    PROVE  StepOn(c)
<1>1. Changing(c) => Changing(c)'
    BY DEF Changing, Changes, OthersStay
<1> QED BY <1>1 DEF StepOn

\* A task that puts a session in place has yet to count it.
LEMMA ChangingStep ==
    ASSUME NEW t \in Tasks, NEW c \in Conns, gen'[c] = gen[c], Changes(task'[t], c)
    PROVE  StepOn(c)
    BY DEF Changes, Changing, StepOn

\* What a step has to show for the sends under way.
Steady(t) ==
    /\ OthersStay(t) /\ task'[t].at # "seal"
    /\ \A u \in Tasks : u # t /\ task[u].at = "seal" => StepOn(task[u].conn)

LEMMA SteadyKeeps ==
    ASSUME Shape, Shape', SealInv, NEW t \in Tasks, Steady(t)
    PROVE  SealInv'
<1> SUFFICES ASSUME NEW u \in Tasks, task'[u].at = "seal"
             PROVE  /\ task'[u].gen <= gen'[task'[u].conn]
                    /\ task'[u].gen = gen'[task'[u].conn] /\ ~Changing(task[u].conn)' =>
                          session'[task'[u].conn] \in {None, task'[u].saw[2]}
    BY DEF SealInv, SealKnown
<1>1. u # t /\ task'[u] = task[u]
    BY DEF Steady, OthersStay
<1>2. SealKnown(task[u]) /\ StepOn(task[u].conn) /\ task[u].gen \in Nat /\ task[u].conn \in Conns
    BY <1>1, Carries DEF Steady, SealInv, TaskType
<1>3. gen[task[u].conn] \in Nat /\ gen'[task[u].conn] \in Nat
    BY <1>2 DEF Shape, SlotTypeOK, SlotsTyped
<1> QED BY <1>1, <1>2, <1>3 DEF SealKnown, StepOn

LEMMA SealStep == Shape /\ Shape' /\ SealInv /\ [SlotNext]_slotVars => SealInv'
<1> SUFFICES ASSUME Shape, Shape', SealInv, [SlotNext]_slotVars PROVE  SealInv'
    OBVIOUS
<1>1. CASE UNCHANGED slotVars
    BY <1>1 DEF slotVars, SealInv, SealKnown, Changing
<1>2. CASE SlotNext
  <2>0. PICK t \in Tasks : Step(t)
      BY <1>2 DEF SlotNext, Step
  <2> DEFINE k == task[t]
             n == task'[t]
  <2>k. k \in TaskType /\ Coherent(k)
      BY Carries
  <2>y. /\ session \in [Conns -> Sessions \cup {None}] /\ gen \in [Conns -> Nat]
        /\ task \in [Tasks -> TaskType]
      BY DEF Shape, SlotTypeOK, SlotsTyped
  <2>s. \A u \in Tasks : task[u].at = "seal" => task[u].conn \in Conns
      BY Carries
  <2>i. Idle.at = "none"
      BY DEF Idle
  \* The steps of a task that changes no slot.
  <2>q. ASSUME OthersStay(t), k.at \notin {"label", "bump"}, n.at # "seal", gen' = gen,
               \A c \in Conns : session'[c] \in {session[c], None}
        PROVE  SealInv'
    <3>1. \A c \in Conns : StepOn(c)
        BY <2>q, PlainStep DEF Changes
    <3> QED BY <2>q, <2>s, <3>1, SteadyKeeps DEF Steady
  <2>1. CASE \E s \in Sessions : Install(t, s) \/ Rekey(t, s) \/ Recv(t, s)
    <3>1. PICK s \in Sessions : Install(t, s) \/ Rekey(t, s) \/ Recv(t, s)
        BY <2>1
    <3>2. CASE Install(t, s)
      <4>1. OthersStay(t) /\ k.at = "none" /\ n.at = "shake" /\ UNCHANGED slots
          BY <2>y, <2>i, <3>2 DEF Install, Start, OthersStay, TaskType
      <4> QED BY <2>q, <4>1 DEF slots
    <3>3. CASE Rekey(t, s)
      <4>1. OthersStay(t) /\ k.at = "none" /\ n.at = "shake" /\ UNCHANGED slots
          BY <2>y, <2>i, <3>3 DEF Rekey, OthersStay, Idle
      <4> QED BY <2>q, <4>1 DEF slots
    <3>4. CASE Recv(t, s)
      <4>1. OthersStay(t) /\ k.at = "none" /\ n.at = "more" /\ UNCHANGED slots
          BY <2>y, <2>i, <3>4 DEF Recv, OthersStay, TaskType
      <4> QED BY <2>q, <4>1 DEF slots
    <3> QED BY <3>1, <3>2, <3>3, <3>4
  <2>2. CASE \E p \in Remotes : \/ Drop(t, "Drop", p) \/ Drop(t, "Purge", p)
                                \/ Promote(t, p) \/ SendEncrypted(t, p)
    <3>1. PICK p \in Remotes : \/ Drop(t, "Drop", p) \/ Drop(t, "Purge", p)
                              \/ Promote(t, p) \/ SendEncrypted(t, p)
        BY <2>2
    <3>2. CASE Drop(t, "Drop", p) \/ Drop(t, "Purge", p) \/ SendEncrypted(t, p)
      <4>1. OthersStay(t) /\ k.at = "none" /\ n.at = "resolve" /\ UNCHANGED slots
          BY <2>y, <2>i, <3>2 DEF Drop, SendEncrypted, Start, OthersStay, TaskType
      <4> QED BY <2>q, <4>1 DEF slots
    <3>3. CASE Promote(t, p)
      <4>1. OthersStay(t) /\ k.at = "none" /\ n.at = "take" /\ gen' = gen /\ session' = session
          BY <2>y, <2>i, <3>3 DEF Promote, OthersStay, TaskType
      <4> QED BY <2>q, <4>1
    <3> QED BY <3>1, <3>2, <3>3
  <2>3. CASE DropPrimary(t) \/ Shaken(t) \/ AcquireCur(t) \/ AcquireLive(t) \/ Resolve(t)
    <3>1. CASE DropPrimary(t)
      <4>1. OthersStay(t) /\ k.at = "none" /\ n.at = "null" /\ UNCHANGED slots
          BY <2>y, <2>i, <3>1 DEF DropPrimary, OthersStay, TaskType
      <4> QED BY <2>q, <4>1 DEF slots
    <3>2. CASE Shaken(t)
      <4>1. OthersStay(t) /\ k.at = "shake" /\ n.at \in {"cur", "resolve", "none"}
          BY <2>i, <3>2, GotoKeeps, FinishKeeps DEF Shaken, OthersStay
      <4> QED BY <2>q, <3>2, <4>1 DEF Shaken, slots
    <3>3. CASE AcquireCur(t) \/ AcquireLive(t)
      <4>1. /\ OthersStay(t) /\ k.at \in {"cur", "live"}
            /\ n.at \in {"live", "extra", "label", "commit"}
          BY <3>3, GotoKeeps, AcquiredKeeps DEF AcquireCur, AcquireLive, OthersStay
      <4> QED BY <2>q, <3>3, <4>1 DEF AcquireCur, AcquireLive, slots
    <3>4. CASE Resolve(t)
      <4>1. /\ k.at = "resolve" /\ UNCHANGED slots
            /\ \/ \E c, a : /\ task' = [task EXCEPT ![t].conn = c, ![t].at = a]
                          /\ a \in {"commit", "read", "null"}
               \/ Goto(t, "unmap") \/ Finish(t)
          BY <3>4 DEF Resolve
      <4>2. OthersStay(t) /\ n.at \in {"commit", "read", "null", "unmap", "none"}
        <5>1. ASSUME NEW c, NEW a \in {"commit", "read", "null"},
                     task' = [task EXCEPT ![t].conn = c, ![t].at = a]
              PROVE  OthersStay(t) /\ n.at = a
            BY <2>y, <5>1 DEF OthersStay, TaskType
        <5>2. ASSUME Goto(t, "unmap") PROVE  OthersStay(t) /\ n.at = "unmap"
            BY <5>2, GotoKeeps DEF OthersStay
        <5>3. ASSUME Finish(t) PROVE  OthersStay(t) /\ n.at = "none"
            BY <2>i, <5>3, FinishKeeps DEF OthersStay
        <5> QED BY <4>1, <5>1, <5>2, <5>3
      <4> QED BY <2>q, <4>1, <4>2 DEF slots
    <3> QED BY <2>3, <3>1, <3>2, <3>3, <3>4
  <2>4. CASE Unmap(t) \/ Seal(t) \/ AbortSend(t) \/ RecvMore(t) \/ Open(t) \/ TryNext(t)
             \/ Undecryptable(t)
    <3>1. CASE Unmap(t) \/ Seal(t) \/ AbortSend(t) \/ Open(t) \/ Undecryptable(t)
      <4>1. /\ Finish(t) /\ k.at \in {"unmap", "seal", "open"}
            /\ gen' = gen /\ session' = session
          BY <3>1 DEF Unmap, Seal, Seals, AbortSend, Open, Tries, Undecryptable, slots
      <4>2. OthersStay(t) /\ n.at = "none"
          BY <2>i, <4>1, FinishKeeps DEF OthersStay
      <4> QED BY <2>q, <4>1, <4>2
    <3>2. CASE RecvMore(t)
      <4>1. OthersStay(t) /\ k.at = "more" /\ n.at = "open" /\ UNCHANGED slots
          BY <2>y, <3>2 DEF RecvMore, OthersStay, TaskType
      <4> QED BY <2>q, <4>1 DEF slots
    <3>3. CASE TryNext(t)
      <4>1. OthersStay(t) /\ k.at = "open" /\ n.at = "open" /\ UNCHANGED slots
          BY <2>y, <3>3 DEF TryNext, Tries, OthersStay, TaskType
      <4> QED BY <2>q, <4>1 DEF slots
    <3> QED BY <2>4, <3>1, <3>2, <3>3
  <2>5. CASE Null(t) \/ TakeOut(t)
    <3>1. OthersStay(t) /\ k.at \notin {"label", "bump"} /\ n.at # "seal" /\ gen' = gen
      <4>1. CASE Null(t)
          BY <4>1, GotoKeeps DEF Null, OthersStay
      <4>2. CASE TakeOut(t)
        <5>1. /\ k.at = "take" /\ gen' = gen
              /\ \/ Finish(t)
                 \/ \E s : task' = [task EXCEPT ![t].own = s, ![t].conn = Primary, ![t].at = "move"]
            BY <4>2 DEF TakeOut
        <5> QED BY <2>y, <2>i, <5>1, FinishKeeps DEF OthersStay, TaskType
      <4> QED BY <2>5, <4>1, <4>2
    <3>2. session' = [session EXCEPT ![k.conn] = None]
        BY <2>5 DEF Null, TakeOut
    <3>3. \A c \in Conns : session'[c] \in {session[c], None}
        BY <2>y, <3>2
    <3> QED BY <2>q, <3>1, <3>3
  <2>6. CASE AcquireExtra(t)
    <3>1. PICK c \in Extras :
             /\ \/ UNCHANGED slots
                \/ /\ Unused(c) /\ session' = [session EXCEPT ![c] = None]
                   /\ gen' = [gen EXCEPT ![c] = 0]
             /\ Acquired(t, c) /\ k.at = "extra"
        BY <2>6 DEF AcquireExtra
    <3>2. OthersStay(t) /\ n.at # "seal"
        BY <3>1, AcquiredKeeps DEF OthersStay
    <3>3. ASSUME NEW u \in Tasks, u # t, task[u].at = "seal" PROVE  StepOn(task[u].conn)
      <4>1. /\ gen'[task[u].conn] = gen[task[u].conn]
            /\ session'[task[u].conn] \in {session[task[u].conn], None}
          BY <2>y, <2>s, <3>1, <3>3 DEF Unused, slots
      <4> QED BY <2>s, <3>1, <3>2, <3>3, <4>1, PlainStep DEF Changes
    <3> QED BY <3>2, <3>3, SteadyKeeps DEF Steady
  <2>7. CASE CommitInstall(t)
    <3>1. CASE Finish(t) /\ session' = session
      <4>1. OthersStay(t) /\ k.at \notin {"label", "bump"} /\ n.at # "seal" /\ gen' = gen
          BY <2>7, <2>i, <3>1, FinishKeeps DEF CommitInstall, At, OthersStay
      <4> QED BY <2>q, <3>1, <4>1
    <3>2. CASE session' = [session EXCEPT ![k.conn] = k.own] /\ Goto(t, "label")
      <4>1. /\ OthersStay(t) /\ k.at = "commit" /\ k.op = "Install" /\ ~k.again /\ gen' = gen
            /\ n.at = "label" /\ n.op = "Install" /\ ~n.again /\ n.conn = k.conn
          BY <2>7, <2>k, <3>2, GotoKeeps DEF CommitInstall, At, OthersStay, Coherent, TaskType
      <4>2. StepOn(k.conn) \/ k.conn \notin Conns
          BY <4>1, ChangingStep DEF Changes
      <4>3. \A c \in Conns : c # k.conn => StepOn(c)
          BY <2>y, <3>2, <4>1, PlainStep DEF Changes
      <4> QED BY <2>s, <4>1, <4>2, <4>3, SteadyKeeps DEF Steady
    <3> QED BY <2>7, <3>1, <3>2 DEF CommitInstall
  <2>8. CASE CommitRekey(t)
    <3>1. CASE Finish(t) /\ UNCHANGED <<session, gen>>
      <4>1. OthersStay(t) /\ k.at \notin {"label", "bump"} /\ n.at # "seal"
          BY <2>8, <2>i, <3>1, FinishKeeps DEF CommitRekey, At, OthersStay
      <4> QED BY <2>q, <3>1, <4>1
    <3>2. CASE /\ session' = [session EXCEPT ![k.conn] = k.own]
               /\ gen' = [gen EXCEPT ![k.conn] = @ + 1] /\ Goto(t, "label")
      <4>1. OthersStay(t) /\ k.at = "commit" /\ n.at = "label"
          BY <2>8, <3>2, GotoKeeps DEF CommitRekey, At, OthersStay
      <4>2. k.conn \in Conns => StepOn(k.conn)
          BY <2>y, <3>2 DEF StepOn
      <4>3. \A c \in Conns : c # k.conn => StepOn(c)
          BY <2>y, <3>2, <4>1, PlainStep DEF Changes
      <4> QED BY <2>s, <4>1, <4>2, <4>3, SteadyKeeps DEF Steady
    <3> QED BY <2>8, <3>1, <3>2 DEF CommitRekey
  <2>9. CASE Label(t)
    <3>1. /\ OthersStay(t) /\ k.at = "label" /\ n.at \in {"none", "bump", "cur"}
          /\ gen' = gen /\ session' = session
          /\ k.op # "Rekey" /\ ~k.again => n.at = "bump" /\ n.conn = k.conn
        BY <2>9, <2>y, <2>i, GotoKeeps, FinishKeeps DEF Label, OthersStay, TaskType
    <3>2. \A c \in Conns : StepOn(c)
        BY <3>1, PlainStep DEF Changes
    <3> QED BY <2>s, <3>1, <3>2, SteadyKeeps DEF Steady
  <2>10. CASE Bump(t)
    <3>1. /\ OthersStay(t) /\ k.at = "bump" /\ n.at # "seal" /\ session' = session
          /\ gen' = [gen EXCEPT ![k.conn] = @ + 1]
        BY <2>10, <2>y, <2>i, GotoKeeps, FinishKeeps DEF Bump, OthersStay, TaskType
    <3>2. k.conn \in Conns => StepOn(k.conn)
        BY <2>y, <3>1 DEF StepOn
    <3>3. \A c \in Conns : c # k.conn => StepOn(c)
        BY <2>y, <3>1, PlainStep DEF Changes
    <3> QED BY <2>s, <3>1, <3>2, <3>3, SteadyKeeps DEF Steady
  <2>11. CASE Move(t)
    <3>1. /\ OthersStay(t) /\ k.at = "move" /\ k.op = "Promote" /\ k.conn = Primary /\ ~k.again
          /\ n.at = "label" /\ n.op = "Promote" /\ n.conn = Primary /\ ~n.again
          /\ gen' = gen /\ session' = [session EXCEPT ![Primary] = k.own]
        BY <2>11, <2>k, GotoKeeps DEF Move, OthersStay, Coherent, TaskType, Ops, Installs
    <3>2. StepOn(Primary)
        BY <3>1, ChangingStep DEF Changes, Conns
    <3>3. \A c \in Conns : c # Primary => StepOn(c)
        BY <2>y, <3>1, PlainStep DEF Changes
    <3> QED BY <2>s, <3>1, <3>2, <3>3, SteadyKeeps DEF Steady
  <2>12. CASE LabelPromoted(t)
    <3>1. /\ OthersStay(t) /\ k.at = "label" /\ n.at = "bump" /\ n.conn = k.conn
          /\ gen' = gen /\ session' = session
        BY <2>12, GotoKeeps DEF LabelPromoted, At, OthersStay
    <3>2. \A c \in Conns : StepOn(c)
        BY <3>1, PlainStep DEF Changes
    <3> QED BY <2>s, <3>1, <3>2, SteadyKeeps DEF Steady
  <2>13. CASE ReadGen(t)
    <3>1. /\ n = [k EXCEPT !.gen = gen[k.conn], !.saw = <<k.conn, session[k.conn]>>, !.at = "seal"]
          /\ OthersStay(t) /\ k.at = "read" /\ gen' = gen /\ session' = session
        BY <2>13, <2>y DEF ReadGen, OthersStay, slots
    <3>2. n.conn = k.conn /\ n.gen = gen[k.conn] /\ n.saw[2] = session[k.conn] /\ k.conn \in Conns
        BY <2>k, <3>1, Carries DEF TaskType
    <3>3. SealKnown(task[t])'
        BY <2>y, <3>1, <3>2 DEF SealKnown
    <3>4. ASSUME NEW u \in Tasks, u # t PROVE  SealKnown(task[u])'
      <4>1. SealKnown(task[u]) /\ task'[u] = task[u]
          BY <3>1, <3>4 DEF SealInv, OthersStay
      <4>2. Changing(task[u].conn) => Changing(task[u].conn)'
        <5>1. \A w \in Tasks : task[w].at \in {"label", "bump"} => task'[w] = task[w]
            BY <3>1 DEF OthersStay
        <5> QED BY <4>1, <5>1 DEF Changing
      <4> QED BY <3>1, <4>1, <4>2 DEF SealKnown
    <3> QED BY <3>3, <3>4 DEF SealInv
  <2> QED BY <2>0, <2>1, <2>2, <2>3, <2>4, <2>5, <2>6, <2>7, <2>8, <2>9, <2>10, <2>11, <2>12,
             <2>13 DEF Step
<1> QED BY <1>1, <1>2

\* A frame leaves under the session that was in the slot when the send read its
\* generation, whatever was swapped, dropped or promoted since, unless a change of the
\* slot is in place and not counted yet (send_on, promote_secondary).
THEOREM SealsWhatItReadHolds == SlotSpec => []SealsWhatItRead
<1>1. SlotInit => SealInv
    BY DEF SlotInit, SealInv, SealKnown, Idle
<1>2. SealInv => SealsWhatItRead
    BY DEF SealInv, SealKnown, SealsWhatItRead, Seals
<1> QED BY <1>1, <1>2, SlotInitInv, ShapeStep, SealStep, PTL DEF SlotSpec
=============================================================================
