-------------------------- MODULE NumberingProofs --------------------------
(***************************************************************************)
(* What the numbers are worth: the sequence numbers of items, for every    *)
(* reservation size and any number of sends, crashes and restarts; the     *)
(* nonces of datagrams, for every width of the replay window; and the      *)
(* first messages of handshakes, for every size of the memory.             *)
(*                                                                         *)
(* SeqStore has three inductive invariants, one per kind of disk.          *)
(* RewindInv holds as long as no file write fails, even when the main file *)
(* is lost over and over: the backup alone stays within one reservation of *)
(* everything sent.  FreshInv holds while the disk behaves: everything     *)
(* sent is below what the next start would read.  DurableInv holds as long *)
(* as the main file is not lost, whichever writes fail.                    *)
(***************************************************************************)
EXTENDS SeqStore, Datagrams, FiniteSetTheorems, TLAPS

TypeInv ==
    /\ TypeOK
    /\ pc = "send" => seq > 0
    /\ pc \in {"writeBak", "writeMain"} /\ next = "send" => seq > 0

LEMMA TypeInvInit == Init => TypeInv
<1> SUFFICES ASSUME Init PROVE TypeInv
  OBVIOUS
<1>1. up \in BOOLEAN
  BY DEF Init
<1>2. sent \subseteq [boot : Nat, seq : Nat]
  BY DEF Init
<1> QED
  BY <1>1, <1>2 DEF Init, TypeInv, TypeOK, Horizons, Unreadable

LEMMA TypeInvStep == TypeInv /\ [Next]_vars => TypeInv'
<1> SUFFICES ASSUME TypeInv, [Next]_vars PROVE TypeInv'
  OBVIOUS
<1> USE ReserveAssumption DEF TypeInv, TypeOK, Horizons, Unreadable, Faults
<1>1. CASE Boot
  BY <1>1 DEF Boot, ReadHorizon
<1>2. CASE WriteBak
  BY <1>2 DEF WriteBak
<1>3. CASE WriteMain
  BY <1>3 DEF WriteMain
<1>4. CASE PersistFails
  BY <1>4 DEF PersistFails
<1>5. CASE Allocate
  BY <1>5 DEF Allocate
<1>6. CASE Send
  BY <1>6 DEF Send
<1>7. CASE Crash
  BY <1>7 DEF Crash
<1>8. CASE LoseMain
  BY <1>8 DEF LoseMain
<1>9. CASE UNCHANGED vars
  BY <1>9 DEF vars
<1> QED
  BY <1>1, <1>2, <1>3, <1>4, <1>5, <1>6, <1>7, <1>8, <1>9 DEF Next

\* Every value stays in its type: counters and horizons are naturals, the event
\* loop is at one of its four points.
THEOREM TypeCorrect == Spec => []TypeOK
<1>1. TypeInv => TypeOK
  BY DEF TypeInv
<1> QED
  BY <1>1, TypeInvInit, TypeInvStep, PTL DEF Spec

-----------------------------------------------------------------------------

\* What the next start would read if the main file were lost.
BackupHorizon == IF bak # Unreadable THEN bak ELSE 0

\* Without failed writes the main file, when it is there, is the horizon in
\* memory, and the counter meets that horizon exactly when a persist starts.
RewindFacts ==
    /\ \A s \in sent : s.seq < BackupHorizon + RESERVE
    /\ main # Unreadable => /\ main <= BackupHorizon + RESERVE
                           /\ \A s \in sent : s.seq < main + RESERVE
    /\ up => /\ \A s \in sent : s.seq < seq + RESERVE
             /\ main \in {Unreadable, horizon}
             /\ horizon <= BackupHorizon + RESERVE
             /\ pc \in {"idle", "send"} => seq < horizon
             /\ pc \in {"writeBak", "writeMain"} =>
                    seq = horizon /\ target = seq + RESERVE
             /\ pc = "writeMain" => bak = horizon

RewindInv == TypeInv /\ ("write" \notin faults => RewindFacts)

LEMMA RewindInit == Init => RewindInv
  BY TypeInvInit DEF Init, RewindInv, RewindFacts

LEMMA FaultsGrow == [Next]_vars => faults \subseteq faults'
  BY DEF Next, Boot, WriteBak, WriteMain, PersistFails, Allocate, Send, Crash,
         LoseMain, vars

LEMMA RewindStep == RewindInv /\ [Next]_vars => RewindInv'
<1>0. SUFFICES ASSUME TypeInv, TypeInv', RewindFacts, [Next]_vars,
                     "write" \notin faults, "write" \notin faults'
              PROVE  RewindFacts'
  BY TypeInvStep, FaultsGrow DEF RewindInv
<1> USE <1>0, ReserveAssumption
    DEF RewindFacts, BackupHorizon, TypeInv, TypeOK, Horizons, Unreadable
<1>1. CASE Boot
  BY <1>1 DEF Boot, ReadHorizon
<1>2. CASE WriteBak
  <2>1. up /\ pc = "writeBak" /\ bak' = horizon /\ pc' = "writeMain"
    BY <1>2 DEF WriteBak
  <2>2. BackupHorizon' = seq
    BY <2>1
  <2>3. \A s \in sent : s.seq < seq + RESERVE
    BY <2>1
  <2> QED
    BY <1>2, <2>1, <2>2, <2>3 DEF WriteBak
<1>3. CASE WriteMain
  BY <1>3 DEF WriteMain
<1>4. CASE PersistFails
  BY <1>4 DEF PersistFails
<1>5. CASE Allocate
  BY <1>5 DEF Allocate
<1>6. CASE Send
  BY <1>6 DEF Send
<1>7. CASE Crash
  BY <1>7 DEF Crash
<1>8. CASE LoseMain
  BY <1>8 DEF LoseMain
<1>9. CASE UNCHANGED vars
  BY <1>9 DEF vars
<1> QED
  BY <1>1, <1>2, <1>3, <1>4, <1>5, <1>6, <1>7, <1>8, <1>9 DEF Next

\* A restart after losing event_seq.json, any number of times and at any
\* moment, resumes less than one reservation behind everything ever sent.
THEOREM RewindBounded == Spec => []BoundedRewind
<1>1. RewindInv => BoundedRewind
  BY DEF RewindInv, RewindFacts, BoundedRewind
<1> QED
  BY <1>1, RewindInit, RewindStep, PTL DEF Spec

-----------------------------------------------------------------------------

\* A seq is taken from the counter but not yet on the wire.
Taken == pc = "send" \/ (pc \in {"writeBak", "writeMain"} /\ next = "send")

\* The least seq that may still go on the wire.
LeastFree == IF Taken THEN seq - 1 ELSE seq

\* With the main file safe as well, everything sent is below both the next seq
\* to send and the horizon a restart would read.
Fresh ==
    /\ \A a, b \in sent : a.seq = b.seq => a = b
    /\ \A s \in sent : s.seq < ReadHorizon
    /\ up => /\ \A s \in sent : s.seq < LeastFree
             /\ pc \in {"idle", "send"} => main = horizon

FreshInv == RewindInv /\ (faults = {} => Fresh)

LEMMA FreshInit == Init => FreshInv
  BY RewindInit DEF Init, FreshInv, Fresh, ReadHorizon

LEMMA FreshStep == FreshInv /\ [Next]_vars => FreshInv'
<1>0. SUFFICES ASSUME TypeInv, TypeInv', RewindFacts, RewindFacts', Fresh,
                     [Next]_vars, faults = {}, faults' = {}
              PROVE  Fresh'
  BY RewindStep, FaultsGrow DEF FreshInv, RewindInv
<1> USE <1>0, ReserveAssumption
    DEF Fresh, ReadHorizon, LeastFree, Taken, RewindFacts, TypeInv, TypeOK,
        Horizons, Unreadable
<1>1. CASE Boot
  BY <1>1 DEF Boot
<1>2. CASE WriteBak
  BY <1>2 DEF WriteBak
<1>3. CASE WriteMain
  BY <1>3 DEF WriteMain
<1>4. CASE PersistFails
  BY <1>4 DEF PersistFails
<1>5. CASE Allocate
  BY <1>5 DEF Allocate
<1>6. CASE Send
  <2>1. \A s \in sent : s.seq < seq - 1
    BY <1>6 DEF Send
  <2>2. sent' = sent \cup {[boot |-> boot, seq |-> seq - 1]}
    BY <1>6 DEF Send
  <2>3. (\A a, b \in sent : a.seq = b.seq => a = b)'
    BY <2>1, <2>2
  <2> QED
    BY <1>6, <2>1, <2>2, <2>3 DEF Send
<1>7. CASE Crash
  BY <1>7 DEF Crash
<1>8. CASE LoseMain
  BY <1>8 DEF LoseMain
<1>9. CASE UNCHANGED vars
  BY <1>9 DEF vars
<1> QED
  BY <1>1, <1>2, <1>3, <1>4, <1>5, <1>6, <1>7, <1>8, <1>9 DEF Next

\* While the disk behaves, no event id is ever used by two runs of the daemon,
\* however often it crashes and wherever the crash falls.
THEOREM NoEventIdReused == Spec => []NoReuse
<1>1. FreshInv => NoReuse
  BY DEF FreshInv, Fresh, NoReuse
<1> QED
  BY <1>1, FreshInit, FreshStep, PTL DEF Spec

-----------------------------------------------------------------------------

\* A persist that fails moves neither the main file nor the horizon in memory,
\* and the backup alone never speaks for a main file that is there.
Durable ==
    /\ main = Unreadable => bak \in {Unreadable, 0}
    /\ up => horizon = IF main # Unreadable THEN main ELSE 0

DurableInv == TypeInv /\ ("main" \notin faults => Durable)

LEMMA DurableInit == Init => DurableInv
  BY TypeInvInit DEF Init, DurableInv, Durable

LEMMA DurableStep == DurableInv /\ [Next]_vars => DurableInv'
<1>0. SUFFICES ASSUME TypeInv, TypeInv', Durable, [Next]_vars,
                     "main" \notin faults, "main" \notin faults'
              PROVE  Durable'
  BY TypeInvStep, FaultsGrow DEF DurableInv
<1> USE <1>0, ReserveAssumption DEF Durable, TypeInv, TypeOK, Horizons, Unreadable
<1>1. CASE Boot
  BY <1>1 DEF Boot, ReadHorizon
<1>2. CASE WriteBak
  BY <1>2 DEF WriteBak
<1>3. CASE WriteMain
  BY <1>3 DEF WriteMain
<1>4. CASE PersistFails \/ Allocate \/ Send \/ Crash
  BY <1>4 DEF PersistFails, Allocate, Send, Crash
<1>5. CASE LoseMain
  BY <1>5 DEF LoseMain
<1>6. CASE UNCHANGED vars
  BY <1>6 DEF vars
<1> QED
  BY <1>1, <1>2, <1>3, <1>4, <1>5, <1>6 DEF Next

\* Whichever writes fail, and wherever a crash falls, the horizon in memory is
\* never ahead of the one a restart reads.
THEOREM HorizonStaysDurable == Spec => []HorizonIsDurable
<1>1. DurableInv => HorizonIsDurable
  BY DEF DurableInv, Durable, HorizonIsDurable, ReadHorizon, TypeInv, TypeOK,
         Horizons, Unreadable
<1> QED
  BY <1>1, DurableInit, DurableStep, PTL DEF Spec

-----------------------------------------------------------------------------
\* Datagrams and first messages (transport.rs ReplayWindow, handshake.rs).

\* The bits say which of the last Window nonces were opened, and highest is the
\* newest of them; a window that has not started is blank.
WindowRecords ==
    /\ \A i \in 0 .. (Window - 1) : i \in bitmap <=> highest - i \in opened
    /\ started => highest \in opened /\ \A n \in opened : n <= highest
    /\ ~started => opened = {}

WindowInv == DatagramsTypeOK /\ WindowRecords

\* The blank window of a new session records nothing (ReplayWindow::new).
LEMMA NewWindow == DatagramsInit => WindowInv
<1> SUFFICES ASSUME DatagramsInit PROVE WindowInv
    OBVIOUS
<1>1. DatagramsTypeOK
    <2>1. order \in Seq(Nat) /\ answers \in Seq(Nat)
        BY DEF DatagramsInit
    <2>2. replies \subseteq Nat /\ frames \subseteq [key : Nat, nonce : Nat] /\ opened \subseteq Nat
        BY Zenon DEF DatagramsInit
    <2>3. inits \in Nat /\ theirs \in Nat /\ mine \in Nat /\ nonce \in Nat /\ highest \in Nat
        BY DEF DatagramsInit
    <2>4. bitmap \subseteq 0 .. (Window - 1)
        BY Zenon DEF DatagramsInit
    <2>5. started \in BOOLEAN
        BY DEF DatagramsInit
    <2> QED BY <2>1, <2>2, <2>3, <2>4, <2>5 DEF DatagramsTypeOK
<1>2. WindowRecords
    BY DEF DatagramsInit, WindowRecords
<1> QED BY <1>1, <1>2 DEF WindowInv

\* Whatever accept does to the bitmap, it goes on recording what was opened: for the
\* first nonce, one ahead of the newest, however far, and one behind it.
LEMMA AcceptRecords ==
    ASSUME WindowInv, NEW f, Decrypt(f)
    PROVE  WindowInv'
<1>1. f.nonce \in Nat /\ highest \in Nat /\ Window \in Nat /\ Window > 0
    BY DatagramsAssumption DEF WindowInv, DatagramsTypeOK, Decrypt
<1>2. opened' = opened \cup {f.nonce} /\ started' = TRUE /\ IsFresh(f.nonce)
    BY DEF Decrypt, AcceptNonce
<1>3. /\ inits' \in Nat /\ order' \in Seq(Nat) /\ answers' \in Seq(Nat)
      /\ theirs' \in Nat /\ replies' \subseteq Nat /\ mine' \in Nat /\ nonce' \in Nat
      /\ frames' \subseteq [key : Nat, nonce : Nat]
      /\ started' \in BOOLEAN /\ opened' \subseteq Nat
    BY <1>1, <1>2 DEF WindowInv, DatagramsTypeOK, Decrypt
<1>4. CASE ~started
    <2>1. highest' = f.nonce /\ bitmap' = {0} /\ opened' = {f.nonce}
        BY <1>2, <1>4 DEF Decrypt, AcceptNonce, WindowInv, WindowRecords
    <2>2. highest' \in Nat /\ bitmap' \subseteq 0 .. (Window - 1)
        BY <1>1, <2>1
    <2>3. \A i \in 0 .. (Window - 1) : i \in bitmap' <=> highest' - i \in opened'
        BY <1>1, <2>1
    <2>4. highest' \in opened' /\ \A n \in opened' : n <= highest'
        BY <1>1, <2>1
    <2> QED BY <1>2, <1>3, <2>2, <2>3, <2>4 DEF WindowInv, WindowRecords, DatagramsTypeOK
<1>5. CASE started /\ f.nonce > highest
    <2>1. highest' = f.nonce /\ bitmap' = Shifted(f.nonce)
        BY <1>5 DEF Decrypt, AcceptNonce
    <2>2. highest' \in Nat /\ bitmap' \subseteq 0 .. (Window - 1)
        BY <1>1, <2>1 DEF Shifted
    <2>3. ASSUME NEW i \in 0 .. (Window - 1)
          PROVE  i \in bitmap' <=> highest' - i \in opened'
        <3>1. CASE i = 0
            BY <1>1, <1>2, <2>1, <3>1 DEF Shifted
        <3>2. CASE i # 0 /\ i < f.nonce - highest
            <4>1. i \notin bitmap'
                BY <1>1, <2>1, <3>2 DEF Shifted, WindowInv, DatagramsTypeOK
            <4>2. highest' - i > highest /\ highest' - i # f.nonce
                BY <1>1, <2>1, <3>2
            <4>3. highest' - i \notin opened
                <5>1. \A n \in opened : n \in Nat /\ n <= highest
                    BY <1>5 DEF WindowInv, WindowRecords, DatagramsTypeOK
                <5> QED BY <1>1, <4>2, <5>1
            <4> QED BY <1>2, <4>1, <4>2, <4>3
        <3>3. CASE i >= f.nonce - highest
            <4> DEFINE j == i - (f.nonce - highest)
            <4>1. j \in 0 .. (Window - 1) /\ highest - j = highest' - i /\ highest' - i # f.nonce
                BY <1>1, <1>5, <2>1, <3>3
            <4>2. i \in bitmap' <=> j \in bitmap
                BY <1>1, <1>5, <2>1, <3>3 DEF Shifted
            <4> QED BY <1>2, <4>1, <4>2 DEF WindowInv, WindowRecords
        <3> QED BY <1>1, <3>1, <3>2, <3>3
    <2>4. \A n \in opened' : n <= highest'
        BY <1>1, <1>2, <1>5, <2>1 DEF WindowInv, WindowRecords, DatagramsTypeOK
    <2> QED BY <1>2, <1>3, <2>1, <2>2, <2>3, <2>4 DEF WindowInv, WindowRecords, DatagramsTypeOK
<1>6. CASE started /\ ~(f.nonce > highest)
    <2>1. /\ highest' = highest /\ highest - f.nonce \in 0 .. (Window - 1)
          /\ bitmap' = bitmap \cup {highest - f.nonce}
        BY <1>1, <1>2, <1>6 DEF Decrypt, AcceptNonce, IsFresh
    <2>2. ASSUME NEW i \in 0 .. (Window - 1)
          PROVE  i \in bitmap' <=> highest' - i \in opened'
        <3>1. i = highest - f.nonce <=> highest - i = f.nonce
            BY <1>1
        <3> QED BY <1>2, <2>1, <3>1 DEF WindowInv, WindowRecords
    <2>3. highest' \in opened' /\ \A n \in opened' : n <= highest'
        BY <1>1, <1>2, <1>6, <2>1 DEF WindowInv, WindowRecords, DatagramsTypeOK
    <2>4. highest' \in Nat /\ bitmap' \subseteq 0 .. (Window - 1)
        BY <1>1, <2>1 DEF WindowInv, DatagramsTypeOK
    <2> QED BY <1>2, <1>3, <2>2, <2>3, <2>4 DEF WindowInv, WindowRecords, DatagramsTypeOK
<1> QED BY <1>4, <1>5, <1>6

\* A frame that is sent, a handshake and its answer leave the records right; a new
\* session starts with a blank window.
LEMMA StepRecords == WindowInv /\ [DatagramsNext]_datagramVars => WindowInv'
<1> SUFFICES ASSUME WindowInv, [DatagramsNext]_datagramVars PROVE WindowInv'
    OBVIOUS
<1> USE DEF WindowInv, WindowRecords
<1>1. CASE Initiate
    BY <1>1 DEF Initiate, windowVars, DatagramsTypeOK
<1>2. CASE Encrypt
    BY <1>2 DEF Encrypt, windowVars, DatagramsTypeOK
<1>3. ASSUME NEW e \in 1 .. inits, TakeInit(e)
      PROVE  order' \in Seq(Nat) /\ answers' \in Seq(Nat)
    BY <1>3 DEF TakeInit, Remember, DatagramsTypeOK
<1>4. ASSUME NEW e \in 1 .. inits, AnswerInit(e) PROVE WindowInv'
    <2>1. DatagramsTypeOK'
        <3>1. TakeInit(e) /\ order' \in Seq(Nat) /\ answers' \in Seq(Nat)
            BY <1>3, <1>4 DEF AnswerInit
        <3>2. theirs' \in Nat /\ replies' \subseteq Nat
            <4>1. theirs' = Len(answers) + 1 /\ replies' = replies \cup {theirs'}
                BY <1>4 DEF AnswerInit
            <4>2. answers \in Seq(Nat) /\ replies \subseteq Nat
                BY Zenon DEF DatagramsTypeOK
            <4>3. Len(answers) + 1 \in Nat
                BY <4>2
            <4> QED BY <4>1, <4>2, <4>3, Zenon
        <3>3. highest' \in Nat /\ started' \in BOOLEAN
            BY <1>4 DEF AnswerInit
        <3>4. bitmap' \subseteq 0 .. (Window - 1) /\ opened' \subseteq Nat
            BY <1>4, Zenon DEF AnswerInit
        <3>5. UNCHANGED <<inits, mine, nonce, frames>>
            BY <1>4 DEF AnswerInit
        <3> QED BY <3>1, <3>2, <3>3, <3>4, <3>5 DEF DatagramsTypeOK
    <2> QED BY <1>4, <2>1 DEF AnswerInit
<1>5. ASSUME NEW e \in 1 .. inits, AnswerFails(e) PROVE WindowInv'
    <2>1. TakeInit(e) /\ order' \in Seq(Nat) /\ answers' \in Seq(Nat)
        BY <1>3, <1>5 DEF AnswerFails
    <2> QED BY <1>5, <2>1 DEF AnswerFails, windowVars, DatagramsTypeOK
<1>6. ASSUME NEW k \in replies, Complete(k) PROVE WindowInv'
    BY <1>6 DEF Complete, windowVars, DatagramsTypeOK
<1>7. ASSUME NEW f \in frames, Decrypt(f) PROVE WindowInv'
    BY <1>7, AcceptRecords
<1>8. CASE UNCHANGED datagramVars
    BY <1>8 DEF datagramVars, windowVars, DatagramsTypeOK
<1> QED BY <1>1, <1>2, <1>4, <1>5, <1>6, <1>7, <1>8 DEF DatagramsNext

\* A window that records what was opened passes exactly what is new and in time.
LEMMA RecordsAreExact == WindowInv => WindowIsExact
<1> SUFFICES ASSUME WindowInv, NEW n \in 0 .. MaxNonce
             PROVE  IsFresh(n) <=> n \notin opened /\ (started => n > highest - Window)
    BY DEF WindowIsExact
<1>1. n \in Nat /\ highest \in Nat /\ Window \in Nat
    BY DatagramsAssumption DEF WindowInv, DatagramsTypeOK
<1>2. CASE ~started
    BY <1>2 DEF IsFresh, WindowInv, WindowRecords
<1>3. CASE started /\ n > highest
    BY <1>1, <1>3, DatagramsAssumption DEF IsFresh, WindowInv, WindowRecords, DatagramsTypeOK
<1>4. CASE started /\ n <= highest /\ highest - n < Window
    <2>1. highest - n \in 0 .. (Window - 1) /\ highest - (highest - n) = n
        BY <1>1, <1>4
    <2>2. highest - n \in bitmap <=> n \in opened
        BY <2>1 DEF WindowInv, WindowRecords
    <2> QED BY <1>1, <1>4, <2>2 DEF IsFresh
<1>5. CASE started /\ n <= highest /\ ~(highest - n < Window)
    BY <1>1, <1>5 DEF IsFresh
<1> QED BY <1>1, <1>2, <1>3, <1>4, <1>5

\* In every behaviour of the sessions and the network the receiver opens a frame at
\* most once and refuses none that is in time, whatever the width of the window and
\* however many frames there are (Session::decrypt, ReplayWindow).
THEOREM WindowExact == DatagramsSpec => []WindowIsExact
BY NewWindow, StepRecords, RecordsAreExact, PTL DEF DatagramsSpec

-----------------------------------------------------------------------------
\* AnsweredInits holds the last InitsCap messages that were taken, and any InitsCap
\* in a row that were taken differ.
LastRemembered ==
    /\ Len(order) = IF Len(answers) <= InitsCap THEN Len(answers) ELSE InitsCap
    /\ \A i \in 1 .. Len(order) : order[i] = answers[Len(answers) - Len(order) + i]
RecentDiffer ==
    \A i, j \in 1 .. Len(answers) : i < j /\ j - i <= InitsCap => answers[i] # answers[j]

InitsInv == LastRemembered /\ RecentDiffer

\* Taking a message that is not remembered keeps the memory in step with what was
\* taken, as long as it overflows and when it does (AnsweredInits::first_answer).
LEMMA TakeRemembers ==
    ASSUME DatagramsTypeOK, InitsInv, NEW e \in 1 .. inits, TakeInit(e)
    PROVE  InitsInv'
<1> DEFINE n == Len(answers)
           k == Len(order)
<1>1. /\ n \in Nat /\ k \in Nat /\ InitsCap \in Nat \ {0} /\ e \in Nat
      /\ order \in Seq(Nat) /\ answers \in Seq(Nat)
    BY DatagramsAssumption DEF DatagramsTypeOK
<1>2. /\ Len(answers') = n + 1
      /\ \A i \in 1 .. n : answers'[i] = answers[i]
      /\ answers'[n + 1] = e
    BY <1>1 DEF TakeInit
<1>3. /\ Len(Append(order, e)) = k + 1
      /\ \A i \in 1 .. k : Append(order, e)[i] = order[i]
      /\ Append(order, e)[k + 1] = e
    BY <1>1
<1>4. /\ k = IF n <= InitsCap THEN n ELSE InitsCap
      /\ \A i \in 1 .. k : order[i] = answers[n - k + i]
      /\ \A i, j \in 1 .. n : i < j /\ j - i <= InitsCap => answers[i] # answers[j]
      /\ \A i \in 1 .. k : order[i] # e
    BY DEF InitsInv, LastRemembered, RecentDiffer, TakeInit
<1> DEFINE longer == Append(order, e)
<1>a. /\ longer \in Seq(Nat) /\ Len(longer) = k + 1
      /\ \A i \in 1 .. k : longer[i] = order[i]
      /\ longer[k + 1] = e
    BY <1>1, <1>3
<1>b. order' = IF k >= InitsCap THEN Tail(longer) ELSE longer
    BY DEF TakeInit, Remember
<1> HIDE DEF n, k, longer
<1>c. Len(Tail(longer)) = k /\ \A i \in 1 .. k : Tail(longer)[i] = longer[i + 1]
  <2>1. longer # <<>>
      BY <1>1, <1>a
  <2>2. Len(Tail(longer)) = Len(longer) - 1 /\ \A i \in 1 .. (Len(longer) - 1) : Tail(longer)[i] = longer[i + 1]
      BY <1>a, <2>1
  <2> QED BY <1>1, <1>a, <2>2
<1>5. /\ k < InitsCap => Len(order') = k + 1 /\ order' = longer
      /\ k >= InitsCap => Len(order') = k /\ \A i \in 1 .. k : order'[i] = longer[i + 1]
    BY <1>1, <1>a, <1>b, <1>c
<1>6. \A i \in 1 .. k : longer[i] = answers[n - k + i] /\ longer[k + 1] = e /\ n - k + i \in 1 .. n
    BY <1>1, <1>a, <1>4
<1>7. LastRemembered'
  <2>1. CASE k < InitsCap
    <3>1. n = k /\ Len(order') = n + 1 /\ n + 1 <= InitsCap
        BY <1>1, <1>4, <1>5, <2>1
    <3>2. ASSUME NEW i \in 1 .. (n + 1) PROVE  order'[i] = answers'[i]
      <4>1. order'[i] = longer[i]
          BY <1>5, <2>1, Zenon
      <4>2. CASE i = n + 1
          BY <1>2, <1>a, <3>1, <4>1, <4>2
      <4>3. CASE i \in 1 .. n
          BY <1>1, <1>2, <1>6, <3>1, <4>1, <4>3
      <4> QED BY <1>1, <4>2, <4>3
    <3> QED BY <1>1, <1>2, <3>1, <3>2 DEF LastRemembered
  <2>2. CASE k >= InitsCap
    <3>1. Len(order') = k /\ k = InitsCap /\ n >= k
        BY <1>1, <1>4, <1>5, <2>2
    <3>2. ASSUME NEW i \in 1 .. k PROVE  order'[i] = answers'[n + 1 - k + i]
      <4>1. order'[i] = longer[i + 1] /\ n + 1 - k + i = n - k + (i + 1)
          BY <1>1, <1>5, <2>2, <3>1
      <4>2. CASE i = k
          BY <1>1, <1>2, <1>a, <3>1, <4>1, <4>2
      <4>3. CASE i + 1 \in 1 .. k
          BY <1>1, <1>2, <1>6, <3>1, <4>1, <4>3
      <4> QED BY <1>1, <4>2, <4>3
    <3> QED BY <1>1, <1>2, <3>1, <3>2 DEF LastRemembered
  <2> QED BY <1>1, <2>1, <2>2
<1>8. RecentDiffer'
  <2> SUFFICES ASSUME NEW i \in 1 .. (n + 1), NEW j \in 1 .. (n + 1), i < j, j - i <= InitsCap
               PROVE  answers'[i] # answers'[j]
      BY <1>2 DEF RecentDiffer
  <2>1. CASE j \in 1 .. n
    <3>1. i \in 1 .. n
        BY <1>1, <2>1
    <3> QED BY <1>2, <1>4, <2>1, <3>1
  <2>2. CASE j = n + 1
    <3> DEFINE m == i - (n - k)
    <3>1. i \in 1 .. n /\ m \in 1 .. k /\ n - k + m = i
        BY <1>1, <1>4, <2>2
    <3>2. order[m] = answers[i] /\ order[m] # e
        BY <1>4, <3>1
    <3> QED BY <1>2, <2>2, <3>1, <3>2
  <2> QED BY <1>1, <2>1, <2>2
<1> QED BY <1>7, <1>8 DEF InitsInv

\* Only taking a first message touches the memory and the record.
LEMMA InitsStep == DatagramsTypeOK /\ InitsInv /\ [DatagramsNext]_datagramVars => InitsInv'
<1> SUFFICES ASSUME DatagramsTypeOK, InitsInv, [DatagramsNext]_datagramVars PROVE  InitsInv'
    OBVIOUS
<1>1. ASSUME NEW e \in 1 .. inits, AnswerInit(e) \/ AnswerFails(e) PROVE  InitsInv'
    BY <1>1, TakeRemembers DEF AnswerInit, AnswerFails
<1>2. ASSUME UNCHANGED <<order, answers>> PROVE  InitsInv'
    BY <1>2 DEF InitsInv, LastRemembered, RecentDiffer
<1> QED BY <1>1, <1>2 DEF DatagramsNext, Initiate, Encrypt, Complete, Decrypt, datagramVars

\* A stretch of a function that does not repeat has as many values as places.
LEMMA StretchCounted ==
    ASSUME NEW s \in Seq(Nat), NEW from \in Nat, NEW to \in Nat, NEW first \in Nat,
           1 <= from, from <= first, first <= to, to <= Len(s),
           \A i, j \in first .. to : i # j => s[i] # s[j]
    PROVE  Cardinality({s[i] : i \in from .. to}) >= to - first + 1
<1> DEFINE all == {s[i] : i \in from .. to}
           f == [i \in from .. to |-> s[i]]
           g == [i \in first .. to |-> s[i]]
<1>1. IsFiniteSet(from .. to) /\ IsFiniteSet(first .. to) /\ Cardinality(first .. to) = to - first + 1
    BY FS_Interval
<1>2. f \in Surjection(from .. to, all)
    BY DEF Surjection
<1>3. IsFiniteSet(all)
    BY <1>1, <1>2, FS_Surjection
<1>4. g \in Injection(first .. to, all)
    BY DEF Injection, IsInjective
<1>5. Cardinality(first .. to) <= Cardinality(all)
    BY <1>3, <1>4, FS_Injection
<1>6. Cardinality(all) \in Nat
    BY <1>3, FS_CardinalityType
<1> QED BY <1>1, <1>5, <1>6

\* The c places before the later of two that are more than c apart.
LEMMA LastStretch ==
    ASSUME NEW n \in Nat, NEW c \in Nat \ {0}, NEW i \in 1 .. n, NEW j \in 1 .. n, j - i > c
    PROVE  /\ i + 1 \in Nat /\ j - 1 \in Nat /\ j - c \in Nat /\ j - 1 < n
           /\ 1 <= i + 1 /\ i + 1 <= j - c /\ j - c <= j - 1
           /\ (j - 1) - (j - c) + 1 = c
           /\ \A x, y \in (j - c) .. (j - 1) :
                  /\ x \in 1 .. n /\ y \in 1 .. n /\ y - x <= c /\ x - y <= c
                  /\ x # y => x < y \/ y < x
    OBVIOUS

\* A first message is answered again only when InitsCap others were taken since,
\* whatever copies the network delivers and whichever answers fail
\* (AnsweredInits::first_answer, run_responder).
THEOREM AnsweredOnceHolds == DatagramsSpec => []AnsweredOnce
<1>1. DatagramsInit => InitsInv
    BY DatagramsAssumption DEF DatagramsInit, InitsInv, LastRemembered, RecentDiffer
<1>2. DatagramsTypeOK /\ InitsInv => AnsweredOnce
  <2> SUFFICES ASSUME DatagramsTypeOK, InitsInv,
                      NEW i \in DOMAIN answers, NEW j \in DOMAIN answers,
                      i < j, answers[i] = answers[j]
               PROVE  Cardinality({answers[k] : k \in (i + 1) .. (j - 1)}) >= InitsCap
      BY DEF AnsweredOnce
  <2> DEFINE n == Len(answers)
  <2>1. /\ answers \in Seq(Nat) /\ n \in Nat /\ InitsCap \in Nat \ {0}
        /\ i \in 1 .. n /\ j \in 1 .. n
      BY DatagramsAssumption DEF DatagramsTypeOK
  <2>2. \A x, y \in 1 .. n : x < y /\ y - x <= InitsCap => answers[x] # answers[y]
      BY DEF InitsInv, RecentDiffer
  <2> HIDE DEF n
  <2>3. j - i > InitsCap
      BY <2>1, <2>2
  <2>4. \A x, y \in (j - InitsCap) .. (j - 1) : x # y => answers[x] # answers[y]
    <3> SUFFICES ASSUME NEW x \in (j - InitsCap) .. (j - 1), NEW y \in (j - InitsCap) .. (j - 1), x # y
                 PROVE  answers[x] # answers[y]
        OBVIOUS
    <3>1. x \in 1 .. n /\ y \in 1 .. n /\ (x < y \/ y < x) /\ y - x <= InitsCap /\ x - y <= InitsCap
        BY <2>1, <2>3, LastStretch
    <3> QED BY <2>2, <3>1
  <2>5. /\ i + 1 \in Nat /\ j - 1 \in Nat /\ j - InitsCap \in Nat /\ j - 1 <= Len(answers)
        /\ 1 <= i + 1 /\ i + 1 <= j - InitsCap /\ j - InitsCap <= j - 1
        /\ (j - 1) - (j - InitsCap) + 1 = InitsCap
    <3>1. /\ i + 1 \in Nat /\ j - 1 \in Nat /\ j - InitsCap \in Nat /\ j - 1 < n
          /\ 1 <= i + 1 /\ i + 1 <= j - InitsCap /\ j - InitsCap <= j - 1
          /\ (j - 1) - (j - InitsCap) + 1 = InitsCap
        BY <2>1, <2>3, LastStretch
    <3>2. n = Len(answers)
        BY DEF n
    <3>3. j - 1 <= n
        BY <2>1, <3>1
    <3> QED BY <3>1, <3>2, <3>3, Zenon
  <2>6. Cardinality({answers[k] : k \in (i + 1) .. (j - 1)}) >= (j - 1) - (j - InitsCap) + 1
      BY <2>1, <2>4, <2>5, StretchCounted
  <2> QED BY <2>5, <2>6
<1>3. WindowInv => DatagramsTypeOK
    BY DEF WindowInv
<1> QED BY <1>1, <1>2, <1>3, NewWindow, StepRecords, InitsStep, PTL DEF DatagramsSpec

=============================================================================
