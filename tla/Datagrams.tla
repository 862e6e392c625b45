----------------------------- MODULE Datagrams -----------------------------
(***************************************************************************)
(* What keeps repeated, late and reordered datagrams from doing harm: the  *)
(* replay window of a session (fluxsync-crypto session.rs), which opens    *)
(* every frame at most once, and the memory of the handshakes already      *)
(* answered (AnsweredInits in transport.rs, run_responder).                *)
(*                                                                         *)
(* One device initiates and sends, the other answers and receives.  The    *)
(* network may deliver whatever was ever sent, any number of times, in any *)
(* order or never.  A session is the number of the message it answers, in  *)
(* the order they are taken.                                               *)
(***************************************************************************)
EXTENDS Integers, Sequences, FiniteSets

CONSTANTS
    Window,      \* REPLAY_WINDOW, the bits of the bitmap
    InitsCap,    \* AnsweredInits::CAP
    MaxNonce,    \* bound on the frames of a session
    MaxInits,    \* bound on the handshakes begun
    MaxAnswers   \* bound on the answers given

ASSUME DatagramsAssumption ==
    /\ Window \in Nat \ {0} /\ InitsCap \in Nat \ {0}
    /\ MaxNonce \in Nat /\ MaxInits \in Nat /\ MaxAnswers \in Nat

VARIABLES
    inits,     \* first messages sent, and so on the network for good
    order,     \* AnsweredInits: those remembered, oldest first
    answers,   \* history: the first messages taken, in order
    theirs,    \* the receiver's session, the number of the message it was made for
    replies,   \* answers sent, and so on the network for good
    mine,      \* the sender's session, 0 without one
    nonce,     \* its sending nonce
    frames,    \* frames sent, and so on the network for good
    highest, bitmap, started, \* the ReplayWindow of the receiver's session
    opened     \* history: the nonces opened under that session

windowVars == <<highest, bitmap, started, opened>>
datagramVars == <<inits, order, answers, theirs, replies, mine, nonce, frames, windowVars>>

DatagramsInit ==
    /\ inits = 0 /\ order = <<>> /\ answers = <<>> /\ theirs = 0 /\ replies = {}
    /\ mine = 0 /\ nonce = 0 /\ frames = {}
    /\ highest = 0 /\ bitmap = {} /\ started = FALSE /\ opened = {}

\* run_initiator, run_rekey_initiator: a fresh ephemeral.
Initiate ==
    /\ inits < MaxInits
    /\ inits' = inits + 1
    /\ UNCHANGED <<order, answers, theirs, replies, mine, nonce, frames, windowVars>>

-----------------------------------------------------------------------------
\* AnsweredInits.

\* Variant: the oldest goes when the memory is full, not when it overflows.
RememberShort(e) ==
    IF Len(order) + 1 >= InitsCap /\ InitsCap > 1 THEN Tail(Append(order, e)) ELSE Append(order, e)

\* first_answer: remembered last, the oldest forgotten beyond the cap.
Remember(e) ==
    IF Len(order) >= InitsCap THEN Tail(Append(order, e)) ELSE Append(order, e)

\* run_responder takes a first message that is not remembered, ...
TakeInit(e) ==
    /\ e \in 1 .. inits /\ Len(answers) < MaxAnswers
    /\ \A i \in 1 .. Len(order) : order[i] # e
    /\ order' = Remember(e)
    /\ answers' = Append(answers, e)

\* ... and puts its session, with a new window, in the place of the one before, ...
AnswerInit(e) ==
    /\ TakeInit(e)
    /\ theirs' = Len(answers) + 1
    /\ replies' = replies \cup {theirs'}
    /\ highest' = 0 /\ bitmap' = {} /\ started' = FALSE /\ opened' = {}
    /\ UNCHANGED <<inits, mine, nonce, frames>>

\* ... unless the install loses a race or the device is refused after all.
AnswerFails(e) ==
    /\ TakeInit(e)
    /\ UNCHANGED <<inits, theirs, replies, mine, nonce, frames, windowVars>>

\* The initiator waits for the answer to its latest message only.
Complete(k) ==
    /\ k \in replies /\ answers[k] = inits /\ mine # k
    /\ mine' = k /\ nonce' = 0
    /\ UNCHANGED <<inits, order, answers, theirs, replies, frames, windowVars>>

-----------------------------------------------------------------------------
\* Session.

Encrypt ==
    /\ mine # 0 /\ nonce <= MaxNonce
    /\ frames' = frames \cup {[key |-> mine, nonce |-> nonce]}
    /\ nonce' = nonce + 1
    /\ UNCHANGED <<inits, order, answers, theirs, replies, mine, windowVars>>

\* ReplayWindow::is_fresh.  bitmap has the bits that are set: bit i says that
\* highest - i was accepted.
IsFresh(n) ==
    \/ ~started \/ n > highest
    \/ highest - n < Window /\ highest - n \notin bitmap

\* Variant: the bits move by one, however far the nonce is ahead.
ShiftedByOne(n) == {i \in 0 .. (Window - 1) : i = 0 \/ i - 1 \in bitmap}

\* The bits moved as far as n is ahead; those that leave the word are gone.
Shifted(n) == {i \in 0 .. (Window - 1) : i = 0 \/ i - (n - highest) \in bitmap}

\* ReplayWindow::accept.
AcceptNonce(n) ==
    /\ started' = TRUE
    /\ IF ~started THEN highest' = n /\ bitmap' = {0}
       ELSE IF n > highest THEN highest' = n /\ bitmap' = Shifted(n)
       ELSE /\ bitmap' = IF highest - n < Window THEN bitmap \cup {highest - n} ELSE bitmap
            /\ UNCHANGED highest

\* decrypt: a frame of this session that passes the window is opened and marked.
Decrypt(f) ==
    /\ f \in frames /\ f.key = theirs
    /\ IsFresh(f.nonce)
    /\ AcceptNonce(f.nonce)
    /\ opened' = opened \cup {f.nonce}
    /\ UNCHANGED <<inits, order, answers, theirs, replies, mine, nonce, frames>>

DatagramsNext ==
    \/ Initiate \/ Encrypt
    \/ \E e \in 1 .. inits : AnswerInit(e) \/ AnswerFails(e)
    \/ \E k \in replies : Complete(k)
    \/ \E f \in frames : Decrypt(f)

DatagramsSpec == DatagramsInit /\ [][DatagramsNext]_datagramVars

-----------------------------------------------------------------------------
DatagramsTypeOK ==
    /\ inits \in Nat /\ order \in Seq(Nat) /\ answers \in Seq(Nat)
    /\ theirs \in Nat /\ replies \subseteq Nat /\ mine \in Nat /\ nonce \in Nat
    /\ frames \subseteq [key : Nat, nonce : Nat]
    /\ highest \in Nat /\ bitmap \subseteq 0 .. (Window - 1) /\ started \in BOOLEAN
    /\ opened \subseteq Nat

\* The window is exact: a frame passes if and only if it was not opened before and
\* is not Window or more behind the newest.  However frames are repeated, lost and
\* reordered, none is opened twice, and none that is in time is refused.
WindowIsExact ==
    \A n \in 0 .. MaxNonce :
        IsFresh(n) <=> n \notin opened /\ (started => n > highest - Window)

\* A first message is answered once, so a copy that arrives late does not put a
\* session in place that the other side has no keys for; only one that InitsCap
\* others have followed is forgotten (AnsweredInits::first_answer).
AnsweredOnce ==
    \A i, j \in DOMAIN answers :
        i < j /\ answers[i] = answers[j] =>
            Cardinality({answers[k] : k \in (i + 1) .. (j - 1)}) >= InitsCap
=============================================================================
