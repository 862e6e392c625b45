------------------------------- MODULE Redial -------------------------------
(***************************************************************************)
(* The pace of redials against the other device's limiter: one device      *)
(* dials with exponential backoff and jitter (backoff.rs, the loops of     *)
(* driver/pairing.rs, the ends of sessions in driver/liveness.rs and       *)
(* driver/inbound.rs), the other admits handshakes from a token bucket per *)
(* source (rate_limit.rs).                                                 *)
(*                                                                         *)
(* Time is in quarters of a second and passes within the steps: what is    *)
(* kept is what is left to wait and what is in the bucket, in parts of a   *)
(* token, one per quarter second.                                          *)
(***************************************************************************)
EXTENDS Integers

CONSTANTS
    InitialBase,     \* INITIAL_BASE
    MaxShift,        \* MAX_SHIFT: InitialBase * 2^MaxShift is CAP
    FloorMargin,     \* FLOOR_MARGIN
    MinStable,       \* MIN_STABLE
    BucketCapacity,  \* BUCKET_CAPACITY
    RefillInterval,  \* REFILL_INTERVAL, and so the parts of a token
    AnswerTimeout,   \* how long an initiator waits for its answer
    SilenceTimeout   \* three missed pings: the shortest life of a silent session

ASSUME RedialAssumption ==
    /\ {InitialBase, MaxShift, FloorMargin, MinStable, BucketCapacity,
        RefillInterval, AnswerTimeout, SilenceTimeout} \subseteq Nat \ {0}
    /\ MaxShift < BucketCapacity   \* the burst absorbs the ramp up to CAP

VARIABLES
    attempt, due,    \* PeerBackoff: the counter, the time left to next_ready_at
    tokens,          \* the other device's bucket for this one
    dialling,        \* no, or an initiator waits: admitted or refused
    session,         \* a session is up
    refused,         \* history: the limiter refused a dial of this outage
    hurried          \* history: a dial of this outage did not wait for the backoff, or
                     \* the outage began with the bucket not full

redialVars == <<attempt, due, tokens, dialling, session, refused, hurried>>

Least(x, y) == IF x < y THEN x ELSE y
Most(x, y) == IF x > y THEN x ELSE y
Full == BucketCapacity * RefillInterval
Cap == InitialBase * 2 ^ MaxShift

RedialInit ==
    /\ attempt = 0 /\ due = 0 /\ tokens = Full
    /\ dialling = "no" /\ session = FALSE /\ refused = FALSE /\ hurried = FALSE

\* Bucket::refill.
Refilled(elapsed) == Least(Full, tokens + elapsed)

\* base_delay_for_attempt.
Base == InitialBase * 2 ^ Least(attempt, MaxShift)

\* Variant: full jitter from half the base, at the cap too.
JitterHalf(base) == base \div 2

\* jitter_floor: at the cap, slower than the bucket fills.
JitterFloor(base) == IF base >= Cap THEN RefillInterval + FloorMargin ELSE base \div 2

\* HandshakeRateLimiter::check, after a time: a whole token or nothing.
Check(elapsed) ==
    /\ dialling' = IF Refilled(elapsed) >= RefillInterval THEN "admitted" ELSE "refused"
    /\ tokens' = Refilled(elapsed) - (IF Refilled(elapsed) >= RefillInterval THEN RefillInterval ELSE 0)
    /\ refused' = (refused \/ Refilled(elapsed) < RefillInterval)

\* discovery_dispatcher, the blind redial: due as soon as ready says so.
RedialWhenReady ==
    /\ ~session /\ dialling = "no"
    /\ Check(due)
    /\ due' = 0
    /\ UNCHANGED <<attempt, session, hurried>>

\* discovery_dispatcher, Resolved: the peer announced itself, ready is not asked.
RedialAtOnce ==
    /\ ~session /\ dialling = "no" /\ due > 0
    /\ Check(0)
    /\ hurried' = TRUE
    /\ UNCHANGED <<attempt, due, session>>

\* The datagram never reached the other device's limiter.
DialLost ==
    /\ ~session /\ dialling = "no"
    /\ dialling' = "refused" /\ tokens' = Refilled(due) /\ due' = 0
    /\ UNCHANGED <<attempt, session, refused, hurried>>

\* start_initiator, every hint failed: at once when the answer was no good, after
\* the timeout otherwise; on_attempt_failed draws the next delay.
AttemptFails ==
    /\ dialling # "no"
    /\ \E took \in IF dialling = "admitted" THEN {0, AnswerTimeout} ELSE {AnswerTimeout} :
          tokens' = Refilled(took)
    /\ due' \in JitterFloor(Base) .. Base
    /\ attempt' = Least(attempt + 1, MaxShift + 1)
    /\ dialling' = "no"
    /\ UNCHANGED <<session, refused, hurried>>

\* A completed handshake leaves the backoff as it is.
AttemptAnswered ==
    /\ dialling = "admitted"
    /\ session' = TRUE /\ dialling' = "no"
    /\ UNCHANGED <<attempt, due, tokens, refused, hurried>>

\* The session ends after a time, by silence or by a Bye: on_session_ended forgets
\* the attempts when it was stable.
SessionEnds ==
    /\ session /\ session' = FALSE
    /\ \E uptime \in {0, SilenceTimeout, MinStable} :
          /\ tokens' = Refilled(uptime)
          /\ hurried' = (Refilled(uptime) < Full)
          /\ IF uptime >= MinStable THEN attempt' = 0 /\ due' = 0
             ELSE due' = Most(0, due - uptime) /\ UNCHANGED attempt
    /\ refused' = FALSE
    /\ UNCHANGED dialling

\* HandshakeRateLimiter: an idle bucket is swept, the oldest makes room; the next
\* check finds a new one.
BucketForgotten ==
    /\ tokens < Full /\ tokens' = Full
    /\ UNCHANGED <<attempt, due, dialling, session, refused, hurried>>

RedialNext ==
    \/ RedialWhenReady \/ RedialAtOnce \/ DialLost \/ AttemptFails
    \/ AttemptAnswered \/ SessionEnds \/ BucketForgotten

RedialSpec == RedialInit /\ [][RedialNext]_redialVars

-----------------------------------------------------------------------------
\* However long an outage lasts and however its dials fail, the other device's
\* limiter, full when the outage began, never refuses a redial that waited its turn
\* (STEADY_STATE_FLOOR).
RedialsAreAdmitted == refused => hurried
=============================================================================
