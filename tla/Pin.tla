-------------------------------- MODULE Pin --------------------------------
(***************************************************************************)
(* The device that shows a pairing PIN: PairShow opens the pairing window, *)
(* puts a fresh PIN in the published mDNS record and leaves a watchdog     *)
(* task to rotate or strip it (driver/commands.rs, driver/pairing.rs).     *)
(* Discovery has the device where the PIN is typed.                        *)
(*                                                                         *)
(* A step is what happens between two awaits.  PINs are numbered as they   *)
(* are drawn: that two draws coincide is left out.  Tasks interleave.      *)
(***************************************************************************)
EXTENDS Naturals, FiniteSets

CONSTANTS
    PairingWindow, \* PAIRING_WINDOW
    MaxDraws,      \* bound on the PINs drawn
    MaxClock       \* bound on time

ASSUME PinAssumption ==
    PairingWindow \in Nat \ {0} /\ MaxDraws \in Nat /\ MaxClock \in Nat

VARIABLES
    clock, drawn,  \* the time; the PINs drawn so far
    deadline,      \* pairing_window, 0 when None
    advert,        \* pin_advert: pin 0 when None
    record,        \* the PIN in the published record, 0 without one
    showing,       \* the PairShow under way, and the PIN it drew
    dogs           \* the watchdogs: where each is, and what it carries

pinVars == <<clock, drawn, deadline, advert, record, showing, dogs>>

NoAdvert == [pin |-> 0, until |-> 0]
NoTask == [at |-> "idle", pin |-> 0, until |-> 0]

PinInit ==
    /\ clock = 0 /\ drawn = 0 /\ deadline = 0 /\ advert = NoAdvert /\ record = 0
    /\ showing = NoTask /\ dogs = [d \in 1 .. 2 |-> NoTask]

Open == deadline > clock

\* Time passes while every task sleeps: a unit is long beside a step.
Tick ==
    /\ showing = NoTask
    /\ \A d \in DOMAIN dogs : dogs[d] = NoTask \/ (dogs[d].at = "asleep" /\ clock < dogs[d].until)
    /\ clock < MaxClock /\ clock' = clock + 1
    /\ UNCHANGED <<drawn, deadline, advert, record, showing, dogs>>

\* PairShow: the window opens before anything else.
PairShow ==
    /\ showing = NoTask /\ drawn < MaxDraws
    /\ deadline' = clock + PairingWindow
    /\ drawn' = drawn + 1
    /\ showing' = [at |-> "advertise", pin |-> drawn', until |-> 0]
    /\ UNCHANGED <<clock, advert, record, dogs>>

\* Variant: the watchdog of the earlier PIN is not looked for.
AdvertiseAnew ==
    /\ showing.at = "advertise"
    /\ advert' = [pin |-> showing.pin, until |-> clock + PairingWindow]
    /\ showing' = [showing EXCEPT !.at = "publish", !.until = 1]
    /\ UNCHANGED <<clock, drawn, deadline, record, dogs>>

\* pin_advert.replace: a watchdog is wanted unless there was a PIN (was_active).
Advertise ==
    /\ showing.at = "advertise"
    /\ advert' = [pin |-> showing.pin, until |-> clock + PairingWindow]
    /\ showing' = [showing EXCEPT !.at = "publish", !.until = IF advert.pin = 0 THEN 1 ELSE 0]
    /\ UNCHANGED <<clock, drawn, deadline, record, dogs>>

\* republish_with_pin, with mdns_ctx locked.
PublishPin(pin) == record' = pin

\* The record is published, the watchdog spawned, the PIN answered.
ShowAnswers ==
    /\ showing.at = "publish"
    /\ PublishPin(showing.pin)
    /\ IF showing.until = 0 THEN UNCHANGED dogs
       ELSE \E d \in DOMAIN dogs :
                /\ dogs[d] = NoTask
                /\ dogs' = [dogs EXCEPT ![d].at = "look"]
    /\ showing' = NoTask
    /\ UNCHANGED <<clock, drawn, deadline, advert>>

\* spawn_pin_watchdog: sleep until the end of the PIN that is advertised now.
DogSleeps(d) ==
    /\ dogs[d].at = "look"
    /\ dogs' = [dogs EXCEPT ![d] =
                    IF advert.pin = 0 THEN NoTask
                    ELSE [at |-> "asleep", pin |-> 0, until |-> advert.until]]
    /\ UNCHANGED <<clock, drawn, deadline, advert, record, showing>>

\* ... and look at the window.
DogWakes(d) ==
    /\ dogs[d].at = "asleep" /\ dogs[d].until <= clock
    /\ IF Open
       THEN /\ drawn < MaxDraws /\ drawn' = drawn + 1
            /\ dogs' = [dogs EXCEPT ![d] = [at |-> "rotate", pin |-> drawn', until |-> clock + PairingWindow]]
       ELSE dogs' = [dogs EXCEPT ![d].at = "clear"] /\ UNCHANGED drawn
    /\ UNCHANGED <<clock, deadline, advert, record, showing>>

\* Closed: no PIN is advertised any more ...
DogClears(d) ==
    /\ dogs[d].at = "clear"
    /\ advert' = NoAdvert
    /\ dogs' = [dogs EXCEPT ![d].at = "strip"]
    /\ UNCHANGED <<clock, drawn, deadline, record, showing>>

\* ... the record loses it and the task ends.
DogStrips(d) ==
    /\ dogs[d].at = "strip"
    /\ PublishPin(0)
    /\ dogs' = [dogs EXCEPT ![d] = NoTask]
    /\ UNCHANGED <<clock, drawn, deadline, advert, showing>>

\* Open: another PIN, for another window's length.
DogRotates(d) ==
    /\ dogs[d].at = "rotate"
    /\ advert' = [pin |-> dogs[d].pin, until |-> dogs[d].until]
    /\ dogs' = [dogs EXCEPT ![d].at = "publish"]
    /\ UNCHANGED <<clock, drawn, deadline, record, showing>>

DogPublishes(d) ==
    /\ dogs[d].at = "publish"
    /\ PublishPin(dogs[d].pin)
    /\ dogs' = [dogs EXCEPT ![d].at = "look"]
    /\ UNCHANGED <<clock, drawn, deadline, advert, showing>>

Watch(d) ==
    \/ DogSleeps(d) \/ DogWakes(d) \/ DogClears(d)
    \/ DogStrips(d) \/ DogRotates(d) \/ DogPublishes(d)

PinNext ==
    \/ Tick \/ PairShow \/ Advertise \/ ShowAnswers
    \/ \E d \in DOMAIN dogs : Watch(d)

PinSpec == PinInit /\ [][PinNext]_pinVars

-----------------------------------------------------------------------------
\* A watchdog that still looks after the advertised PIN, or will be spawned to.
Tends(d) == dogs[d].at \notin {"idle", "strip"}
Tenders ==
    Cardinality({d \in DOMAIN dogs : Tends(d)})
        + (IF showing.at = "publish" THEN showing.until ELSE 0)

\* However PairShow, rotation and expiry interleave, a PIN that is advertised has
\* exactly one watchdog to rotate or clear it, and without one there is none
\* (spawn_pin_watchdog, the was_active guard of PairShow).
OneTender == Tenders = IF advert.pin = 0 THEN 0 ELSE 1
=============================================================================
