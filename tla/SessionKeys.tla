---------------------------- MODULE SessionKeys ----------------------------
(***************************************************************************)
(* What a daemon promises of the keys of a handshake.  They are made once; *)
(* the handshake installs them in one slot or gives them up; they change   *)
(* slots only by leaving the old one first; and keys that were given up,   *)
(* replaced or dropped are never used again.                               *)
(***************************************************************************)
CONSTANTS Keys, Slots, Front, None

VARIABLES
    made,     \* the keys of all handshakes
    fresh,    \* those with a handshake that is not over
    slot,     \* those in use
    moving    \* those on the way to the slot Front

KInit == made = {} /\ fresh = {} /\ moving = {} /\ slot = [c \in Slots |-> None]

Make(k) ==
    /\ k \notin made
    /\ made' = made \cup {k} /\ fresh' = fresh \cup {k}
    /\ UNCHANGED <<slot, moving>>

GiveUp(k) ==
    /\ k \in fresh
    /\ fresh' = fresh \ {k}
    /\ UNCHANGED <<made, slot, moving>>

\* Keys that were in the slot are gone.
Fill(k, c) ==
    /\ k \in fresh
    /\ fresh' = fresh \ {k} /\ slot' = [slot EXCEPT ![c] = k]
    /\ UNCHANGED <<made, moving>>

Empty(c) ==
    /\ slot' = [slot EXCEPT ![c] = None]
    /\ UNCHANGED <<made, fresh, moving>>

Lift(c) ==
    /\ slot[c] # None
    /\ moving' = moving \cup {slot[c]} /\ slot' = [slot EXCEPT ![c] = None]
    /\ UNCHANGED <<made, fresh>>

Land(k) ==
    /\ k \in moving
    /\ moving' = moving \ {k} /\ slot' = [slot EXCEPT ![Front] = k]
    /\ UNCHANGED <<made, fresh>>

KNext ==
    \/ \E c \in Slots : Empty(c) \/ Lift(c)
    \/ \E k \in Keys : Make(k) \/ GiveUp(k) \/ Land(k) \/ \E c \in Slots : Fill(k, c)

KSpec == KInit /\ [][KNext]_<<made, fresh, slot, moving>>

\* What follows: keys that are nowhere any more do not come back.
Spent(k) ==
    /\ k \in made /\ k \notin fresh \cup moving
    /\ \A c \in Slots : slot[c] # k

SpentForGood == [][\A k \in Keys : Spent(k) => Spent(k)']_<<made, fresh, slot, moving>>
=============================================================================
