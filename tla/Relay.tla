------------------------------- MODULE Relay -------------------------------
(***************************************************************************)
(* What a serial device server promises the two ends it joins: while a     *)
(* session is open, everything taken from one end is given to the other,   *)
(* in order and once, and the server never takes more from an end while    *)
(* it still holds something of it.  A session ends at any moment, with     *)
(* what it holds dropped; it may then linger before the next one opens.    *)
(*                                                                         *)
(* Abstract specification of the sessions of ser2net; see Ser2netPort.     *)
(***************************************************************************)
EXTENDS Naturals

CONSTANTS
    Dirs,       \* the directions data flows in
    Cap         \* the most taken from an end at once, a natural number

VARIABLES
    phase,      \* "idle", "open" or "closing"
    taken,      \* per direction, units taken from the source
    given       \* per direction, units given to the sink

relayVars == <<phase, taken, given>>

RelayInit ==
    /\ phase = "idle"
    /\ taken = [d \in Dirs |-> 0]
    /\ given = [d \in Dirs |-> 0]

Open ==
    /\ phase = "idle" /\ phase' = "open"
    /\ UNCHANGED <<taken, given>>

\* Take up to Cap units of direction d if none is held, and give the sink any
\* number of those then held.
Move(d) ==
    /\ phase = "open"
    /\ \E n \in 0 .. Cap :
        /\ n > 0 => taken[d] = given[d]
        /\ taken' = [taken EXCEPT ![d] = @ + n]
        /\ \E m \in 0 .. taken'[d] - given[d] :
            given' = [given EXCEPT ![d] = @ + m]
    /\ UNCHANGED phase

Linger ==
    /\ phase = "open" /\ phase' = "closing"
    /\ UNCHANGED <<taken, given>>

Close ==
    /\ phase # "idle" /\ phase' = "idle"
    /\ taken' = [d \in Dirs |-> 0]
    /\ given' = [d \in Dirs |-> 0]

RelayNext == Open \/ Linger \/ Close \/ \E d \in Dirs : Move(d)

RelaySpec == RelayInit /\ [][RelayNext]_relayVars

=============================================================================
