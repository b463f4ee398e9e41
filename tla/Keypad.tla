------------------------------- MODULE Keypad -------------------------------
(***************************************************************************)
(* The keypad (src/uinput/gpioinput.c): lines of a GPIO port, low while    *)
(* their key is held, become key events of an input device.  A timer       *)
(* samples the lines; a key's events are made out of its last three        *)
(* samples, which are to hide that a line bounces.                         *)
(*                                                                         *)
(* A line bounces at any time and as often as it likes between two         *)
(* samples.  What fscanf leaves in an int it could not read is a sample as *)
(* good as any.  Left out: the creation of the device, and the EV_SYN that *)
(* keyevent writes before the event.                                       *)
(***************************************************************************)
EXTENDS Naturals

CONSTANT Keys       \* key6, by index

VARIABLES
    line,                   \* each key's line
    gpio0, gpio1, gpio2,    \* the last three samples of all lines
    down,       \* the keys the kernel takes to be down, by the last event
    released,   \* history: the keys whose line was high in some sample
    twice       \* history: the last level of each line in two samples running

keypad_vars == <<line, gpio0, gpio1, gpio2, down, released, twice>>

Low == 0
High == 1
Levels == {Low, High}
Held == 2       \* twice, of a key that is held since the program started

\* main: all three samples are the first one.
KeypadInit ==
    /\ line \in [Keys -> Levels]
    /\ gpio0 = line /\ gpio1 = line /\ gpio2 = line
    /\ down = {}
    /\ released = {k \in Keys : line[k] = High}
    /\ twice = [k \in Keys |-> IF line[k] = High THEN High ELSE Held]

Bounces(k) ==
    /\ line' = [line EXCEPT ![k] = High - @]
    /\ UNCHANGED <<gpio0, gpio1, gpio2, down, released, twice>>

-----------------------------------------------------------------------------
(* key1, with the samples that foo has moved on.                           *)

MutOnce(i0, i1, i2) == i0 = High /\ i1 = Low
MutEdge(i0, i1, i2) == i0 = High /\ i1 = High /\ i2 = Low
Press(i0, i1, i2)   == i0 = High /\ i1 = Low /\ i2 = Low
Release(i0, i1, i2) == i0 = Low /\ i1 = High /\ i2 = High

\* The kernel passes an event on only if it changes the key's state.
key1(k) ==
    IF Press(gpio0'[k], gpio1'[k], gpio2'[k]) THEN TRUE
    ELSE IF Release(gpio0'[k], gpio1'[k], gpio2'[k]) THEN FALSE
    ELSE k \in down

\* The handler of SIGALRM, which is blocked while it runs.
foo ==
    /\ gpio0' = gpio1 /\ gpio1' = gpio2 /\ gpio2' = line
    /\ down' = {k \in Keys : key1(k)}
    /\ released' = released \cup {k \in Keys : line[k] = High}
    /\ twice' = [k \in Keys |-> IF gpio1'[k] = gpio2'[k] /\ k \in released'
                                THEN gpio2'[k] ELSE twice[k]]
    /\ UNCHANGED line

KeypadNext == foo \/ \E k \in Keys : Bounces(k)

KeypadSpec == KeypadInit /\ [][KeypadNext]_keypad_vars

\* The interval timer goes on.
KeypadFairSpec == KeypadSpec /\ WF_keypad_vars(foo)

-----------------------------------------------------------------------------
(* Properties.                                                             *)

\* Every variable has its type (used by the proofs).
KeypadTypeOK ==
    /\ line \in [Keys -> Levels] /\ twice \in [Keys -> Levels \cup {Held}]
    /\ gpio0 \in [Keys -> Levels] /\ gpio1 \in [Keys -> Levels]
    /\ gpio2 \in [Keys -> Levels]
    /\ down \subseteq Keys /\ released \subseteq Keys

\* However a line bounces, the kernel takes a key to be down exactly if the last
\* level its line had in two samples running is low: no single sample counts,
\* and no press or release is missed that lasts two, although key1 compares
\* levels with the sample before them and not with what it has reported.  A key
\* that is held from the start on is not down before it was released once.
KeyFollowsLine ==
    \A k \in Keys : k \in down <=> twice[k] = Low

\* A key whose line comes to rest is at last taken for what its line says.
RestSeen ==
    \A k \in Keys : \A v \in Levels :
        <>[](line[k] = v /\ k \in released) => <>[](k \in down <=> v = Low)
=============================================================================
