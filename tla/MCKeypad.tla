------------------------------ MODULE MCKeypad ------------------------------
(* Two keys, whose lines bounce against each other.                          *)
EXTENDS Keypad

=============================================================================
