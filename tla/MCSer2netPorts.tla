-------------------------- MODULE MCSer2netPorts --------------------------
(* Two ports of one device and a third line that moves the first to another. *)
EXTENDS Ser2netPorts

CONSTANTS p1, p2, d1, d2

Line(n, e, d, c) == [name |-> n, enabled |-> e, dev |-> d, close |-> c]

TwoPorts == {Line(p1, "raw", d1, TRUE), Line(p1, "off", d2, FALSE),
             Line(p2, "raw", d1, FALSE)}
OwnSlot  == [p \in Names |-> IF p = p1 THEN 1 ELSE 2]

=============================================================================
