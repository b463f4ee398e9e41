------------------------------ MODULE MCNetport ------------------------------
(* A box with two addresses, the second of which the program tries anyway. *)
EXTENDS Netport

MCRequests == {Search} \cup {ChangeTo(a) : a \in Addresses}
==============================================================================
