-------------------------------- MODULE MCMrs --------------------------------
(* A request of each kind, and one of each that is not whole. *)
EXTENDS Mrs

MCRequests ==
    [header : {"getip"}, whole : {TRUE}, to : {"A"}, id : {"1"}]
    \cup [header : {"getip"}, whole : {FALSE}, to : {"A"}, id : {"2"}]
    \cup [header : {"changeip"}, whole : {TRUE}, ip : {2}]
    \cup [header : {"changeip"}, whole : {FALSE}, ip : {3}]
==============================================================================
