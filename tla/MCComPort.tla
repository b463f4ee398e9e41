------------------------------ MODULE MCComPort ------------------------------
(* Two ports with entries of their own in the table, of which the second one *)
(* reports under the first one's number; only the first has remctl.          *)
EXTENDS ComPort, TLC

MCConfigured ==
    [p \in Ports |-> [w \in Settings |->
        CASE w = "baud" -> 19200 [] w = "datasize" -> 8 [] OTHER -> 1]]

Ask(w, values) == [what : {w}, value : values]

\* Values that are taken, one of them without a code of its own (57600), and
\* one that only asks.
MCRequests ==
    (3000 :> Ask("baud", {57600}) \cup Ask("stopsize", {2})
             \cup Ask("outflow", {3}) \cup Ask("break", {5})
             \cup Ask("will", {None}) \cup Ask("wont", {None})
             \cup [what : {"mask"}, on : {{}}]) @@
    (4002 :> Ask("stopsize", {3}) \cup Ask("inflow", {15}) \cup Ask("rts", {12})
             \cup Ask("will", {None}))
==============================================================================
