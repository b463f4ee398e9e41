------------------------------ MODULE MCMrs2s ------------------------------
(***************************************************************************)
(* Three clients, of which the third one is watched from the beginning.    *)
(* Either the first two have come and gone and nothing has changed yet, so *)
(* that the parent's threads of two generations meet, and the child's,     *)
(* while ser2net broadcasts; or they are being served, have heard all that *)
(* ser2net had to say, and the first has just left: the fewest clients     *)
(* with which the parent's main function waits in the handler for one when *)
(* another has left and a further one has been accepted.                   *)
(***************************************************************************)
EXTENDS Mrs2s

Watched == MaxClients
Others == Clients \ {Watched}
Receiver(i) == [NewThread EXCEPT !.at = "recv", !.sock = i, !.bound = TRUE]
Past == [i \in Others |-> Remains([NewThread EXCEPT !.bound = TRUE])]

\* What the two beginnings have in common, after n broadcasts, of which the parent
\* has heard none between two sockets.
Idle(n) ==
    /\ truth = n
    /\ seen = [c \in Clients |-> IF c \in Others THEN n ELSE 0]
    /\ since = [c \in Clients |-> 0]
    /\ stat = [p \in Procs |-> IF p \in Others THEN Of(n) ELSE Of(0)]
    /\ sigchld = FALSE /\ reaping = {} /\ zombies = {}

OthersGone ==
    /\ Idle(0)
    /\ conn = [c \in Clients |-> IF c \in Others THEN "left" ELSE "none"]
    /\ pc = [p \in Procs |-> IF p = Parent THEN "accept"
                             ELSE IF p \in Others THEN "exited" ELSE "none"]
    /\ new_fd = [p \in Procs |-> None]
    /\ gUDPfd = [p \in Procs |-> IF p = Parent THEN Watched
                                 ELSE IF p \in Others THEN 1 ELSE 0]
    /\ threads = [p \in Procs |-> IF p = Parent THEN Append(Past, Receiver(Watched))
                                  ELSE <<>>]

OthersServed ==
    /\ Idle(MaxChanges)
    /\ conn = [c \in Clients |-> IF c = 1 THEN "left"
                                ELSE IF c \in Others THEN "open" ELSE "none"]
    /\ pc = [p \in Procs |-> IF p = Parent THEN "accept"
                             ELSE IF p \in Others THEN "serve" ELSE "none"]
    /\ new_fd = [p \in Procs |-> IF p \in Others THEN p ELSE None]
    /\ gUDPfd = [p \in Procs |-> IF p = Parent THEN Watched
                                 ELSE IF p \in Others THEN 1 ELSE 0]
    /\ threads = [p \in Procs |-> IF p = Parent THEN Append(Past, Receiver(Watched))
                                  ELSE IF p \in Others THEN <<Receiver(1)>> ELSE <<>>]

MCSpec == (OthersGone \/ OthersServed) /\ [][Next]_vars /\ Fairness

=============================================================================
