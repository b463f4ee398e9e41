--------------------------------- MODULE Mrs ---------------------------------
(***************************************************************************)
(* mrs, the program by which a box is found on the network and given       *)
(* another address (src/broadcast/linux/mrs_v2.c).  thread_send announces  *)
(* the box to 226.1.1.2:4322 every seven seconds; thread_rcv answers getip *)
(* to the address it names, and obeys changeip: it stops ser2net, writes   *)
(* the boot script batip0 and restarts the machine.  Both send through     *)
(* msend, on one socket that the first of them makes, under one lock.      *)
(*                                                                         *)
(* A datagram may be lost or overtaken.  A getip has its five fields and a *)
(* changeip its three, or it is not whole.  Left out: thread_rcv_un, which *)
(* prints what it reads, MAC and host names, and the client's own address, *)
(* which comes back to it in the reply.                                    *)
(***************************************************************************)
EXTENDS Naturals

CONSTANTS
    Addresses, First, Requests, None, Stack, \* as in Box; a request is sent once
    MaxFailures                         \* bound: calls of the kernel that fail

VARIABLES
    pc,          \* where each thread is
    lock,        \* the thread that holds the lock, or None
    sdmsOpen,
    sdms,        \* the sending socket: "none", "made" or "ready"
    sdmrOpen,
    para,        \* para_msip and para_sport have their values
    para_rbuf,   \* the request being carried out
    msbuf,       \* of each thread: the message it is about to send
    inbox,       \* datagrams on their way to the box
    net,         \* datagrams on their way to clients
    ip,          \* the machine's address
    batip0,      \* the one the boot script sets
    ser2net,     \* whether ser2net runs
    asked,       \* history: requests sent
    failures     \* counter for the bound

vars == <<pc, lock, sdmsOpen, sdms, sdmrOpen, para, para_rbuf, msbuf, inbox,
          net, ip, batip0, ser2net, asked, failures>>

Threads == {"send", "rcv"}

ASSUME MrsAssumption ==
    /\ MaxFailures \in Nat
    /\ None \notin Threads
    /\ \A r \in Requests : r.header \in {"getip", "changeip"}

TheBox == INSTANCE Box

\* Where announcements go depends on thread_rcv having said so.
Announced(set, a) ==
    TheBox!Message(IF set THEN TheBox!Group ELSE TheBox!Unset, None, a)
Reply(r, a) == TheBox!Message(r.to, r.id, a)

\* The machine starts: main creates thread_rcv first, but thread_send may be
\* the first to run.
Booted(address) ==
    /\ pc' = [t \in Threads |-> IF t = "send" THEN "build" ELSE "start"]
    /\ lock' = None /\ sdmsOpen' = FALSE /\ sdms' = "none"
    /\ sdmrOpen' = FALSE /\ para' = FALSE /\ para_rbuf' = None
    /\ msbuf' = [t \in Threads |-> None]
    /\ inbox' = {} /\ ip' = address /\ ser2net' = TRUE

Init ==
    /\ pc = [t \in Threads |-> IF t = "send" THEN "build" ELSE "start"]
    /\ lock = None /\ sdmsOpen = FALSE /\ sdms = "none"
    /\ sdmrOpen = FALSE /\ para = FALSE /\ para_rbuf = None
    /\ msbuf = [t \in Threads |-> None]
    /\ inbox = {} /\ net = {}
    /\ ip = First /\ batip0 = First /\ ser2net = TRUE
    /\ asked = {} /\ failures = 0

Goes(t, from, to) == pc[t] = from /\ pc' = [pc EXCEPT ![t] = to]
Fails == failures < MaxFailures /\ failures' = failures + 1

-----------------------------------------------------------------------------
(* ms_ser2net, which both threads call.                                    *)

SendUnchanged == UNCHANGED <<sdmrOpen, para, para_rbuf, inbox, ip, batip0,
                             ser2net, asked>>

\* Where the thread goes when ms_ser2net has returned.
After(t) == IF t = "send" THEN "sleep" ELSE "read"

\* The message is put together in a buffer of the caller's own stack.  If getIP
\* fails, or finds no address of the interface, the message is sent with what
\* ifip had in it.
MutMessage(t, m) == [u \in Threads |-> m]
Message(t, m) == [msbuf EXCEPT ![t] = m]
About(t, ifip) ==
    IF t = "rcv" THEN Reply(para_rbuf, ifip) ELSE Announced(para, ifip)
Build(t) ==
    /\ Goes(t, "build", "lock")
    /\ \/ msbuf' = Message(t, About(t, ip)) /\ UNCHANGED failures
       \/ msbuf' = Message(t, About(t, Stack)) /\ Fails
    /\ UNCHANGED <<lock, sdmsOpen, sdms, net>>
    /\ SendUnchanged

MutFree == TRUE
Free == lock = None
Lock(t) ==
    /\ Goes(t, "lock", "msend")
    /\ Free
    /\ lock' = t
    /\ UNCHANGED <<sdmsOpen, sdms, msbuf, net, failures>>
    /\ SendUnchanged

\* msend; msinit marks the socket as open before it has made it.
MsendStarts(t) ==
    /\ Goes(t, "msend", IF sdmsOpen THEN "sendto" ELSE "socket")
    /\ sdmsOpen' = TRUE
    /\ UNCHANGED <<lock, sdms, msbuf, net, failures>>
    /\ SendUnchanged

\* The first call of msinit; if it fails, the thread loops for ever.
MakeSocket(t) ==
    /\ \/ Goes(t, "socket", "interface") /\ sdms' = "made" /\ UNCHANGED failures
       \/ Goes(t, "socket", "spin") /\ Fails /\ UNCHANGED sdms
    /\ UNCHANGED <<lock, sdmsOpen, msbuf, net>>
    /\ SendUnchanged

\* The second one; if it fails, as it may also because ifip is no address of
\* the machine, msend loops for ever.
SetInterface(t) ==
    /\ \/ /\ Goes(t, "interface", "sendto")
          /\ sdms' = "ready" /\ UNCHANGED <<sdmsOpen, failures>>
       \/ /\ Goes(t, "interface", "spin")
          /\ sdms' = "none" /\ sdmsOpen' = FALSE
          /\ \/ Fails
             \/ msbuf[t].ip = Stack /\ UNCHANGED failures
    /\ UNCHANGED <<lock, msbuf, net>>
    /\ SendUnchanged

\* Whether sendto succeeds or not.
MutReleased(succeeds) == IF succeeds THEN None ELSE lock
Released(succeeds) == None
SendAndUnlock(t) ==
    /\ Goes(t, "sendto", After(t))
    /\ \/ net' = net \cup {msbuf[t]} /\ lock' = Released(TRUE) /\ UNCHANGED failures
       \/ Fails /\ lock' = Released(FALSE) /\ UNCHANGED net
    /\ UNCHANGED <<sdmsOpen, sdms, msbuf>>
    /\ SendUnchanged

ms_ser2net(t) ==
    \/ Build(t) \/ Lock(t) \/ MsendStarts(t) \/ MakeSocket(t)
    \/ SetInterface(t) \/ SendAndUnlock(t)

-----------------------------------------------------------------------------
(* The two threads.                                                        *)

\* thread_send: seven seconds later.
Sleep ==
    /\ Goes("send", "sleep", "build")
    /\ UNCHANGED <<lock, sdmsOpen, sdms, msbuf, net, failures>>
    /\ SendUnchanged

RcvUnchanged == UNCHANGED <<lock, sdmsOpen, sdms, msbuf, net, asked>>

\* thread_rcv sets the addresses, also those thread_send sends to.
SetPara ==
    /\ Goes("rcv", "start", "open")
    /\ para' = TRUE
    /\ UNCHANGED <<sdmrOpen, para_rbuf, inbox, ip, batip0, ser2net, failures>>
    /\ RcvUnchanged

\* mrinit; if it fails, for want of the address main asked getIP for too, mrcv
\* loops for ever.
mrinit ==
    /\ \/ Goes("rcv", "open", "read") /\ sdmrOpen' = TRUE /\ UNCHANGED failures
       \/ Goes("rcv", "open", "spin") /\ Fails /\ UNCHANGED sdmrOpen
    /\ UNCHANGED <<para, para_rbuf, inbox, ip, batip0, ser2net>>
    /\ RcvUnchanged

\* Both commands have to be whole.
MutLeadsTo(r) == IF r.header = "changeip" THEN "kill"
                 ELSE IF r.whole THEN "build" ELSE "read"
LeadsTo(r) == IF ~r.whole THEN "read"
              ELSE IF r.header = "getip" THEN "build" ELSE "kill"

\* mrcv and what thread_rcv makes of a datagram.
mrcv(r) ==
    /\ r \in inbox
    /\ Goes("rcv", "read", LeadsTo(r))
    /\ inbox' = inbox \ {r}
    /\ para_rbuf' = r
    /\ UNCHANGED <<sdmrOpen, para, ip, batip0, ser2net, failures>>
    /\ RcvUnchanged

\* changeIP, in three steps.  A script that cannot be written ends the thread.
Kill ==
    /\ Goes("rcv", "kill", "write")
    /\ ser2net' = FALSE
    /\ UNCHANGED <<sdmrOpen, para, para_rbuf, inbox, ip, batip0, failures>>
    /\ RcvUnchanged

MutEnds == "read"
Ends == "gone"
Write ==
    /\ \/ /\ Goes("rcv", "write", "reboot")
          /\ batip0' = para_rbuf.ip /\ UNCHANGED failures
       \/ Goes("rcv", "write", Ends) /\ Fails /\ UNCHANGED batip0
    /\ UNCHANGED <<sdmrOpen, para, para_rbuf, inbox, ip, ser2net>>
    /\ RcvUnchanged

\* The script that has just been written sets the address.
MutComesUp == First
ComesUp == batip0
Reboot ==
    /\ pc["rcv"] = "reboot"
    /\ Booted(ComesUp)
    /\ UNCHANGED <<net, batip0, asked, failures>>

-----------------------------------------------------------------------------
(* Clients and the network.  What reaches no socket is lost.               *)

ClientSends(r) ==
    /\ r \notin asked
    /\ asked' = asked \cup {r}
    /\ inbox' = IF sdmrOpen THEN inbox \cup {r} ELSE inbox
    /\ UNCHANGED <<pc, lock, sdmsOpen, sdms, sdmrOpen, para, para_rbuf, msbuf,
                   net, ip, batip0, ser2net, failures>>

RequestLost(r) ==
    /\ r \in inbox
    /\ inbox' = inbox \ {r}
    /\ UNCHANGED <<pc, lock, sdmsOpen, sdms, sdmrOpen, para, para_rbuf, msbuf,
                   net, ip, batip0, ser2net, asked, failures>>

\* It has reached its clients, or got lost.
Gone(m) ==
    /\ net' = net \ {m}
    /\ UNCHANGED <<pc, lock, sdmsOpen, sdms, sdmrOpen, para, para_rbuf, msbuf,
                   inbox, ip, batip0, ser2net, asked, failures>>

Next ==
    \/ \E t \in Threads : ms_ser2net(t)
    \/ Sleep \/ SetPara \/ mrinit \/ Kill \/ Write \/ Reboot
    \/ \E r \in Requests : mrcv(r) \/ ClientSends(r) \/ RequestLost(r)
    \/ \E m \in net : Gone(m)

Spec == Init /\ [][Next]_vars

\* Threads run, and get the lock when it is free again and again: thread_send
\* is asleep for seven seconds after it has let go of it.
FairSpec ==
    /\ Spec
    /\ \A t \in Threads :
        /\ WF_vars(Build(t) \/ MsendStarts(t) \/ MakeSocket(t)
                   \/ SetInterface(t) \/ SendAndUnlock(t))
        /\ SF_vars(Lock(t))
    /\ WF_vars(Sleep) /\ WF_vars(SetPara \/ mrinit)
    /\ WF_vars(Kill \/ Write \/ Reboot)

-----------------------------------------------------------------------------
(* Properties.                                                             *)

\* Every variable that is neither a datagram nor an address keeps its type.
TypeOK ==
    /\ pc \in [Threads -> {"start", "open", "read", "build", "lock", "msend",
                           "socket", "interface", "sendto", "sleep", "spin",
                           "kill", "write", "reboot", "gone"}]
    /\ lock \in Threads \cup {None}
    /\ sdms \in {"none", "made", "ready"}
    /\ sdmsOpen \in BOOLEAN /\ sdmrOpen \in BOOLEAN
    /\ para \in BOOLEAN /\ ser2net \in BOOLEAN
    /\ failures \in 0 .. MaxFailures

\* Nobody sends on a socket that is not ready, although msinit marks it as open
\* before it makes it and never looks at the mark again: the lock keeps the
\* other thread out meanwhile (mrs_v2.c:222 and 312).
SendsOnSocket == \A t \in Threads : pc[t] = "sendto" => sdms = "ready"

\* A box that still listens still serves its ports: whoever made it stop
\* ser2net has restarted it, or it takes no further request (mrs_v2.c:449).
ServesWhileListening == pc["rcv"] \in {"read", "build", "lock"} => ser2net

\* The two threads are, from outside, the box of module Box: what is sent
\* carries the address the box still has, although it was put together before
\* the lock was taken, as long as no call of the kernel has failed; afterwards it
\* may carry whatever was on the stack instead.  A changeip that is not whole
\* changes nothing.
ImplementsBox == TheBox!BoxSpec

\* A box stops announcing its present address only if one of its threads could
\* not set up the socket it sends on (mrs_v2.c:187): not when requests keep its
\* other thread busy, and not when changeIP has failed.
StaysVisible ==
    []<>(Announced(TRUE, ip) \in net \/ \E t \in Threads : pc[t] = "spin")

\* A getip that thread_rcv has taken is answered where it asked for it, as long
\* as no call of the kernel fails: thread_send, which announces the box through
\* the same function and under the same lock, neither keeps the reply from
\* being sent nor puts its own message into its place.
Answered ==
    \A r \in Requests :
        r.header = "getip" =>
            (pc["rcv"] = "build" /\ para_rbuf = r
                ~> (\E m \in net : m.to = r.to /\ m.id = r.id) \/ failures > 0)

\* A box that has begun to change its address comes up with the one asked for,
\* unless the script could not be written.
ChangeDone ==
    \A r \in Requests :
        r.header = "changeip" =>
            (pc["rcv"] = "write" /\ para_rbuf = r
                ~> (ip = r.ip /\ ser2net) \/ pc["rcv"] = "gone")
=============================================================================
