--------------------------------- MODULE Box ---------------------------------
(***************************************************************************)
(* What mrs promises to the network (src/broadcast/linux/mrs_v2.c), seen   *)
(* from outside the box: whatever it sends is an announcement or the reply *)
(* to a getip it was sent, and carries the address the box has at that     *)
(* moment or, but only after a call of its kernel has failed, whatever was *)
(* in a buffer; and its address changes only to one that a changeip has    *)
(* asked for.  The module Mrs implements this; Netport is built on it.     *)
(***************************************************************************)
EXTENDS Naturals

CONSTANTS
    Addresses,   \* addresses a box may have
    First,       \* the one it has at first
    Requests,    \* datagrams clients may send
    None,        \* the request of an announcement
    Stack        \* the text in an address's buffer that nobody has filled

VARIABLES
    ip,          \* its address
    net,         \* datagrams on their way to clients
    asked,       \* requests sent to it
    failures     \* history: calls of its kernel that have failed

boxVars == <<ip, net, asked, failures>>

ASSUME BoxAssumption ==
    /\ First \in Addresses
    /\ \A r \in Requests :
        \/ r.header = "getip" /\ DOMAIN r = {"header", "whole", "to", "id"}
        \/ r.header = "changeip" /\ DOMAIN r = {"header", "whole", "ip"}

Group == "226.1.1.2:4322"   \* where announcements go
Unset == "unset"            \* and where they may go before mrs has set that up

Message(to, id, a) == [to |-> to, id |-> id, ip |-> a]

BoxInit == ip = First /\ net = {} /\ asked = {} /\ failures = 0

\* What the box may take for its address.
Told(a) == a = ip \/ (a = Stack /\ failures > 0)

Asked(r) == asked' = asked \cup {r} /\ UNCHANGED <<ip, net, failures>>

Announces(to, a) ==
    /\ Told(a)
    /\ net' = net \cup {Message(to, None, a)}
    /\ UNCHANGED <<ip, asked, failures>>

Replies(r, a) ==
    /\ r \in asked /\ r.header = "getip" /\ r.whole
    /\ Told(a)
    /\ net' = net \cup {Message(r.to, r.id, a)}
    /\ UNCHANGED <<ip, asked, failures>>

Changes(r) ==
    /\ r \in asked /\ r.header = "changeip" /\ r.whole
    /\ ip' = r.ip
    /\ UNCHANGED <<net, asked, failures>>

CallFails == failures' = failures + 1 /\ UNCHANGED <<ip, net, asked>>

\* A datagram has been read, or is lost.
Gone(m) == net' = net \ {m} /\ UNCHANGED <<ip, asked, failures>>

BoxNext ==
    \/ \E r \in Requests : Asked(r) \/ Changes(r)
    \/ \E r \in Requests, a \in {ip, Stack} : Replies(r, a)
    \/ \E to \in {Group, Unset}, a \in {ip, Stack} : Announces(to, a)
    \/ \E m \in net : Gone(m)
    \/ CallFails

BoxSpec == BoxInit /\ [][BoxNext]_boxVars
=============================================================================
