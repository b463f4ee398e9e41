------------------------------- MODULE Netport -------------------------------
(***************************************************************************)
(* The Windows program beside a box (src/m36/main36_2k.c).  It looks for   *)
(* the box on the network, shows and changes its address on a web page,    *)
(* and keeps one hub4com process for each virtual serial port, connected   *)
(* to the box: h4c1.exe to the box's port 3001, and so on.  When it hears  *)
(* of another address, it kills these processes and starts them again.     *)
(*                                                                         *)
(* Three of its threads matter: the one that starts and ends the program,  *)
(* mcRcvThread, which hears the boxes, and mcGetipThread, which asks them. *)
(* The box is that of module Box, whose datagrams may be lost, delayed and *)
(* overtaken.  RunSilent does not wait for what it runs: it is assumed     *)
(* that taskkill has done its work within the second the code sleeps, and  *)
(* that a hub4com has read its file before the next round, 8 s later.      *)
(* Left out: the names of the virtual ports, the log, test pages, and the  *)
(* settings dialog, which no menu opens any more.                          *)
(***************************************************************************)
EXTENDS Box

CONSTANTS
    Default,     \* 192.168.1.77, tried before any box is found
    Unknown,     \* what serverip says then
    NumPorts,    \* virtual ports connect8 connects: 7 in the code
    MaxTries,    \* how often mcGetipThread asks: 100 in the code
    MaxStarts,   \* bound: starts of the program
    MaxAsked,    \* bound: addresses the user asks for
    MaxFailures  \* bound: calls of the box's kernel that fail

VARIABLES
    main,        \* the program: "off", "starting", "runs", "quits", "stops"
    rcv,         \* mcRcvThread: "off", "opens", "reads", "kills", "switches",
                 \* "connects" or "gone"
    getip,       \* mcGetipThread: "off", "begins" or "asks"
    port,        \* the next port of connect8 or disconnect8
    heard,       \* the address rleaf has read
    serverip,
    found,       \* gNum > 0
    status_connect_8,   \* whether it is not 0
    h4c,         \* of each port: the address its hub4com is connected to
    tries,       \* requests mcGetipThread has sent
    starts, changes     \* counters for the bounds

netportVars == <<main, rcv, getip, port, heard, serverip, found,
                 status_connect_8, h4c, tries, starts, changes>>
vars == <<boxVars, netportVars>>

ASSUME NetportAssumption ==
    /\ NumPorts \in Nat
    /\ Unknown \notin Addresses \cup {Stack}
    /\ MaxTries \in Nat /\ MaxStarts \in Nat /\ MaxAsked \in Nat
    /\ MaxFailures \in Nat
    /\ \A r \in Requests : r.header = "changeip" => r.ip \in Addresses

Ports == 1 .. NumPorts
\* The time that a request carries comes back in the reply, and nobody reads it.
Search == [header |-> "getip", whole |-> TRUE, to |-> Group, id |-> None]
ChangeTo(a) == [header |-> "changeip", whole |-> TRUE, ip |-> a]
Nobody == [p \in Ports |-> None]

Init ==
    /\ BoxInit
    /\ main = "off" /\ rcv = "off" /\ getip = "off"
    /\ port = 0 /\ heard = Unknown /\ serverip = Unknown
    /\ found = FALSE /\ status_connect_8 = FALSE
    /\ h4c = Nobody /\ tries = 0 /\ starts = 0 /\ changes = 0

-----------------------------------------------------------------------------
(* Start and end of the program.                                           *)

\* disconnectAll: taskkill of every h4c*, whoever started it.
MutKilled == h4c
Killed == Nobody

\* my_init begins; what the program kept in memory is new.
my_init ==
    /\ main = "off" /\ starts < MaxStarts
    /\ starts' = starts + 1
    /\ main' = "starting" /\ port' = 1
    /\ h4c' = Killed
    /\ serverip' = Default /\ heard' = Unknown
    /\ found' = FALSE /\ status_connect_8' = FALSE /\ tries' = 0
    /\ UNCHANGED <<boxVars, rcv, getip, changes>>

\* connect8, one port: a hub4com does nothing if another one has the port.
Connected(p) == [h4c EXCEPT ![p] = IF @ = None THEN serverip ELSE @]

StartConnects ==
    /\ main = "starting" /\ port \in Ports
    /\ h4c' = Connected(port) /\ port' = port + 1
    /\ UNCHANGED <<boxVars, main, rcv, getip, heard, serverip, found,
                   status_connect_8, tries, starts, changes>>

\* The end of my_init, and of start_mongoose, which starts both threads.
Started ==
    /\ main = "starting" /\ port \notin Ports
    /\ main' = "runs" /\ rcv' = "opens" /\ getip' = "begins"
    /\ status_connect_8' = TRUE /\ serverip' = Unknown
    /\ UNCHANGED <<boxVars, port, heard, found, h4c, tries, starts, changes>>

\* ID_QUIT: disconnectAll, while the threads go on, and a second later the end.
Quits ==
    /\ main = "runs"
    /\ main' = "quits"
    /\ h4c' = Killed
    /\ UNCHANGED <<boxVars, rcv, getip, port, heard, serverip, found,
                   status_connect_8, tries, starts, changes>>

\* The end, of a program that quits or of one that is killed or closed: what it
\* has started lives on.
Ends ==
    /\ main # "off"
    /\ main' = "off" /\ rcv' = "off" /\ getip' = "off"
    /\ UNCHANGED <<boxVars, port, heard, serverip, found, status_connect_8,
                   h4c, tries, starts, changes>>

-----------------------------------------------------------------------------
(* mcRcvThread: rleaf.                                                     *)

RcvUnchanged ==
    UNCHANGED <<main, getip, tries, starts, changes>>

\* The socket of the group is made, bound and joined.  If that fails, the thread
\* ends.
rleafOpens ==
    /\ rcv = "opens"
    /\ rcv' \in {"reads", "gone"}
    /\ UNCHANGED <<boxVars, port, heard, serverip, found, status_connect_8, h4c>>
    /\ RcvUnchanged

\* So it does when recvfrom fails, as it may at any time, also on a datagram that
\* is too long, or when it hears quitmongoosetest.
rleafEnds ==
    /\ rcv = "reads"
    /\ rcv' = "gone"
    /\ UNCHANGED <<boxVars, port, heard, serverip, found, status_connect_8, h4c>>
    /\ RcvUnchanged

\* rgetip with its nine fields.
MutIsNew(a) == serverip = Unknown
IsNew(a) == a # serverip
rleaf(m) ==
    /\ rcv = "reads" /\ m \in net /\ m.to = Group
    /\ Gone(m)
    /\ found' = TRUE
    /\ IF IsNew(m.ip)
       THEN /\ heard' = m.ip
            /\ rcv' = IF status_connect_8 THEN "kills" ELSE "switches"
            /\ port' = 1
       ELSE UNCHANGED <<heard, rcv, port>>
    /\ UNCHANGED <<serverip, status_connect_8, h4c>>
    /\ RcvUnchanged

\* disconnect8, one port each second.
Disconnected(p) == [h4c EXCEPT ![p] = None]
disconnect8 ==
    /\ rcv = "kills"
    /\ IF port \in Ports
       THEN /\ h4c' = Disconnected(port) /\ port' = port + 1
            /\ UNCHANGED <<rcv, status_connect_8>>
       ELSE /\ rcv' = "switches" /\ status_connect_8' = FALSE
            /\ UNCHANGED <<h4c, port>>
    /\ UNCHANGED <<boxVars, heard, serverip, found>>
    /\ RcvUnchanged

Switches ==
    /\ rcv = "switches"
    /\ rcv' = "connects" /\ port' = 1 /\ serverip' = heard
    /\ UNCHANGED <<boxVars, heard, found, status_connect_8, h4c>>
    /\ RcvUnchanged

connect8 ==
    /\ rcv = "connects"
    /\ IF port \in Ports
       THEN /\ h4c' = Connected(port) /\ port' = port + 1
            /\ UNCHANGED <<rcv, status_connect_8>>
       ELSE /\ rcv' = "reads" /\ status_connect_8' = TRUE
            /\ UNCHANGED <<h4c, port>>
    /\ UNCHANGED <<boxVars, heard, serverip, found>>
    /\ RcvUnchanged

\* disconnectAll has slept: it clears what connect8 may have set meanwhile.
Forgets ==
    /\ main = "quits"
    /\ main' = "stops" /\ status_connect_8' = FALSE
    /\ UNCHANGED <<boxVars, rcv, getip, port, heard, serverip, found,
                   h4c, tries, starts, changes>>

-----------------------------------------------------------------------------
(* mcGetipThread and the web page.                                         *)

GivesUp == found \/ tries = MaxTries

\* The first step forgets what mcRcvThread, started before it, has found.
mcGetipThread ==
    /\ \/ /\ getip = "begins"
          /\ getip' = "asks" /\ found' = FALSE
          /\ UNCHANGED <<boxVars, tries>>
       \/ /\ getip = "asks"
          /\ IF GivesUp
             THEN getip' = "off" /\ UNCHANGED <<boxVars, tries>>
             ELSE Asked(Search) /\ tries' = tries + 1 /\ UNCHANGED getip
          /\ UNCHANGED found
    /\ UNCHANGED <<main, rcv, port, heard, serverip, status_connect_8, h4c,
                   starts, changes>>

\* /changeip_done and /urlsearchserver.html; the web server is the first thing
\* that start_mongoose starts and the last thing that stops.
begin_request_handler ==
    /\ main # "off"
    /\ \/ Asked(Search) /\ UNCHANGED changes
       \/ /\ changes < MaxAsked /\ changes' = changes + 1
          /\ \E a \in Addresses : Asked(ChangeTo(a))
    /\ UNCHANGED <<main, rcv, getip, port, heard, serverip, found,
                   status_connect_8, h4c, tries, starts>>

-----------------------------------------------------------------------------
(* The box and the network.                                                *)

BoxAnnounces(a) == Announces(Group, a) /\ UNCHANGED netportVars
BoxReplies(a) == (\E r \in Requests : Replies(r, a)) /\ UNCHANGED netportVars
BoxFails == failures < MaxFailures /\ CallFails /\ UNCHANGED netportVars
BoxChanges == (\E r \in Requests : Changes(r)) /\ UNCHANGED netportVars
Lost == (\E m \in net : Gone(m)) /\ UNCHANGED netportVars

Next ==
    \/ my_init \/ StartConnects \/ Started \/ Quits \/ Forgets \/ Ends
    \/ rleafOpens \/ rleafEnds \/ \E m \in net : rleaf(m)
    \/ disconnect8 \/ Switches \/ connect8
    \/ mcGetipThread \/ begin_request_handler
    \/ \E a \in {ip, Stack} : BoxAnnounces(a) \/ BoxReplies(a)
    \/ BoxFails \/ BoxChanges \/ Lost

Spec == Init /\ [][Next]_vars

\* The program's own threads run, a box announces its address for ever
\* (StaysVisible in Mrs), and of datagrams that keep coming one gets through.
FairSpec ==
    /\ Spec
    /\ WF_vars(StartConnects) /\ WF_vars(Started)
    /\ WF_vars(rleafOpens)
    /\ WF_vars(disconnect8) /\ WF_vars(Switches) /\ WF_vars(connect8)
    /\ WF_vars(mcGetipThread)
    /\ WF_vars(BoxAnnounces(ip))
    /\ \A a \in Addresses :
        SF_vars(rleaf(Message(Group, None, a)))

-----------------------------------------------------------------------------
(* Properties.                                                             *)

\* Every variable keeps its type, and mcGetipThread asks only so often.
TypeOK ==
    /\ main \in {"off", "starting", "runs", "quits", "stops"}
    /\ rcv \in {"off", "opens", "reads", "kills", "switches", "connects", "gone"}
    /\ getip \in {"off", "begins", "asks"}
    /\ {heard, serverip} \subseteq Addresses \cup {Stack, Default, Unknown}
    /\ {found, status_connect_8} \subseteq BOOLEAN
    /\ h4c \in [Ports -> Addresses \cup {Stack, Default, None}]
    /\ tries \in 0 .. MaxTries

\* Whenever the program has no switch under way, every virtual port is connected
\* to the address it shows, or to the default before it has one: also after it
\* was killed in the middle of a switch and started again beside the processes
\* it had left, when the box has changed its address several times, and when
\* mcRcvThread has ended.
ConnectionsFollow ==
    main = "runs" /\ rcv \in {"opens", "reads", "gone"} =>
        \A p \in Ports :
            h4c[p] = IF serverip = Unknown THEN Default ELSE serverip

\* Once a box keeps its address, the program comes to show it and to connect
\* every port to it, whatever older announcements are still on their way,
\* however many are lost, and although mcGetipThread may forget that one was
\* heard.  That takes an mcRcvThread that has not ended, and a box that does not
\* announce for ever what was on its stack.  It is so for one box; two would
\* make the program switch for ever.
Follows ==
    \A a \in Addresses :
        <>[](/\ ip = a /\ main = "runs" /\ rcv # "gone"
             /\ \A m \in net : m.ip \in Addresses)
            => <>[](found /\ serverip = a /\ \A p \in Ports : h4c[p] = a)
=============================================================================
