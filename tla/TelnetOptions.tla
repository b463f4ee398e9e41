---------------------------- MODULE TelnetOptions ----------------------------
(***************************************************************************)
(* Negotiation of the telnet options of ser2net's sessions                 *)
(* (src/unixsocket/s2n291/telnet.c, handle_telnet_cmd, with the table and  *)
(* the opening sequence of dataxfer.c).  The table telnet_cmds is static:  *)
(* all sessions, of all ports and at all times, share its sent flags,      *)
(* which are set when the program starts and only ever cleared.            *)
(*                                                                         *)
(* An option has two sides.  On "him" the port performs it: the port says  *)
(* WILL and WONT, the client DO and DONT (i_do and sent_will in the        *)
(* table).  On "us" the client performs it: the client says WILL and WONT, *)
(* the port DO and DONT (i_will and sent_do).  So a message is a side, an  *)
(* option and yes or no, in either direction.  A client keeps the rules of *)
(* RFC 1143 and asks for a change only of what is settled.                 *)
(***************************************************************************)
EXTENDS Naturals, Sequences

CONSTANTS
    Sessions,     \* sessions there may be at once
    Options,      \* those in use, of the options below
    Allowed,      \* the sessions of ports with remctl (dinfo.allow_2217)
    MaxSessions,  \* bound: sessions begun
    MaxRequests   \* bound: changes all clients ask for

VARIABLES
    open,         \* sessions that are going on
    sent,         \* sent_will (on "him") and sent_do (on "us") of each option
    toPort, toClient,   \* what each end has not read
    client,       \* the client's state of each option and side
    begun, asked  \* counters for the bounds

vars == <<open, sent, toPort, toClient, client, begun, asked>>

Sides == {"him", "us"}
States == {"NO", "YES", "WANTNO", "WANTYES"}
Message(o, side, yes) == [option |-> o, side |-> side, yes |-> yes]

ASSUME OptionsAssumption ==
    Options \subseteq {"SUPPRESS_GO_AHEAD", "ECHO", "BINARY_TRANSMISSION",
                       "COM_PORT", "other"}
ASSUME SessionsAssumption == Allowed \subseteq Sessions
ASSUME TelnetOptionsBounds == MaxSessions \in Nat /\ MaxRequests \in Nat

-----------------------------------------------------------------------------
(* The table; "other" has no entry in it.                                   *)

\* i_do and i_will, and the answer of com_port_will.
Agrees(s, o, side) ==
    CASE side = "him" -> o \in {"SUPPRESS_GO_AHEAD", "ECHO", "BINARY_TRANSMISSION"}
      [] side = "us"  -> \/ o = "BINARY_TRANSMISSION"
                         \/ o = "COM_PORT" /\ s \in Allowed

telnet_cmds(o, side) ==
    CASE side = "him" -> o \in {"SUPPRESS_GO_AHEAD", "ECHO"}
      [] side = "us"  -> o \in {"ECHO", "BINARY_TRANSMISSION"}

Offer(o, side, yes) ==
    IF o \in Options THEN <<Message(o, side, yes)>> ELSE <<>>
telnet_init_seq ==
    Offer("SUPPRESS_GO_AHEAD", "him", TRUE) \o Offer("ECHO", "him", TRUE)
        \o Offer("ECHO", "us", FALSE) \o Offer("BINARY_TRANSMISSION", "us", TRUE)

Init ==
    /\ open = {}
    /\ sent = [o \in Options |-> [side \in Sides |-> telnet_cmds(o, side)]]
    /\ toPort = [s \in Sessions |-> <<>>]
    /\ toClient = [s \in Sessions |-> <<>>]
    /\ client = [s \in Sessions |-> [o \in Options |-> [side \in Sides |-> "NO"]]]
    /\ begun = 0 /\ asked = 0

-----------------------------------------------------------------------------
(* The port.                                                               *)

\* telnet_init: the table stays as the sessions before and beside have left it.
MutReset == [o \in Options |-> [side \in Sides |-> telnet_cmds(o, side)]]
Inherited == sent

telnet_init(s) ==
    /\ s \notin open /\ begun < MaxSessions
    /\ open' = open \cup {s}
    /\ begun' = begun + 1
    /\ sent' = Inherited
    /\ toClient' = [toClient EXCEPT ![s] = telnet_init_seq]
    /\ client' = [client EXCEPT ![s] = [o \in Options |-> [side \in Sides |-> "NO"]]]
    /\ UNCHANGED <<toPort, asked>>

Dropped(queue, s) == [queue EXCEPT ![s] = <<>>]
shutdown_port(s) ==
    /\ s \in open
    /\ open' = open \ {s}
    /\ toClient' = Dropped(toClient, s) /\ toPort' = Dropped(toPort, s)
    /\ UNCHANGED <<sent, client, begun, asked>>

\* What is answered to yes or no when the port has not asked.
MutAnswer(s, m) == Agrees(s, m.option, m.side)
Answer(s, m) == m.yes /\ Agrees(s, m.option, m.side)

\* WILL, WONT, DO and DONT.  rem_will and rem_do, which nothing reads, are
\* left out.
handle_telnet_cmd(s) ==
    LET m == Head(toPort[s]) IN
    /\ s \in open /\ toPort[s] # <<>>
    /\ toPort' = [toPort EXCEPT ![s] = Tail(@)]
    /\ IF sent[m.option][m.side]
       THEN /\ sent' = [sent EXCEPT ![m.option][m.side] = FALSE]
            /\ UNCHANGED toClient
       ELSE /\ toClient' = [toClient EXCEPT ![s] =
                    Append(@, Message(m.option, m.side, Answer(s, m)))]
            /\ UNCHANGED sent
    /\ UNCHANGED <<open, client, begun, asked>>

-----------------------------------------------------------------------------
(* A client.                                                               *)

\* It answers what changes its state, and may refuse what is offered.
ClientReceives(s) ==
    LET m   == Head(toClient[s])
        was == client[s][m.option][m.side]
        Becomes(to, answers, yes) ==
            /\ client' = [client EXCEPT ![s][m.option][m.side] = to]
            /\ toPort' = IF answers
                         THEN [toPort EXCEPT ![s] =
                                 Append(@, Message(m.option, m.side, yes))]
                         ELSE toPort
    IN  /\ s \in open /\ toClient[s] # <<>>
        /\ toClient' = [toClient EXCEPT ![s] = Tail(@)]
        /\ \/ was = "NO" /\ m.yes /\ Becomes("YES", TRUE, TRUE)
           \/ was = "NO" /\ m.yes /\ Becomes("NO", TRUE, FALSE)
           \/ was = "YES" /\ ~m.yes /\ Becomes("NO", TRUE, FALSE)
           \/ was = "WANTYES" /\ Becomes(IF m.yes THEN "YES" ELSE "NO", FALSE, FALSE)
           \/ was = "WANTNO" /\ Becomes("NO", FALSE, FALSE)
           \/ /\ was = (IF m.yes THEN "YES" ELSE "NO")
              /\ Becomes(was, FALSE, FALSE)
        /\ UNCHANGED <<open, sent, begun, asked>>

ClientAsks(s, o, side) ==
    LET yes == client[s][o][side] = "NO" IN
    /\ s \in open /\ asked < MaxRequests
    /\ client[s][o][side] \in {"NO", "YES"}
    /\ client' = [client EXCEPT ![s][o][side] = IF yes THEN "WANTYES" ELSE "WANTNO"]
    /\ toPort' = [toPort EXCEPT ![s] = Append(@, Message(o, side, yes))]
    /\ asked' = asked + 1
    /\ UNCHANGED <<open, sent, toClient, begun>>

Next ==
    \E s \in Sessions :
        \/ telnet_init(s)
        \/ shutdown_port(s)
        \/ handle_telnet_cmd(s)
        \/ ClientReceives(s)
        \/ \E o \in Options, side \in Sides : ClientAsks(s, o, side)

Spec == Init /\ [][Next]_vars

\* Both ends read what they are sent.
FairSpec ==
    /\ Spec
    /\ \A s \in Sessions :
        WF_vars(handle_telnet_cmd(s)) /\ WF_vars(ClientReceives(s))

-----------------------------------------------------------------------------
(* Properties.                                                             *)

Quiet(s) == toPort[s] = <<>> /\ toClient[s] = <<>>

\* When nothing is on its way, a client that has asked for a change has its
\* answer, although the port takes any first message for the answer to its own
\* request, whichever session asked and whichever answers.  Only the first
\* client that offers to ECHO may wait for ever: the table says that the port
\* has sent DO ECHO, while the opening sequence sends DONT, which a client that
\* does not echo has no reason to answer (dataxfer.c:247).
Answered ==
    \A s \in open : Quiet(s) =>
        \A o \in Options, side \in Sides :
            <<o, side>> # <<"ECHO", "us">> =>
                client[s][o][side] \in {"NO", "YES"}

\* Negotiation ends: answers to answers do not go on for ever.
NegotiationEnds == <>[](\A s \in Sessions : Quiet(s))
=============================================================================
