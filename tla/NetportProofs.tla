---------------------------- MODULE NetportProofs ----------------------------
(***************************************************************************)
(* Proofs about module Netport: for any number of virtual ports, any       *)
(* addresses and any number of starts and requests, every virtual port is  *)
(* connected to the address the program shows whenever no switch is under  *)
(* way.                                                                    *)
(***************************************************************************)
EXTENDS Netport, TLAPS

\* What a datagram may give as a box's address.
Heard == Addresses \cup {Stack}

\* The parts of TypeOK, the first of them with what it needs of the network.
Types ==
    /\ main \in {"off", "starting", "runs", "quits", "stops"}
    /\ rcv \in {"off", "opens", "reads", "kills", "switches", "connects", "gone"}
    /\ getip \in {"off", "begins", "asks"}
    /\ heard \in Heard \cup {Default, Unknown}
    /\ serverip \in Heard \cup {Default, Unknown}
    /\ h4c \in [Ports -> Heard \cup {Default, None}]
    /\ ip \in Addresses
    /\ \A m \in net : m.ip \in Heard
    /\ port \in Nat
Flags == found \in BOOLEAN /\ status_connect_8 \in BOOLEAN
Count == tries \in 0 .. MaxTries

\* What has been connected and what not, of the ports before port and the rest.
Starting ==
    main = "starting" =>
        /\ serverip = Default /\ port >= 1
        /\ \A p \in Ports : h4c[p] = IF p < port THEN Default ELSE None
Switching ==
    main = "runs" =>
        /\ rcv = "kills" => \A p \in Ports : p < port => h4c[p] = None
        /\ rcv = "switches" => \A p \in Ports : h4c[p] = None
        /\ rcv = "connects" =>
            /\ serverip = heard
            /\ \A p \in Ports : h4c[p] = IF p < port THEN serverip ELSE None
        /\ rcv \in {"opens", "reads", "gone"} => status_connect_8

\* A switch is to an address that was heard, also while the program quits.
Shown ==
    /\ rcv \in {"kills", "switches", "connects"} =>
        heard \in Heard /\ port >= 1
    /\ rcv = "connects" => serverip \in Heard

\* mcRcvThread is there when the program has started, and not before.
Threaded ==
    /\ main \in {"off", "starting"} => rcv = "off"
    /\ main = "runs" => rcv # "off"

Inv ==
    Types /\ Starting /\ Shown /\ Switching /\ Threaded /\ ConnectionsFollow

-----------------------------------------------------------------------------

LEMMA InitInv == Init => Inv
  BY BoxAssumption DEF Init, BoxInit, Inv, Types, Starting, Shown,
     Switching, Threaded, ConnectionsFollow, Nobody, Ports

\* The network holds only addresses a box may have.
LEMMA BoxTypes ==
    ASSUME Types, boxVars' # boxVars => BoxNext \/ (\E r : Asked(r))
    PROVE  ip' \in Addresses /\ \A m \in net' : m.ip \in Heard
<1> USE DEF Types, boxVars, Heard, Told
<1>1. ASSUME NEW r, Asked(r) PROVE ip' = ip /\ net' = net
  BY <1>1 DEF Asked
<1>2. ASSUME NEW r \in Requests, NEW a, Replies(r, a)
      PROVE  ip' \in Addresses /\ \A m \in net' : m.ip \in Heard
  BY <1>2 DEF Replies, Message
<1>3. ASSUME NEW r \in Requests, Changes(r)
      PROVE  ip' \in Addresses /\ \A m \in net' : m.ip \in Heard
  BY <1>3, NetportAssumption DEF Changes
<1>4. ASSUME NEW to, NEW a, Announces(to, a)
      PROVE  ip' \in Addresses /\ \A m \in net' : m.ip \in Heard
  BY <1>4 DEF Announces, Message
<1>5. ASSUME NEW m, Gone(m)
      PROVE  ip' \in Addresses /\ \A n \in net' : n.ip \in Heard
  BY <1>5 DEF Gone
<1> QED  BY <1>1, <1>2, <1>3, <1>4, <1>5 DEF BoxNext, CallFails

\* What starting and killing one hub4com does to the connections.
LEMMA OneHub ==
    ASSUME Types, port \in Ports
    PROVE  /\ Connected(port) \in [Ports -> Heard \cup {Default, Unknown, None}]
           /\ Disconnected(port) \in [Ports -> Heard \cup {Default, None}]
           /\ serverip \in Heard \cup {Default} =>
                Connected(port) \in [Ports -> Heard \cup {Default, None}]
           /\ \A p \in Ports :
                /\ Connected(port)[p] = IF p = port /\ h4c[p] = None
                                        THEN serverip ELSE h4c[p]
                /\ Disconnected(port)[p] = IF p = port THEN None ELSE h4c[p]
  BY DEF Types, Connected, Disconnected

\* The steps in which only datagrams move.
Surroundings ==
    \/ \E a \in {ip, Stack} : BoxAnnounces(a) \/ BoxReplies(a)
    \/ BoxFails \/ BoxChanges \/ Lost

LEMMA TypesStep == Types /\ Starting /\ Shown /\ [Next]_vars => Types'
<1> SUFFICES ASSUME Types, Starting, Shown, [Next]_vars PROVE Types'
  OBVIOUS
<1>1. ip' \in Addresses /\ \A m \in net' : m.ip \in Heard
  <2>1. boxVars' # boxVars => BoxNext \/ (\E r : Asked(r))
    BY DEF Next, vars, boxVars, BoxNext, my_init, StartConnects, Started, Quits,
           Forgets, Ends, rleaf, rleafOpens, rleafEnds, disconnect8, Switches,
           connect8, mcGetipThread, begin_request_handler, BoxAnnounces,
           BoxReplies, BoxFails, BoxChanges, Lost
  <2> QED  BY <2>1, BoxTypes
<1> USE DEF Types, Ports
<1>2. CASE my_init \/ Started
  BY <1>1, <1>2 DEF my_init, Started, Killed, Nobody
<1>3. CASE StartConnects \/ connect8
  <2>1. CASE port \in Ports
    BY <1>1, <1>3, <2>1, OneHub
       DEF Starting, Shown, StartConnects, connect8, RcvUnchanged
  <2>2. CASE port \notin Ports
    BY <1>1, <1>3, <2>2 DEF StartConnects, connect8, RcvUnchanged
  <2> QED  BY <2>1, <2>2
<1>4. CASE Quits \/ Forgets \/ Ends
  BY <1>1, <1>4 DEF Quits, Forgets, Ends, Killed, Nobody
<1>5. ASSUME NEW m \in net, rleaf(m) PROVE Types'
  BY <1>1, <1>5 DEF rleaf, RcvUnchanged
<1>6. CASE disconnect8 \/ Switches
  BY <1>1, <1>6 DEF disconnect8, Disconnected, Switches, RcvUnchanged
<1>9. CASE rleafOpens \/ rleafEnds
  BY <1>1, <1>9 DEF rleafOpens, rleafEnds, RcvUnchanged
<1>7. CASE mcGetipThread \/ begin_request_handler
  BY <1>1, <1>7 DEF mcGetipThread, begin_request_handler
<1>8. CASE Surroundings \/ UNCHANGED vars
  BY <1>1, <1>8 DEF Surroundings, BoxAnnounces, BoxReplies, BoxFails,
                    BoxChanges, Lost, netportVars, vars
<1> QED  BY <1>2, <1>3, <1>4, <1>5, <1>6, <1>7, <1>8, <1>9 DEF Next, Surroundings

LEMMA ShownStep == Types /\ Threaded /\ Shown /\ [Next]_vars => Shown'
<1> SUFFICES ASSUME Types, Threaded, Shown, [Next]_vars PROVE Shown'
  OBVIOUS
<1> USE DEF Types, Shown
<1>1. CASE my_init \/ StartConnects \/ Started
  BY <1>1 DEF Threaded, my_init, StartConnects, Started
<1>2. CASE Quits \/ Forgets \/ Ends
  BY <1>2 DEF Quits, Forgets, Ends
<1>3. ASSUME NEW m \in net, rleaf(m) PROVE Shown'
  BY <1>3 DEF rleaf, RcvUnchanged
<1>4. CASE disconnect8 \/ Switches \/ connect8
  BY <1>4 DEF disconnect8, Switches, connect8, RcvUnchanged
<1>7. CASE rleafOpens \/ rleafEnds
  BY <1>7 DEF rleafOpens, rleafEnds, RcvUnchanged
<1>5. CASE mcGetipThread \/ begin_request_handler
  BY <1>5 DEF mcGetipThread, begin_request_handler
<1>6. CASE Surroundings \/ UNCHANGED vars
  BY <1>6 DEF Surroundings, BoxAnnounces, BoxReplies, BoxFails, BoxChanges,
              Lost, netportVars, vars
<1> QED  BY <1>1, <1>2, <1>3, <1>4, <1>5, <1>6, <1>7 DEF Next, Surroundings

\* The connections in every phase of a start and of a switch.
LEMMA PhaseStep == Inv /\ [Next]_vars => (Starting /\ Switching /\ Threaded
                                          /\ ConnectionsFollow)'
<1> SUFFICES ASSUME Inv, [Next]_vars
             PROVE  (Starting /\ Switching /\ Threaded /\ ConnectionsFollow)'
  OBVIOUS
<1> USE NetportAssumption
    DEF Inv, Types, Starting, Shown, Switching, Threaded, ConnectionsFollow,
        Ports
<1>1. CASE my_init
  BY <1>1 DEF my_init, Killed, Nobody
<1>2. CASE StartConnects
  BY <1>2, OneHub DEF StartConnects
<1>3. CASE Started
  BY <1>3 DEF Started
<1>4. CASE Quits \/ Forgets \/ Ends
  BY <1>4 DEF Quits, Forgets, Ends
<1>5. ASSUME NEW m \in net, rleaf(m)
      PROVE  (Starting /\ Switching /\ Threaded /\ ConnectionsFollow)'
  BY <1>5 DEF rleaf, RcvUnchanged
<1>6. CASE disconnect8
  <2>1. CASE port \in Ports
    BY <1>6, <2>1, OneHub DEF disconnect8, RcvUnchanged
  <2>2. CASE port \notin Ports
    BY <1>6, <2>2 DEF disconnect8, RcvUnchanged
  <2> QED  BY <2>1, <2>2
<1>7. CASE Switches
  BY <1>7 DEF Switches, RcvUnchanged
<1>11. CASE rleafOpens \/ rleafEnds
  BY <1>11 DEF rleafOpens, rleafEnds, RcvUnchanged
<1>8. CASE connect8
  <2>1. CASE port \in Ports
    BY <1>8, <2>1, OneHub DEF connect8, RcvUnchanged
  <2>2. CASE port \notin Ports
    BY <1>8, <2>2 DEF connect8, RcvUnchanged, Heard
  <2> QED  BY <2>1, <2>2
<1>9. CASE mcGetipThread \/ begin_request_handler
  BY <1>9 DEF mcGetipThread, begin_request_handler
<1>10. CASE Surroundings \/ UNCHANGED vars
  BY <1>10 DEF Surroundings, BoxAnnounces, BoxReplies, BoxFails,
               BoxChanges, Lost, netportVars, vars
<1> QED  BY <1>1, <1>2, <1>3, <1>4, <1>5, <1>6, <1>7, <1>8, <1>9, <1>10, <1>11
         DEF Next, Surroundings

LEMMA FlagsStep == Flags /\ [Next]_vars => Flags'
  BY DEF Flags, Next, vars, my_init, StartConnects, Started, Quits, Forgets,
         Ends, rleaf, rleafOpens, rleafEnds, disconnect8, Switches, connect8,
         mcGetipThread, begin_request_handler, BoxAnnounces, BoxReplies,
         BoxFails, BoxChanges, Lost, netportVars, RcvUnchanged

LEMMA CountStep == Count /\ [Next]_vars => Count'
  BY NetportAssumption
     DEF Count, Next, vars, my_init, StartConnects, Started, Quits, Forgets,
         Ends, rleaf, rleafOpens, rleafEnds, disconnect8, Switches, connect8,
         mcGetipThread, GivesUp, begin_request_handler, BoxAnnounces,
         BoxReplies, BoxFails, BoxChanges, Lost, netportVars, RcvUnchanged

-----------------------------------------------------------------------------

\* The inductive invariant holds of every reachable state.
THEOREM Invariance == Spec => []Inv
<1>1. Inv /\ [Next]_vars => Inv'
  BY TypesStep, ShownStep, PhaseStep DEF Inv
<1> QED  BY InitInv, <1>1, PTL DEF Spec

\* Every variable keeps its type, and mcGetipThread asks only so often.
THEOREM TypeCorrect == Spec => []TypeOK
<1>1. Init => Flags
  BY DEF Init, Flags
<1>0. Init => Count
  BY NetportAssumption DEF Init, Count
<1>2. Inv /\ Flags /\ Count => TypeOK
  BY DEF Inv, Types, Flags, Count, TypeOK, Heard
<1> QED  BY <1>0, <1>1, <1>2, FlagsStep, CountStep, Invariance, PTL DEF Spec

\* Every virtual port is connected to the address shown, whenever no switch is
\* under way: however often the program is killed and started again, and the
\* box changes its address.
THEOREM ConnectionsFollowThm == Spec => []ConnectionsFollow
<1>1. Inv => ConnectionsFollow
  BY DEF Inv
<1> QED  BY <1>1, Invariance, PTL

=============================================================================
