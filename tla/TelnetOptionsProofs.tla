------------------------- MODULE TelnetOptionsProofs -------------------------
(***************************************************************************)
(* Proofs about module TelnetOptions: however many sessions share the      *)
(* table of what was sent, and whichever options are in use, every client  *)
(* gets its answer.                                                        *)
(***************************************************************************)
EXTENDS TelnetOptions, SequenceTheorems, TLAPS

Messages == [option : Options, side : Sides, yes : BOOLEAN]

Types ==
    /\ open \subseteq Sessions
    /\ sent \in [Options -> [Sides -> BOOLEAN]]
    /\ toPort \in [Sessions -> Seq(Messages)]
    /\ toClient \in [Sessions -> Seq(Messages)]
    /\ client \in [Sessions -> [Options -> [Sides -> States]]]

\* The places of a queue where a side of an option is the subject.
About(q, o, side) ==
    {i \in DOMAIN q : q[i].option = o /\ q[i].side = side}

Wants(c) == c \in {"WANTNO", "WANTYES"}

\* While a flag is set, each session's client has either not read the opening
\* yet, which answers what it may have asked for, or it has sent the answer the
\* flag waits for, in front of what it may have asked for.
Waiting(p, q, c, o, side) ==
    \/ \E i \in About(q, o, side) :
        /\ \A j \in About(q, o, side) : j = i
        /\ q[i].yes
        /\ c = "NO" \/ (c = "WANTYES" /\ About(p, o, side) # {})
    \/ \E i \in About(p, o, side) :
        Wants(c) => \E j \in About(p, o, side) : j # i

\* Once it is clear, what a client has asked for or its answer is on its way.
Settling(p, q, c, o, side) ==
    Wants(c) => About(p, o, side) \cup About(q, o, side) # {}

Pending(flag, p, q, c, o, side) ==
    IF flag THEN Waiting(p, q, c, o, side) ELSE Settling(p, q, c, o, side)

\* All but the client's side of ECHO, as in Answered.
Covered(o, side) == o \in Options /\ side \in Sides /\ <<o, side>> # <<"ECHO", "us">>

At(s, o, side) ==
    Pending(sent[o][side], toPort[s], toClient[s], client[s][o][side], o, side)
\* Flags are never set again.
Set == \A o \in Options, side \in Sides : sent[o][side] => telnet_cmds(o, side)

AllPending == \A s \in open : \A o, side : Covered(o, side) => At(s, o, side)

Inv == Types /\ Set /\ AllPending

-----------------------------------------------------------------------------
(* Queues.                                                                 *)

\* A message sent is one more place; the others stay.
LEMMA AboutAppend ==
    ASSUME NEW q \in Seq(Messages), NEW m \in Messages, NEW o, NEW side
    PROVE  /\ \A i \in DOMAIN q : i \in DOMAIN Append(q, m) /\ Append(q, m)[i] = q[i]
           /\ Len(q) + 1 \notin DOMAIN q
           /\ Len(q) + 1 \in DOMAIN Append(q, m) /\ Append(q, m)[Len(q) + 1] = m
           /\ About(q, o, side) \subseteq About(Append(q, m), o, side)
           /\ m.option = o /\ m.side = side =>
                Len(q) + 1 \in About(Append(q, m), o, side)
           /\ ~(m.option = o /\ m.side = side) =>
                About(Append(q, m), o, side) = About(q, o, side)
<1>1. /\ DOMAIN q = 1 .. Len(q) /\ DOMAIN Append(q, m) = 1 .. Len(q) + 1
      /\ Len(q) \in Nat
      /\ \A i \in DOMAIN q : Append(q, m)[i] = q[i]
      /\ Append(q, m)[Len(q) + 1] = m
  OBVIOUS
<1> QED BY <1>1 DEF About

\* A message read leaves the others, one place further on.
LEMMA AboutTail ==
    ASSUME NEW q \in Seq(Messages), q # <<>>, NEW o, NEW side
    PROVE  /\ 1 \in DOMAIN q /\ q[1] = Head(q) /\ Head(q) \in Messages
           /\ Tail(q) \in Seq(Messages)
           /\ \A i \in DOMAIN q \ {1} :
                i - 1 \in DOMAIN Tail(q) /\ Tail(q)[i - 1] = q[i]
           /\ \A i \in About(q, o, side) \ {1} : i - 1 \in About(Tail(q), o, side)
           /\ \A i \in About(Tail(q), o, side) :
                /\ i + 1 \in About(q, o, side) \ {1}
                /\ Tail(q)[i] = q[i + 1]
<1>1. /\ DOMAIN q = 1 .. Len(q) /\ DOMAIN Tail(q) = 1 .. Len(q) - 1
      /\ Len(q) \in Nat \ {0} /\ Tail(q) \in Seq(Messages)
      /\ \A i \in 1 .. Len(q) - 1 : Tail(q)[i] = q[i + 1]
      /\ Head(q) = q[1] /\ q[1] \in Messages
  OBVIOUS
<1>2. \A i \in DOMAIN q \ {1} : i - 1 \in 1 .. Len(q) - 1 /\ (i - 1) + 1 = i
  BY <1>1
<1>3. \A i \in 1 .. Len(q) - 1 : i + 1 \in DOMAIN q \ {1}
  BY <1>1
<1> QED BY <1>1, <1>2, <1>3 DEF About

-----------------------------------------------------------------------------
(* What a single step does to one option of one session.                   *)

\* What an offer at the end of a queue adds to it.
LEMMA OfferAbout ==
    ASSUME NEW q \in Seq(Messages), NEW o1, NEW s1 \in Sides, NEW yes \in BOOLEAN
    PROVE  LET r == q \o Offer(o1, s1, yes) IN
           /\ r \in Seq(Messages)
           /\ \A o, side :
                /\ \A i \in About(q, o, side) : r[i] = q[i]
                /\ About(r, o, side) =
                    IF o \in Options /\ o = o1 /\ side = s1
                    THEN About(q, o, side) \cup {Len(q) + 1}
                    ELSE About(q, o, side)
           /\ o1 \in Options => r[Len(q) + 1].yes = yes
<1> DEFINE r == q \o Offer(o1, s1, yes)
<1>1. CASE o1 \in Options
  <2> DEFINE m == Message(o1, s1, yes)
  <2>1. /\ m \in Messages /\ m.option = o1 /\ m.side = s1 /\ m.yes = yes
        /\ Offer(o1, s1, yes) = <<m>>
    BY <1>1 DEF Offer, Message, Messages
  <2> HIDE DEF m
  <2>2. /\ r \in Seq(Messages) /\ Len(q) \in Nat
        /\ DOMAIN q = 1 .. Len(q) /\ DOMAIN r = 1 .. Len(q) + 1
        /\ \A i \in DOMAIN q : r[i] = q[i]
        /\ r[Len(q) + 1] = m
    BY <2>1
  <2> HIDE DEF r
  <2>4. \A o, side : \A i :
            i \in About(r, o, side) <=>
                \/ i \in About(q, o, side)
                \/ i = Len(q) + 1 /\ o = o1 /\ side = s1
    <3> TAKE o, side, i
    <3>1. i \in DOMAIN r <=> i \in DOMAIN q \/ i = Len(q) + 1
      BY <2>2
    <3>2. i \in DOMAIN q => r[i] = q[i] /\ i # Len(q) + 1
      BY <2>2
    <3>3. i = Len(q) + 1 => r[i].option = o1 /\ r[i].side = s1
      BY <2>1, <2>2
    <3> HIDE DEF m
    <3> QED BY <3>1, <3>2, <3>3 DEF About
  <2>5. \A o, side : \A i \in About(q, o, side) : r[i] = q[i]
    BY <2>2 DEF About
  <2>6. \A o, side :
            About(r, o, side) = IF o \in Options /\ o = o1 /\ side = s1
                                THEN About(q, o, side) \cup {Len(q) + 1}
                                ELSE About(q, o, side)
    <3> TAKE o, side
    <3>1. CASE o = o1 /\ side = s1
      <4>1. \A i : i \in About(r, o, side) <=>
                        i \in About(q, o, side) \cup {Len(q) + 1}
        BY <2>4, <3>1
      <4> QED BY <1>1, <3>1, <4>1, Zenon
    <3>2. CASE ~(o = o1 /\ side = s1)
      <4>1. \A i : i \in About(r, o, side) <=> i \in About(q, o, side)
        BY <2>4, <3>2
      <4> QED BY <3>2, <4>1, Zenon
    <3> QED BY <3>1, <3>2
  <2> QED BY <2>1, <2>2, <2>5, <2>6 DEF r
<1>2. CASE o1 \notin Options
  <2>1. Offer(o1, s1, yes) = <<>>
    BY <1>2 DEF Offer
  <2>2. r = q
    BY <2>1, ConcatEmptySeq
  <2> QED BY <1>2, <2>2
<1> QED BY <1>1, <1>2

\* The opening has one message on each subject whose flag is set at first.
LEMMA OpeningAbout ==
    /\ telnet_init_seq \in Seq(Messages)
    /\ \A o, side : Covered(o, side) /\ telnet_cmds(o, side) =>
        \E i \in About(telnet_init_seq, o, side) :
            /\ \A j \in About(telnet_init_seq, o, side) : j = i
            /\ telnet_init_seq[i].yes
<1> DEFINE G == "SUPPRESS_GO_AHEAD" B == "BINARY_TRANSMISSION"
           q0 == <<>>
           q1 == q0 \o Offer(G, "him", TRUE)
           q2 == q1 \o Offer("ECHO", "him", TRUE)
           q3 == q2 \o Offer("ECHO", "us", FALSE)
           q4 == q3 \o Offer(B, "us", TRUE)
           Adds(q, r, o1, s1, yes) ==
               /\ r \in Seq(Messages)
               /\ \A o, side :
                    /\ \A i \in About(q, o, side) : r[i] = q[i]
                    /\ About(r, o, side) =
                        IF o \in Options /\ o = o1 /\ side = s1
                        THEN About(q, o, side) \cup {Len(q) + 1}
                        ELSE About(q, o, side)
               /\ o1 \in Options => r[Len(q) + 1].yes = yes
<1>1. q0 \in Seq(Messages) /\ \A o, side : About(q0, o, side) = {}
  BY DEF About
<1>2. \A o, side : Covered(o, side) /\ telnet_cmds(o, side) =>
        \/ o = G /\ side = "him"
        \/ o = "ECHO" /\ side = "him"
        \/ o = B /\ side = "us"
  BY DEF Covered, telnet_cmds, Sides
<1>3. "him" \in Sides /\ "us" \in Sides
  BY DEF Sides
<1>4. Adds(q0, q1, G, "him", TRUE)
  BY <1>1, <1>3, OfferAbout, Zenon
<1>5. Adds(q1, q2, "ECHO", "him", TRUE)
  BY <1>3, <1>4, OfferAbout, Zenon
<1>6. Adds(q2, q3, "ECHO", "us", FALSE)
  BY <1>3, <1>5, OfferAbout, Zenon
<1>7. Adds(q3, q4, B, "us", TRUE)
  BY <1>3, <1>6, OfferAbout, Zenon
<1>8. telnet_init_seq = q4
  <2>1. Offer(G, "him", TRUE) \in Seq(Messages)
    <3>1. CASE G \in Options
      BY <1>3, <3>1 DEF Offer, Message, Messages
    <3>2. CASE G \notin Options
      BY <3>2 DEF Offer
    <3> QED BY <3>1, <3>2
  <2>2. q1 = Offer(G, "him", TRUE)
    BY <2>1, ConcatEmptySeq
  <2> QED BY <2>2 DEF telnet_init_seq
<1> HIDE DEF q0, q1, q2, q3, q4
<1>9. ASSUME NEW o, NEW side, Covered(o, side), telnet_cmds(o, side)
      PROVE  \E i \in About(q4, o, side) :
                /\ \A j \in About(q4, o, side) : j = i
                /\ q4[i].yes
  <2>1. o \in Options /\ About(q0, o, side) = {}
    BY <1>1, <1>9 DEF Covered
  <2>2. CASE o = G /\ side = "him"
    <3>1. About(q1, o, side) = {Len(q0) + 1} /\ q1[Len(q0) + 1].yes
      BY <1>4, <2>1, <2>2
    <3>2. About(q2, o, side) = {Len(q0) + 1} /\ q2[Len(q0) + 1].yes
      BY <1>5, <2>2, <3>1
    <3>3. About(q3, o, side) = {Len(q0) + 1} /\ q3[Len(q0) + 1].yes
      BY <1>6, <2>2, <3>2
    <3>4. About(q4, o, side) = {Len(q0) + 1} /\ q4[Len(q0) + 1].yes
      BY <1>7, <2>2, <3>3
    <3> QED BY <3>4
  <2>3. CASE o = "ECHO" /\ side = "him"
    <3>1. About(q1, o, side) = {}
      BY <1>4, <2>1, <2>3
    <3>2. About(q2, o, side) = {Len(q1) + 1} /\ q2[Len(q1) + 1].yes
      BY <1>5, <2>1, <2>3, <3>1
    <3>3. About(q3, o, side) = {Len(q1) + 1} /\ q3[Len(q1) + 1].yes
      BY <1>6, <2>3, <3>2
    <3>4. About(q4, o, side) = {Len(q1) + 1} /\ q4[Len(q1) + 1].yes
      BY <1>7, <2>3, <3>3
    <3> QED BY <3>4
  <2>4. CASE o = B /\ side = "us"
    <3>1. About(q1, o, side) = {}
      BY <1>4, <2>1, <2>4
    <3>2. About(q2, o, side) = {}
      BY <1>5, <2>4, <3>1
    <3>3. About(q3, o, side) = {}
      BY <1>6, <2>4, <3>2
    <3>4. About(q4, o, side) = {Len(q3) + 1} /\ q4[Len(q3) + 1].yes
      BY <1>7, <2>1, <2>4, <3>3
    <3> QED BY <3>4
  <2> QED BY <1>2, <1>9, <2>2, <2>3, <2>4
<1> QED BY <1>7, <1>8, <1>9

\* The client reads a message.
LEMMA ClientReads ==
    ASSUME NEW p \in Seq(Messages), NEW q \in Seq(Messages), q # <<>>,
           NEW p2 \in Seq(Messages),
           NEW c \in States, NEW c2 \in States, NEW o, NEW side,
           NEW flag \in BOOLEAN, Pending(flag, p, q, c, o, side),
           About(p, o, side) \subseteq About(p2, o, side),
           LET m == Head(q) IN
           IF m.option = o /\ m.side = side
           THEN /\ ~Wants(c2)
                /\ c = "NO" /\ m.yes => About(p2, o, side) # {}
           ELSE c2 = c
    PROVE  Pending(flag, p2, Tail(q), c2, o, side)
<1> DEFINE r == Tail(q)
<1>1. /\ 1 \in DOMAIN q /\ q[1] = Head(q)
      /\ \A i \in About(q, o, side) \ {1} :
            i - 1 \in About(r, o, side) /\ r[i - 1] = q[i]
      /\ \A i \in About(r, o, side) : i + 1 \in About(q, o, side) \ {1}
      /\ About(q, o, side) \subseteq Nat /\ About(r, o, side) \subseteq Nat
  <2>1. About(q, o, side) \subseteq Nat /\ About(r, o, side) \subseteq Nat
    BY DEF About
  <2> QED BY <2>1, AboutTail DEF About
<1>2. CASE Head(q).option = o /\ Head(q).side = side
  <2>1. ~Wants(c2) /\ 1 \in About(q, o, side)
    BY <1>1, <1>2 DEF About
  <2>2. CASE ~flag
    BY <2>1, <2>2 DEF Pending, Settling
  <2>3. CASE flag
    <3>1. About(p2, o, side) # {}
      BY <1>1, <1>2, <2>1, <2>3 DEF Pending, Waiting
    <3> QED BY <2>1, <2>3, <3>1 DEF Pending, Waiting
  <2> QED BY <2>2, <2>3
<1>3. CASE ~(Head(q).option = o /\ Head(q).side = side)
  <2>1. c2 = c /\ 1 \notin About(q, o, side)
    BY <1>1, <1>3 DEF About
  <2>2. CASE ~flag
    BY <1>1, <2>1, <2>2 DEF Pending, Settling
  <2>3. CASE flag
    <3>1. CASE \E i \in About(q, o, side) :
                /\ \A j \in About(q, o, side) : j = i
                /\ q[i].yes
                /\ c = "NO" \/ (c = "WANTYES" /\ About(p, o, side) # {})
      <4>1. PICK i \in About(q, o, side) :
                /\ \A j \in About(q, o, side) : j = i
                /\ q[i].yes
                /\ c = "NO" \/ (c = "WANTYES" /\ About(p, o, side) # {})
        BY <3>1
      <4>2. i - 1 \in About(r, o, side) /\ r[i - 1].yes
        BY <1>1, <2>1, <4>1
      <4>3. \A j \in About(r, o, side) : j = i - 1
        BY <1>1, <2>1, <4>1
      <4>4. ASSUME NEW t, t = r PROVE Waiting(p2, t, c2, o, side)
        BY <2>1, <4>1, <4>2, <4>3, <4>4 DEF Waiting
      <4> QED BY <2>3, <4>4 DEF Pending
    <3>2. CASE \E i \in About(p, o, side) :
                Wants(c) => \E j \in About(p, o, side) : j # i
      BY <2>1, <2>3, <3>2 DEF Pending, Waiting
    <3> QED BY <2>3, <3>1, <3>2 DEF Pending, Waiting
  <2> QED BY <2>2, <2>3
<1> QED BY <1>2, <1>3

\* The port reads a message that it takes for the answer to its own request.
LEMMA PortClears ==
    ASSUME NEW p \in Seq(Messages), p # <<>>, NEW q \in Seq(Messages),
           NEW c \in States, NEW o, NEW side, Waiting(p, q, c, o, side)
    PROVE  Settling(Tail(p), q, c, o, side)
<1>1. \A i \in About(p, o, side) \ {1} : i - 1 \in About(Tail(p), o, side)
  BY AboutTail
<1> QED BY <1>1 DEF Waiting, Settling

\* The port reads a message about something else.
LEMMA PortPasses ==
    ASSUME NEW p \in Seq(Messages), p # <<>>, NEW q, NEW c, NEW flag,
           NEW o, NEW side, Pending(flag, p, q, c, o, side),
           ~(Head(p).option = o /\ Head(p).side = side)
    PROVE  Pending(flag, Tail(p), q, c, o, side)
<1>1. /\ 1 \notin About(p, o, side) /\ About(p, o, side) \subseteq Nat
      /\ \A i \in About(p, o, side) : i - 1 \in About(Tail(p), o, side)
  <2>1. About(p, o, side) \subseteq Nat
    BY DEF About
  <2> QED BY <2>1, AboutTail DEF About
<1>2. \A i, j \in About(p, o, side) : j # i => j - 1 # i - 1
  BY <1>1
<1>3. CASE ~flag
  BY <1>1, <1>3 DEF Pending, Settling
<1>4. CASE flag
  BY <1>1, <1>2, <1>4 DEF Pending, Waiting
<1> QED BY <1>3, <1>4

\* The port clears a flag, seen from a session whose queues stay.
LEMMA OthersClear ==
    ASSUME NEW p, NEW q, NEW c, NEW o, NEW side, Waiting(p, q, c, o, side)
    PROVE  Settling(p, q, c, o, side)
BY DEF Waiting, Settling

-----------------------------------------------------------------------------
(* The steps.                                                              *)

LEMMA InitInv == Init => Inv
<1> SUFFICES ASSUME Init PROVE Inv
  OBVIOUS
<1>1. Types
  BY DEF Init, Types, telnet_cmds, Sides, States
<1> QED BY <1>1 DEF Init, Inv, AllPending, Set

\* What a session's step leaves alone: the other sessions, and of its own the
\* other options and sides.
LEMMA OthersStay ==
    ASSUME Inv, NEW s \in Sessions, NEW t \in open, t # s, NEW o, NEW side,
           Covered(o, side),
           toPort'[t] = toPort[t], toClient'[t] = toClient[t],
           client'[t] = client[t],
           sent'[o][side] \in {sent[o][side], FALSE}
    PROVE  At(t, o, side)'
<1>1. At(t, o, side)
  BY DEF Inv, AllPending
<1>2. CASE sent'[o][side] = sent[o][side]
  BY <1>1, <1>2 DEF At
<1>3. CASE sent'[o][side] # sent[o][side]
  <2>1. sent[o][side] = TRUE /\ sent'[o][side] = FALSE
    BY <1>3 DEF Inv, Types, Covered
  <2>2. Settling(toPort[t], toClient[t], client[t][o][side], o, side)
    BY <1>1, <2>1, OthersClear DEF At, Pending
  <2> QED BY <2>1, <2>2 DEF At, Pending
<1> QED BY <1>2, <1>3

LEMMA OpenInv ==
    ASSUME Inv, NEW s \in Sessions, telnet_init(s) PROVE Inv'
<1>1. Types'
  BY OpeningAbout DEF Inv, Types, telnet_init, Inherited, States, Sides
<1>3. Set'
  BY DEF Inv, Set, telnet_init, Inherited
<1>2. ASSUME NEW t \in open', NEW o, NEW side, Covered(o, side)
      PROVE  At(t, o, side)'
  <2>1. CASE t # s
    BY <1>2, <2>1, OthersStay DEF Inv, Types, telnet_init, Inherited
  <2>2. CASE t = s
    <3>1. /\ toClient'[s] = telnet_init_seq /\ client'[s][o][side] = "NO"
          /\ sent' = sent
      BY <1>2 DEF Inv, Types, telnet_init, Inherited, Covered
    <3>2. sent[o][side] => telnet_cmds(o, side)
      BY <1>2 DEF Inv, Types, Set, Covered
    <3> QED BY <1>2, <2>2, <3>1, <3>2, OpeningAbout
            DEF At, Pending, Waiting, Settling, Wants
  <2> QED BY <2>1, <2>2
<1> QED BY <1>1, <1>2, <1>3 DEF Inv, AllPending

LEMMA CloseInv ==
    ASSUME Inv, NEW s \in Sessions, shutdown_port(s) PROVE Inv'
<1>1. Types'
  BY DEF Inv, Types, shutdown_port, Dropped
<1>3. Set'
  BY DEF Inv, Set, shutdown_port
<1>2. ASSUME NEW t \in open', NEW o, NEW side, Covered(o, side)
      PROVE  At(t, o, side)'
  BY <1>2, OthersStay DEF Inv, Types, shutdown_port, Dropped
<1> QED BY <1>1, <1>2, <1>3 DEF Inv, AllPending

LEMMA PortInv ==
    ASSUME Inv, NEW s \in Sessions, handle_telnet_cmd(s) PROVE Inv'
<1> DEFINE m == Head(toPort[s])
<1>1. /\ s \in open /\ toPort[s] # <<>> /\ toPort[s] \in Seq(Messages)
      /\ toClient[s] \in Seq(Messages) /\ m \in Messages
      /\ m.option \in Options /\ m.side \in Sides
      /\ Tail(toPort[s]) \in Seq(Messages)
      /\ toPort' = [toPort EXCEPT ![s] = Tail(@)]
      /\ UNCHANGED <<open, client>>
  BY AboutTail DEF Inv, Types, handle_telnet_cmd, Messages
<1> DEFINE a == Message(m.option, m.side, Answer(s, m))
<1>2. CASE sent[m.option][m.side]
  <2>1. /\ sent' = [sent EXCEPT ![m.option][m.side] = FALSE]
        /\ UNCHANGED toClient
    BY <1>2 DEF handle_telnet_cmd
  <2>2. Types' /\ Set'
    BY <1>1, <2>1 DEF Inv, Types, Set
  <2>3. ASSUME NEW t \in open, NEW o, NEW side, Covered(o, side)
        PROVE  At(t, o, side)'
    <3>1. CASE t # s
      <4>1. sent'[o][side] \in {sent[o][side], FALSE}
        BY <1>1, <2>1, <2>3 DEF Inv, Types, Covered
      <4> QED BY <1>1, <2>1, <2>3, <3>1, <4>1, OthersStay DEF Inv, Types
    <3>2. CASE t = s /\ m.option = o /\ m.side = side
      <4>1. Waiting(toPort[s], toClient[s], client[s][o][side], o, side)
        BY <1>2, <2>3, <3>2 DEF Inv, AllPending, At, Pending
      <4>2. Settling(Tail(toPort[s]), toClient[s], client[s][o][side], o, side)
        BY <1>1, <2>3, <4>1, PortClears DEF Inv, Types, Covered
      <4>3. ~sent'[o][side] /\ toPort'[s] = Tail(toPort[s])
        BY <1>1, <2>1, <3>2 DEF Inv, Types
      <4> QED BY <1>1, <2>1, <3>2, <4>2, <4>3 DEF At, Pending
    <3>3. CASE t = s /\ ~(m.option = o /\ m.side = side)
      <4>1. Pending(sent[o][side], toPort[s], toClient[s], client[s][o][side],
                    o, side)
        BY <2>3, <3>3 DEF Inv, AllPending, At
      <4>2. sent'[o][side] = sent[o][side] /\ toPort'[s] = Tail(toPort[s])
        BY <1>1, <2>1, <2>3, <3>3 DEF Inv, Types, Covered
      <4>3. Pending(sent[o][side], Tail(toPort[s]), toClient[s],
                    client[s][o][side], o, side)
        BY <1>1, <3>3, <4>1, PortPasses
      <4> QED BY <1>1, <2>1, <3>3, <4>2, <4>3 DEF At
    <3> QED BY <3>1, <3>2, <3>3
  <2> QED BY <1>1, <2>2, <2>3 DEF Inv, AllPending
<1>3. CASE ~sent[m.option][m.side]
  <2>1. /\ toClient' = [toClient EXCEPT ![s] = Append(@, a)]
        /\ UNCHANGED sent
        /\ a \in Messages /\ a.option = m.option /\ a.side = m.side
    <3>1. Answer(s, m) \in BOOLEAN
      BY <1>1 DEF Answer, Messages, Agrees, Sides
    <3> QED BY <1>1, <1>3, <3>1 DEF handle_telnet_cmd, Messages, Message
  <2> HIDE DEF a
  <2>2. Types' /\ Set'
    BY <1>1, <2>1 DEF Inv, Types, Set
  <2>3. ASSUME NEW t \in open, NEW o, NEW side, Covered(o, side)
        PROVE  At(t, o, side)'
    <3>1. CASE t # s
      BY <1>1, <2>1, <2>3, <3>1, OthersStay DEF Inv, Types
    <3>2. CASE t = s
      <4>1. Pending(sent[o][side], toPort[s], toClient[s], client[s][o][side],
                    o, side)
        BY <2>3, <3>2 DEF Inv, AllPending, At
      <4>2. /\ toPort'[s] = Tail(toPort[s])
            /\ toClient'[s] = Append(toClient[s], a)
        BY <1>1, <2>1 DEF Inv, Types
      <4>3. CASE m.option = o /\ m.side = side
        <5>1. About(Append(toClient[s], a), o, side) # {}
          BY <1>1, <2>1, <4>3, AboutAppend
        <5> QED BY <1>1, <1>3, <2>1, <3>2, <4>2, <4>3, <5>1
                DEF At, Pending, Settling
      <4>4. CASE ~(m.option = o /\ m.side = side)
        <5>1. /\ About(Append(toClient[s], a), o, side) = About(toClient[s], o, side)
              /\ \A i \in About(toClient[s], o, side) :
                    Append(toClient[s], a)[i] = toClient[s][i]
          BY <1>1, <2>1, <4>4, AboutAppend DEF About
        <5>2. Pending(sent[o][side], Tail(toPort[s]), toClient[s],
                      client[s][o][side], o, side)
          BY <1>1, <4>1, <4>4, PortPasses
        <5>3. Pending(sent[o][side], Tail(toPort[s]), Append(toClient[s], a),
                      client[s][o][side], o, side)
          BY <5>1, <5>2 DEF Pending, Waiting, Settling
        <5> QED BY <1>1, <2>1, <3>2, <4>2, <5>3 DEF At
      <4> QED BY <4>3, <4>4
    <3> QED BY <3>1, <3>2
  <2> QED BY <1>1, <2>2, <2>3 DEF Inv, AllPending
<1> QED BY <1>2, <1>3

LEMMA ClientInv ==
    ASSUME Inv, NEW s \in Sessions, ClientReceives(s) PROVE Inv'
<1> DEFINE m == Head(toClient[s])
           was == client[s][m.option][m.side]
<1>1. /\ s \in open /\ toClient[s] # <<>> /\ toClient[s] \in Seq(Messages)
      /\ toPort[s] \in Seq(Messages) /\ m \in Messages
      /\ m.option \in Options /\ m.side \in Sides /\ m.yes \in BOOLEAN
      /\ Tail(toClient[s]) \in Seq(Messages)
      /\ toClient' = [toClient EXCEPT ![s] = Tail(@)]
      /\ UNCHANGED <<open, sent>>
  BY AboutTail DEF Inv, Types, ClientReceives, Messages
<1>2. PICK to \in {"NO", "YES"}, answers \in BOOLEAN, yes \in BOOLEAN :
        /\ client' = [client EXCEPT ![s][m.option][m.side] = to]
        /\ toPort' = IF answers
                     THEN [toPort EXCEPT ![s] =
                             Append(@, Message(m.option, m.side, yes))]
                     ELSE toPort
        /\ was = "NO" /\ m.yes => answers
  BY <1>1 DEF ClientReceives
<1> DEFINE a == Message(m.option, m.side, yes)
<1>3. a \in Messages /\ a.option = m.option /\ a.side = m.side
  BY <1>1, <1>2 DEF Messages, Message
<1> HIDE DEF a
<1>4. Types' /\ Set'
  <2>1. to \in States
    BY <1>2 DEF States
  <2> QED BY <1>1, <1>2, <1>3, <2>1 DEF Inv, Types, Set, a
<1>5. ASSUME NEW t \in open, NEW o, NEW side, Covered(o, side)
      PROVE  At(t, o, side)'
  <2>1. CASE t # s
    BY <1>1, <1>2, <1>5, <2>1, OthersStay DEF Inv, Types
  <2>2. CASE t = s
    <3>1. /\ toClient'[s] = Tail(toClient[s])
          /\ toPort'[s] \in Seq(Messages)
          /\ answers => toPort'[s] = Append(toPort[s], a)
          /\ ~answers => toPort'[s] = toPort[s]
      BY <1>1, <1>2, <1>4 DEF Inv, Types, a
    <3>2. About(toPort[s], o, side) \subseteq About(toPort'[s], o, side)
      <4>1. CASE answers
        <5>1. About(toPort[s], o, side) \subseteq About(Append(toPort[s], a), o, side)
          BY <1>1, <1>3, AboutAppend
        <5> QED BY <3>1, <4>1, <5>1
      <4>2. CASE ~answers
        BY <3>1, <4>2
      <4> QED BY <4>1, <4>2
    <3>3. m.option = o /\ m.side = side /\ answers =>
                About(toPort'[s], o, side) # {}
      <4>1. m.option = o /\ m.side = side =>
                About(Append(toPort[s], a), o, side) # {}
        <5>1. ASSUME a.option = o, a.side = side
              PROVE  Len(toPort[s]) + 1 \in About(Append(toPort[s], a), o, side)
          BY <1>1, <1>3, <5>1, AboutAppend
        <5> QED BY <1>3, <5>1
      <4> QED BY <3>1, <4>1
    <3>4. /\ client'[s][o][side] = IF m.option = o /\ m.side = side THEN to
                                   ELSE client[s][o][side]
          /\ client[s][o][side] \in States /\ client'[s][o][side] \in States
          /\ sent[o][side] \in BOOLEAN
      BY <1>1, <1>2, <1>4, <1>5 DEF Inv, Types, Covered
    <3>5. Pending(sent[o][side], toPort[s], toClient[s], client[s][o][side],
                  o, side)
      BY <1>5, <2>2 DEF Inv, AllPending, At
    <3>6. IF m.option = o /\ m.side = side
          THEN /\ ~Wants(client'[s][o][side])
               /\ client[s][o][side] = "NO" /\ m.yes =>
                    About(toPort'[s], o, side) # {}
          ELSE client'[s][o][side] = client[s][o][side]
      BY <1>2, <3>3, <3>4 DEF Wants
    <3>7. Pending(sent[o][side], toPort'[s], Tail(toClient[s]),
                  client'[s][o][side], o, side)
      <4> HIDE DEF m
      <4>1. ASSUME NEW p2, p2 = toPort'[s], NEW c2, c2 = client'[s][o][side]
            PROVE  Pending(sent[o][side], p2, Tail(toClient[s]), c2, o, side)
        BY <1>1, <3>1, <3>2, <3>4, <3>5, <3>6, <4>1, ClientReads DEF m
      <4> QED BY <4>1
    <3> QED BY <1>1, <2>2, <3>1, <3>7 DEF At
  <2> QED BY <2>1, <2>2
<1> QED BY <1>1, <1>4, <1>5 DEF Inv, AllPending

LEMMA AskInv ==
    ASSUME Inv, NEW s \in Sessions, NEW o1 \in Options, NEW s1 \in Sides,
           ClientAsks(s, o1, s1)
    PROVE  Inv'
<1> DEFINE was == client[s][o1][s1]
           a == Message(o1, s1, was = "NO")
           to == IF was = "NO" THEN "WANTYES" ELSE "WANTNO"
<1>1. /\ s \in open /\ was \in {"NO", "YES"}
      /\ toPort[s] \in Seq(Messages)
      /\ client' = [client EXCEPT ![s][o1][s1] = to]
      /\ toPort' = [toPort EXCEPT ![s] = Append(@, a)]
      /\ UNCHANGED <<open, sent, toClient>>
  BY DEF ClientAsks, Inv, Types
<1>2. a \in Messages /\ a.option = o1 /\ a.side = s1
  BY DEF Messages, Message
<1> HIDE DEF a
<1>3. Types' /\ Set'
  <2>1. to \in States
    BY DEF States
  <2> QED BY <1>1, <1>2, <2>1 DEF Inv, Types, Set
<1>4. ASSUME NEW t \in open, NEW o, NEW side, Covered(o, side)
      PROVE  At(t, o, side)'
  <2>1. CASE t # s
    BY <1>1, <1>4, <2>1, OthersStay DEF Inv, Types
  <2>2. CASE t = s
    <3> DEFINE p == toPort[s] q == toClient[s] c == client[s][o][side]
               c2 == client'[s][o][side]
    <3>1. Pending(sent[o][side], p, q, c, o, side)
      BY <1>4, <2>2 DEF Inv, AllPending, At
    <3>2. /\ About(p, o, side) \subseteq About(Append(p, a), o, side)
          /\ Len(p) + 1 \notin About(p, o, side)
          /\ o = o1 /\ side = s1 =>
                Len(p) + 1 \in About(Append(p, a), o, side)
      BY <1>1, <1>2, AboutAppend DEF About
    <3>3. c2 = IF o = o1 /\ side = s1 THEN to ELSE c
      BY <1>1, <1>4 DEF Inv, Types, Covered
    <3>4. /\ toPort'[s] = Append(p, a) /\ toClient'[s] = q
          /\ sent'[o][side] = sent[o][side]
      BY <1>1 DEF Inv, Types
    <3>5. CASE ~(o = o1 /\ side = s1)
      <4>1. About(Append(p, a), o, side) = About(p, o, side) /\ c2 = c
        BY <1>1, <1>2, <3>3, <3>5, AboutAppend
      <4>2. Pending(sent[o][side], Append(p, a), q, c2, o, side)
        <5> HIDE DEF p, q, c, c2
        <5> QED BY <3>1, <4>1 DEF Pending, Waiting, Settling
      <4> QED BY <2>2, <3>4, <4>2 DEF At
    <3>6. CASE o = o1 /\ side = s1
      <4>1. /\ c \in {"NO", "YES"} /\ c = "NO" => c2 = "WANTYES"
        BY <1>1, <3>3, <3>6
      <4>2. CASE ~sent[o][side]
        <5>1. Settling(Append(p, a), q, c2, o, side)
          BY <3>2, <3>6 DEF Settling
        <5> QED BY <2>2, <3>4, <4>2, <5>1 DEF At, Pending
      <4>3. CASE sent[o][side]
        <5>1. Waiting(p, q, c, o, side)
          BY <3>1, <4>3 DEF Pending
        <5>2. Waiting(Append(p, a), q, c2, o, side)
          <6> HIDE DEF p, q, c, c2
          <6> QED BY <3>2, <3>6, <4>1, <5>1 DEF Waiting
        <5> QED BY <2>2, <3>4, <4>3, <5>2 DEF At, Pending
      <4> QED BY <4>2, <4>3
    <3> QED BY <3>5, <3>6
  <2> QED BY <2>1, <2>2
<1> QED BY <1>1, <1>3, <1>4 DEF Inv, AllPending

-----------------------------------------------------------------------------
(* The theorem.                                                            *)

LEMMA StepInv == Inv /\ [Next]_vars => Inv'
<1> SUFFICES ASSUME Inv, [Next]_vars PROVE Inv'
  OBVIOUS
<1>1. CASE UNCHANGED vars
  BY <1>1 DEF vars, Inv, Types, Set, AllPending, At
<1>2. CASE Next
  BY <1>2, OpenInv, CloseInv, PortInv, ClientInv, AskInv DEF Next
<1> QED BY <1>1, <1>2

LEMMA InvAnswered == Inv => Answered
<1> SUFFICES ASSUME Inv, NEW s \in open, Quiet(s),
                    NEW o \in Options, NEW side \in Sides,
                    <<o, side>> # <<"ECHO", "us">>
             PROVE  client[s][o][side] \in {"NO", "YES"}
  BY DEF Answered
<1>1. About(toPort[s], o, side) = {} /\ About(toClient[s], o, side) = {}
  BY DEF Quiet, About
<1>2. At(s, o, side)
  BY DEF Inv, AllPending, Covered
<1>3. ~Wants(client[s][o][side])
  BY <1>1, <1>2 DEF At, Pending, Waiting, Settling
<1>4. client[s][o][side] \in States
  BY DEF Inv, Types
<1> QED BY <1>3, <1>4 DEF Wants, States

\* However many sessions of however many ports share the flags of telnet_cmds,
\* a client that has asked for a change has its answer when nothing is on its
\* way (handle_telnet_cmd).
THEOREM AnsweredThm == Spec => []Answered
<1>1. Spec => []Inv
  BY InitInv, StepInv, PTL DEF Spec
<1> QED BY <1>1, InvAnswered, PTL
=============================================================================
