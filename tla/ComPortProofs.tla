---------------------------- MODULE ComPortProofs ----------------------------
(***************************************************************************)
(* Proofs about module ComPort, for any ports, settings, requests and room *)
(* for answers: what a client was last answered is what the table shows,   *)
(* and what its device is set to unless that refused a value nobody reads  *)
(* back, and the last report brings it to the status server.               *)
(***************************************************************************)
EXTENDS ComPort, SequenceTheorems, NaturalsInduction, WellFoundedInduction, TLAPS

\* The answers on subject w that are the last one: the last of those in q, or
\* the one read before if there is none in q.
LastIn(q, w) ==
    {i \in DOMAIN q : q[i].what = w /\ \A j \in DOMAIN q : q[j].what = w => j <= i}
Answers(q, w, before) ==
    {q[i].value : i \in LastIn(q, w)}
        \cup {v \in {before} : \A i \in DOMAIN q : q[i].what # w}

Devices == [set : [Settings -> Nat], flow : SUBSET {"CRTSCTS", "IXON", "IXOFF"},
            break : BOOLEAN, raised : SUBSET {"DTR", "RTS"}]
Frames == [slot : Slots, set : [Settings -> Nat]]

\* The parts of TypeOK that are sets of functions, and the other variables.
Types ==
    /\ TypeOK
    /\ up \in [Ports -> Seq(Asks)] /\ out \in [Ports -> Seq(Messages)]
    /\ modemstate_mask \in [Ports -> SUBSET ModemLines]
    /\ lines \in [Ports -> SUBSET ModemLines]
    /\ dev \in [Ports -> Devices]
    /\ frames \in Seq(Frames)
    /\ told \in [Ports -> [Subjects -> Nat]]
    /\ unreported \in [Ports -> SUBSET Settings]
    /\ refused \in [Ports -> SUBSET Subjects]

\* A port without a session has told nobody anything.
Idle ==
    \A p \in Ports \ open :
        out[p] = <<>> /\ told[p] = [w \in Subjects |-> None]

\* Answer v on subject w is what the table shows, and what the device is set to
\* unless it refused a value that is not read back.
True(p, w, v) ==
    v # None =>
        /\ w \notin refused[p] \cap Unverified => v = Reads(dev[p], w)
        /\ w \in Settings /\ Alone(p) => gport_stat[Slot(p)][w] = Code(w, v)
Answered(p) ==
    ~error[p] => \A w \in Subjects \ {"inflow"} :
        \A v \in Answers(out[p], w, told[p][w]) : True(p, w, v)
Agree == \A p \in open : Answered(p)

\* The last frame about entry s, if one is on its way, else the status server's
\* entry, has setting w as the table has it.
LastFrames(f, s) ==
    {i \in DOMAIN f : f[i].slot = s /\ \A j \in DOMAIN f : f[j].slot = s => j <= i}
Shown(f, table, s, w, v) ==
    /\ \A i \in LastFrames(f, s) : f[i].set[w] = v
    /\ (\A i \in DOMAIN f : f[i].slot # s) => table[s][w] = v
Reported(p) ==
    p \in 3000 .. 3007 /\ Alone(p) =>
        \A w \in Settings \ unreported[p] :
            Shown(frames, served, Slot(p), w, gport_stat[Slot(p)][w])
Reports == \A p \in open : Reported(p)

Inv == Types /\ Idle /\ Agree /\ Reports

-----------------------------------------------------------------------------
(* Queues of answers and of frames.                                        *)

LEMMA Strings ==
    /\ "modemstate" \notin Subjects /\ "mask" \notin Subjects
    /\ "do" \notin Subjects /\ "dont" \notin Subjects
    /\ Settings \subseteq Subjects \ {"inflow"}
    /\ "will" \notin Subjects /\ "wont" \notin Subjects
BY SettingsAssumption DEF Subjects

\* A nonempty set of places has a last one.
LEMMA LastPlace ==
    ASSUME NEW n \in Nat, NEW F, F \subseteq 1 .. n, F # {}
    PROVE  \E f \in F : \A g \in F : g <= f
<1> DEFINE G == {n - f : f \in F}
<1>1. G \subseteq Nat /\ G # {}
  <2>1. \A f \in F : n - f \in Nat
    OBVIOUS
  <2> QED BY <2>1
<1>2. PICK m \in G : \A g \in G : <<g, m>> \notin OpToRel(<, Nat)
  BY <1>1, WFMin, NatLessThanWellFounded
<1>3. \A g \in G : ~ (g < m)
  BY <1>1, <1>2 DEF OpToRel
<1>4. PICK f \in F : m = n - f
  BY <1>2
<1>5. \A g \in F : n - g \in G
  OBVIOUS
<1> HIDE DEF G
<1>6. ASSUME NEW g \in F PROVE g <= f
  <2>1. ~ (n - g < n - f)
    BY <1>3, <1>4, <1>5
  <2> QED BY <2>1
<1> QED BY <1>6

\* The last answer, as the properties name it, is one of Answers.
LEMMA ToldAnswers ==
    ASSUME Types, NEW p \in Ports, NEW w \in Subjects
    PROVE  Told(p, w) \in Answers(out[p], w, told[p][w])
<1> DEFINE q == out[p]
           on == {i \in DOMAIN q : q[i].what = w}
           last == CHOOSE i \in on : \A j \in on : j <= i
<1>1. Len(q) \in Nat /\ DOMAIN q = 1 .. Len(q)
  BY DEF Types
<1>2. CASE on = {}
  <2>1. Told(p, w) = told[p][w]
    BY <1>2 DEF Told
  <2> QED BY <1>2, <2>1 DEF Answers
<1>3. CASE on # {}
  <2>1. \E i \in on : \A j \in on : j <= i
    BY <1>1, <1>3, LastPlace
  <2>2. last \in on /\ \A j \in on : j <= last
    BY <2>1
  <2>3. Told(p, w) = q[last].value
    BY <1>3 DEF Told
  <2>4. last \in LastIn(q, w)
    BY <2>2 DEF LastIn
  <2> QED BY <2>3, <2>4 DEF Answers
<1> QED BY <1>2, <1>3

\* Messages about other things change nothing.
LEMMA AnswersSent ==
    ASSUME NEW q \in Seq(Messages), NEW ms \in Seq(Messages), NEW w, NEW before,
           \A i \in DOMAIN ms : ms[i].what # w
    PROVE  Answers(q \o ms, w, before) \subseteq Answers(q, w, before)
<1> DEFINE r == q \o ms
<1>1. /\ r \in Seq(Messages) /\ Len(r) = Len(q) + Len(ms)
      /\ Len(q) \in Nat /\ Len(ms) \in Nat
      /\ DOMAIN q = 1 .. Len(q) /\ DOMAIN ms = 1 .. Len(ms)
      /\ DOMAIN r = 1 .. Len(q) + Len(ms)
      /\ \A i \in DOMAIN q : r[i] = q[i]
      /\ \A i \in DOMAIN ms : r[Len(q) + i] = ms[i]
  BY ConcatProperties, LenProperties
<1> HIDE DEF r
<1>2. \A i \in DOMAIN r : r[i].what = w => i \in DOMAIN q
  <2> TAKE i \in DOMAIN r
  <2>1. i \in DOMAIN q \/ (i - Len(q) \in DOMAIN ms /\ r[i] = ms[i - Len(q)])
    BY <1>1
  <2> QED BY <2>1
<1>3. DOMAIN q \subseteq DOMAIN r
  BY <1>1
<1>4. LastIn(r, w) \subseteq LastIn(q, w)
  BY <1>1, <1>2, <1>3 DEF LastIn
<1>5. \A i \in LastIn(r, w) : r[i] = q[i]
  BY <1>1, <1>2 DEF LastIn
<1>6. (\A i \in DOMAIN r : r[i].what # w) => \A i \in DOMAIN q : q[i].what # w
  BY <1>1, <1>3
<1>7. Answers(r, w, before) \subseteq Answers(q, w, before)
  BY <1>4, <1>5, <1>6 DEF Answers
<1> QED BY <1>7 DEF r

\* An answer becomes the last one on its subject.
LEMMA AnswerSent ==
    ASSUME NEW q \in Seq(Messages), NEW m \in Messages, NEW before
    PROVE  Answers(q \o <<m>>, m.what, before) = {m.value}
<1> DEFINE r == q \o <<m>>
           w == m.what
<1>1. /\ Len(q) \in Nat /\ DOMAIN r = 1 .. Len(q) + 1 /\ r[Len(q) + 1] = m
  OBVIOUS
<1> HIDE DEF r
<1>2. Len(q) + 1 \in DOMAIN r /\ \A i \in DOMAIN r : i <= Len(q) + 1
  BY <1>1
<1>3. Len(q) + 1 \in LastIn(r, w)
  BY <1>1, <1>2 DEF LastIn
<1>4. \A i \in LastIn(r, w) : Len(q) + 1 <= i /\ i \in DOMAIN r
  BY <1>1, <1>2 DEF LastIn
<1>5. LastIn(r, w) = {Len(q) + 1}
  BY <1>1, <1>2, <1>3, <1>4
<1>6. Answers(r, w, before) = {m.value}
  BY <1>1, <1>2, <1>5 DEF Answers
<1> QED BY <1>6 DEF r

\* What a client reads is what it was told before anything later.
LEMMA AnswersRead ==
    ASSUME NEW q \in Seq(Messages), q # <<>>, NEW w, NEW before
    PROVE  Answers(Tail(q), w,
                   IF Head(q).what = w THEN Head(q).value ELSE before)
                \subseteq Answers(q, w, before)
<1> DEFINE r == Tail(q)
           now == IF Head(q).what = w THEN Head(q).value ELSE before
<1>1. /\ r \in Seq(Messages) /\ Len(r) = Len(q) - 1 /\ Len(q) \in Nat \ {0}
      /\ DOMAIN q = 1 .. Len(q) /\ DOMAIN r = 1 .. Len(q) - 1
      /\ \A i \in DOMAIN r : i + 1 \in DOMAIN q /\ r[i] = q[i + 1]
      /\ Head(q) = q[1] /\ 1 \in DOMAIN q
  BY HeadTailProperties, LenProperties, EmptySeq
<1> HIDE DEF r
<1>2. \A j \in DOMAIN q : j = 1 \/ (j - 1 \in DOMAIN r /\ q[j] = r[j - 1])
  BY <1>1
<1>3. \A i \in LastIn(r, w) : i + 1 \in LastIn(q, w)
  <2> TAKE i \in LastIn(r, w)
  <2>1. i \in DOMAIN r /\ r[i].what = w /\ \A j \in DOMAIN r : r[j].what = w => j <= i
    BY DEF LastIn
  <2>2. \A j \in DOMAIN q : q[j].what = w => j <= i + 1
    BY <1>1, <1>2, <2>1
  <2> QED BY <1>1, <2>1, <2>2 DEF LastIn
<1>4. ASSUME \A i \in DOMAIN r : r[i].what # w
      PROVE  now \in Answers(q, w, before)
  <2>1. CASE Head(q).what = w
    <3>1. \A j \in DOMAIN q : q[j].what = w => j = 1
      BY <1>2, <1>4
    <3>2. 1 \in LastIn(q, w)
      BY <1>1, <2>1, <3>1 DEF LastIn
    <3> QED BY <1>1, <2>1, <3>2 DEF Answers
  <2>2. CASE Head(q).what # w
    <3>1. \A j \in DOMAIN q : q[j].what # w
      BY <1>1, <1>2, <1>4, <2>2
    <3> QED BY <2>2, <3>1 DEF Answers
  <2> QED BY <2>1, <2>2
<1>5. \A i \in LastIn(r, w) : r[i].value \in Answers(q, w, before)
  <2> TAKE i \in LastIn(r, w)
  <2>1. r[i] = q[i + 1]
    BY <1>1 DEF LastIn
  <2> QED BY <1>3, <2>1 DEF Answers
<1>6. ASSUME NEW v \in Answers(r, w, now) PROVE v \in Answers(q, w, before)
  BY <1>4, <1>5, <1>6 DEF Answers
<1> QED BY <1>6 DEF r

\* A frame sent is the last one about its entry.
LEMMA ShownSent ==
    ASSUME NEW f \in Seq(Frames), NEW a \in Frames, NEW table,
           NEW s, NEW w, NEW v
    PROVE  LET g == Append(f, a) IN
           /\ a.slot = s /\ a.set[w] = v => Shown(g, table, s, w, v)
           /\ a.slot # s /\ Shown(f, table, s, w, v) => Shown(g, table, s, w, v)
<1> DEFINE g == Append(f, a)
<1>1. /\ Len(f) \in Nat /\ DOMAIN f = 1 .. Len(f) /\ DOMAIN g = 1 .. Len(f) + 1
      /\ g[Len(f) + 1] = a /\ \A i \in DOMAIN f : g[i] = f[i]
  OBVIOUS
<1> HIDE DEF g
<1>2. ASSUME a.slot = s, a.set[w] = v PROVE Shown(g, table, s, w, v)
  <2>1. Len(f) + 1 \in DOMAIN g
    BY <1>1
  <2>2. \A i \in LastFrames(g, s) : i = Len(f) + 1
    <3>1. \A i \in LastFrames(g, s) : Len(f) + 1 <= i /\ i \in DOMAIN g
      BY <1>1, <1>2, <2>1 DEF LastFrames
    <3> QED BY <1>1, <3>1
  <2> QED BY <1>1, <1>2, <2>1, <2>2 DEF Shown
<1>3. ASSUME a.slot # s, Shown(f, table, s, w, v) PROVE Shown(g, table, s, w, v)
  <2>1. \A i \in DOMAIN g : g[i].slot = s => i \in DOMAIN f
    BY <1>1, <1>3
  <2>2. DOMAIN f \subseteq DOMAIN g
    BY <1>1
  <2>3. LastFrames(g, s) \subseteq LastFrames(f, s)
    BY <1>1, <2>1, <2>2 DEF LastFrames
  <2>4. \A i \in LastFrames(g, s) : g[i] = f[i]
    BY <1>1, <2>1 DEF LastFrames
  <2> QED BY <1>1, <1>3, <2>2, <2>3, <2>4 DEF Shown
<1> QED BY <1>2, <1>3 DEF g

\* A frame taken from the queue: the rest is as before, and if it was the last
\* one about its entry, the entry is what it says or unknown.
Taken(f, a, g) == f # <<>> /\ a = Head(f) /\ g = Tail(f)
LEMMA ShownTaken ==
    ASSUME NEW f \in Seq(Frames), NEW a, NEW g, Taken(f, a, g),
           NEW table, NEW s, NEW w, NEW v, Shown(f, table, s, w, v)
    PROVE  /\ \A i \in LastFrames(g, s) : g[i].set[w] = v
           /\ (\A i \in DOMAIN g : g[i].slot # s) =>
                (a.slot = s => a.set[w] = v) /\ (a.slot # s => table[s][w] = v)
<1>1. /\ Len(f) \in Nat \ {0}
      /\ DOMAIN f = 1 .. Len(f) /\ DOMAIN g = 1 .. Len(f) - 1
      /\ \A i \in DOMAIN g : i + 1 \in DOMAIN f /\ g[i] = f[i + 1]
      /\ a = f[1] /\ 1 \in DOMAIN f
  BY HeadTailProperties, LenProperties, EmptySeq DEF Taken
<1>2. \A j \in DOMAIN f : j = 1 \/ (j - 1 \in DOMAIN g /\ f[j] = g[j - 1])
  BY <1>1
<1>3. \A i \in LastFrames(g, s) : g[i].set[w] = v
  <2> TAKE i \in LastFrames(g, s)
  <2>1. i \in DOMAIN g /\ g[i].slot = s /\ \A j \in DOMAIN g : g[j].slot = s => j <= i
    BY DEF LastFrames
  <2>2. \A j \in DOMAIN f : f[j].slot = s => j <= i + 1
    BY <1>1, <1>2, <2>1
  <2>3. i + 1 \in LastFrames(f, s) /\ f[i + 1] = g[i]
    BY <1>1, <2>1, <2>2 DEF LastFrames
  <2> QED BY <2>3 DEF Shown
<1>4. ASSUME \A i \in DOMAIN g : g[i].slot # s
      PROVE  (a.slot = s => a.set[w] = v) /\ (a.slot # s => table[s][w] = v)
  <2>1. \A j \in DOMAIN f : f[j].slot = s => j = 1
    BY <1>2, <1>4
  <2>2. CASE a.slot = s
    <3>1. 1 \in LastFrames(f, s)
      BY <1>1, <2>1, <2>2 DEF LastFrames
    <3> QED BY <1>1, <2>2, <3>1 DEF Shown
  <2>3. CASE a.slot # s
    <3>1. \A j \in DOMAIN f : f[j].slot # s
      BY <1>1, <2>1, <2>3
    <3> QED BY <2>3, <3>1 DEF Shown
  <2> QED BY <2>2, <2>3
<1> QED BY <1>3, <1>4

-----------------------------------------------------------------------------
(* The device and the table.                                               *)

LEMMA ValidNat ==
    \A w \in Settings : Valid(w) \subseteq Nat
BY SettingsAssumption DEF Valid, Rates

LEMMA SlotType ==
    \A p \in Ports :
        /\ Slot(p) \in Slots /\ myport2sn(p) \in Slots /\ p \in Nat /\ p # None
        /\ p \in 3000 .. 3007 => myport2sn(p) = Slot(p)
<1> TAKE p \in Ports
<1>1. p \in Nat /\ p # None
  BY PortsAssumption
<1>2. Slot(p) \in Slots /\ myport2sn(p) \in Slots
  BY <1>1 DEF Slot, Slots, myport2sn
<1>3. p \in 3000 .. 3007 => myport2sn(p) = Slot(p)
  BY <1>1 DEF Slot, myport2sn
<1> QED BY <1>1, <1>2, <1>3

\* A device keeps its type, and a request changes what it says on the subject of
\* the request only, but for the inbound flow control.
LEMMA TakesFacts ==
    ASSUME NEW d \in Devices, \A w \in Settings : d.set[w] \in Valid(w),
           NEW what \in Subjects, NEW v \in Nat
    PROVE  LET e == Takes(d, what, v) IN
           /\ e \in Devices /\ \A w \in Settings : e.set[w] \in Valid(w)
           /\ \A w \in Subjects \ {what, "inflow"} : Reads(e, w) = Reads(d, w)
           /\ \A w \in Settings \ {what} : e.set[w] = d.set[w]
           /\ \A w \in Subjects : Reads(e, w) \in Nat
<1> DEFINE e == Takes(d, what, v)
<1>0. /\ \A w \in Settings : Valid(w) \subseteq Nat
      /\ Settings \subseteq {"baud", "datasize", "parity", "stopsize"}
      /\ d.set \in [Settings -> Nat] /\ d.break \in BOOLEAN
      /\ d.flow \subseteq {"CRTSCTS", "IXON", "IXOFF"}
      /\ d.raised \subseteq {"DTR", "RTS"}
  BY ValidNat, SettingsAssumption DEF Devices
<1>1. /\ e \in Devices
      /\ \A w \in Settings : e.set[w] \in Valid(w)
      /\ \A w \in Settings \ {what} : e.set[w] = d.set[w]
      /\ what # "outflow" => Outbound(e.flow) = Outbound(d.flow)
      /\ what # "break" => e.break = d.break
      /\ what # "dtr" => ("DTR" \in e.raised <=> "DTR" \in d.raised)
      /\ what # "rts" => ("RTS" \in e.raised <=> "RTS" \in d.raised)
  <2>1. CASE what \in Settings
    <3>1. e = IF v \in Valid(what) THEN [d EXCEPT !.set[what] = v] ELSE d
      BY <1>0, <2>1 DEF Takes
    <3> HIDE DEF e
    <3>2. v \in Valid(what) => [d.set EXCEPT ![what] = v] \in [Settings -> Nat]
      BY <1>0, <2>1
    <3> QED BY <1>0, <2>1, <3>1, <3>2 DEF Devices
  <2>2. CASE what = "outflow"
    <3>1. e = d \/ e = [d EXCEPT !.flow = {}]
            \/ e = [d EXCEPT !.flow = {"IXON", "IXOFF"}]
            \/ e = [d EXCEPT !.flow = {"CRTSCTS"}]
      <4>1. "outflow" \notin Settings
        BY <1>0
      <4>2. CASE v \notin 1 .. 3
        BY <2>2, <4>1, <4>2 DEF Takes
      <4>3. CASE v = 1
        BY <2>2, <4>1, <4>3 DEF Takes
      <4>4. CASE v = 2
        BY <2>2, <4>1, <4>4 DEF Takes
      <4>5. CASE v = 3
        BY <2>2, <4>1, <4>5 DEF Takes
      <4> QED BY <4>2, <4>3, <4>4, <4>5
    <3> HIDE DEF e
    <3> QED BY <1>0, <2>2, <3>1 DEF Devices
  <2>3. CASE what = "inflow"
    <3>1. e = IF v = 15 THEN [d EXCEPT !.flow = @ \cup {"IXOFF"}] ELSE d
      BY <1>0, <2>3 DEF Takes
    <3> HIDE DEF e
    <3> QED BY <1>0, <2>3, <3>1 DEF Devices, Outbound
  <2>4. CASE what = "break"
    <3>1. \E b \in BOOLEAN : e = [d EXCEPT !.break = b]
      BY <1>0, <2>4 DEF Takes, Devices
    <3> HIDE DEF e
    <3> QED BY <1>0, <2>4, <3>1 DEF Devices
  <2>5. CASE what = "dtr"
    <3>1. e = d \/ e = [d EXCEPT !.raised = @ \cup {"DTR"}]
            \/ e = [d EXCEPT !.raised = @ \ {"DTR"}]
      BY <1>0, <2>5 DEF Takes, Raise
    <3> HIDE DEF e
    <3> QED BY <1>0, <2>5, <3>1 DEF Devices
  <2>6. CASE what = "rts"
    <3>1. e = d \/ e = [d EXCEPT !.raised = @ \cup {"RTS"}]
            \/ e = [d EXCEPT !.raised = @ \ {"RTS"}]
      BY <1>0, <2>6 DEF Takes, Raise
    <3> HIDE DEF e
    <3> QED BY <1>0, <2>6, <3>1 DEF Devices
  <2> QED BY <2>1, <2>2, <2>3, <2>4, <2>5, <2>6 DEF Subjects
<1> HIDE DEF e
<1>2. \A w \in Subjects \ {what, "inflow"} : Reads(e, w) = Reads(d, w)
  BY <1>0, <1>1 DEF Subjects, Reads
<1>3. \A w \in Subjects : Reads(e, w) \in Nat
  BY <1>0, <1>1 DEF Subjects, Reads, Outbound, Inbound, Devices
<1> QED BY <1>1, <1>2, <1>3 DEF e

LEMMA TableTypes ==
    /\ Defaults \in [Settings -> Nat] /\ Zeroes \in [Settings -> Nat]
    /\ \A w \in Settings : \A v \in Nat : Code(w, v) \in Nat
    /\ \A p \in Ports : Fresh(p) \in Devices
            /\ \A w \in Settings : Fresh(p).set[w] \in Valid(w)
<1>1. /\ Defaults \in [Settings -> Nat] /\ Zeroes \in [Settings -> Nat]
      /\ \A w \in Settings : \A v \in Nat : Code(w, v) \in Nat
  BY DEF Defaults, Zeroes, Code
<1>2. \A p \in Ports : Fresh(p) \in Devices
            /\ \A w \in Settings : Fresh(p).set[w] \in Valid(w)
  BY ConfiguredAssumption DEF Fresh, Devices
<1> QED BY <1>1, <1>2

-----------------------------------------------------------------------------
(* What a step has to show.                                                *)

\* Answers sent to one client, which fit unless there is an error.
LEMMA SendFacts ==
    ASSUME Types, NEW p \in Ports, NEW ms \in Seq(Messages), Send(p, ms)
    PROVE  /\ out' \in [Ports -> Seq(Messages)]
           /\ Len(out'[p]) <= MaxXmit
           /\ \A o \in Ports \ {p} : out'[o] = out[o] /\ error'[o] = error[o]
           /\ error' \in [Ports -> BOOLEAN]
           /\ ~error'[p] => ~error[p] /\ out'[p] = out[p] \o ms
<1> DEFINE q == out[p]
           k == MaxXmit - Len(q)
           cut == SubSeq(ms, 1, k)
<1>1. /\ q \in Seq(Messages) /\ Len(q) \in Nat /\ Len(ms) \in Nat
      /\ MaxXmit \in Nat /\ Len(q) <= MaxXmit
      /\ \A i \in 1 .. Len(ms) : ms[i] \in Messages
  BY ComPortBounds DEF Types, TypeOK
<1>2. q \o ms \in Seq(Messages) /\ Len(q \o ms) = Len(q) + Len(ms)
  BY <1>1, ConcatProperties
<1>3. ASSUME ~Fits(q, Len(ms))
      PROVE  q \o cut \in Seq(Messages) /\ Len(q \o cut) <= MaxXmit
  <2>1. k \in Nat /\ k < Len(ms)
    BY <1>1, <1>3 DEF Fits
  <2>2. \A i \in 1 .. k : ms[i] \in Messages
    BY <1>1, <2>1
  <2> HIDE DEF k
  <2>3. cut \in Seq(Messages) /\ Len(cut) = IF 1 <= k THEN k - 1 + 1 ELSE 0
    BY <2>1, <2>2, SubSeqProperties
  <2>4. Len(q \o cut) = Len(q) + Len(cut) /\ q \o cut \in Seq(Messages)
    BY <1>1, <2>3, ConcatProperties
  <2>5. k = MaxXmit - Len(q)
    BY DEF k
  <2> HIDE DEF cut, q
  <2> QED BY <1>1, <2>1, <2>3, <2>4, <2>5
<1> DEFINE new == IF Fits(q, Len(ms)) THEN q \o ms ELSE q \o cut
<1>4. out' = [out EXCEPT ![p] = new]
      /\ error' = [error EXCEPT ![p] = error[p] \/ ~Fits(q, Len(ms))]
  BY DEF Send
<1>5. new \in Seq(Messages) /\ Len(new) <= MaxXmit
  BY <1>1, <1>2, <1>3 DEF Fits
<1> HIDE DEF new
<1>6. out' \in [Ports -> Seq(Messages)] /\ out'[p] = new
      /\ \A o \in Ports \ {p} : out'[o] = out[o]
  BY <1>4, <1>5 DEF Types
<1>7. /\ error' \in [Ports -> BOOLEAN]
      /\ \A o \in Ports \ {p} : error'[o] = error[o]
      /\ error'[p] <=> error[p] \/ ~Fits(q, Len(ms))
  BY <1>4, Zenon DEF Types, TypeOK
<1>8. Fits(q, Len(ms)) => new = q \o ms
  BY DEF new
<1> QED BY <1>5, <1>6, <1>7, <1>8

\* A step of port p's session, in the table only its entry changes.
LEMMA Elsewhere ==
    ASSUME Inv, NEW p \in Ports,
           open' \ {p} = open \ {p},
           \A o \in Ports \ {p} :
                /\ out'[o] = out[o] /\ error'[o] = error[o] /\ dev'[o] = dev[o]
                /\ told'[o] = told[o] /\ unreported'[o] = unreported[o]
                /\ refused'[o] = refused[o],
           \A s \in Slots \ {Slot(p)} : gport_stat'[s] = gport_stat[s],
           served' = served, gport_stat' \in Tables,
           \/ frames' = frames
           \/ \E s \in Slots :
                frames' = Append(frames, [slot |-> s, set |-> gport_stat'[s]]),
           p \in open' => Answered(p)' /\ Reported(p)',
           p \notin open' => out'[p] = <<>> /\ told'[p] = [w \in Subjects |-> None]
    PROVE  Idle' /\ Agree' /\ Reports'
<1>0. open \subseteq Ports
  BY DEF Inv, Types, TypeOK
<1>1. Idle'
  BY DEF Inv, Idle
<1>2. \A o \in Ports \ {p} : Alone(o) => gport_stat'[Slot(o)] = gport_stat[Slot(o)]
  BY SlotType DEF Alone
<1>3. Agree'
  <2> SUFFICES ASSUME NEW o \in open', o # p PROVE Answered(o)'
    BY DEF Agree
  <2>1. o \in open /\ o \in Ports \ {p} /\ Answered(o)
    BY <1>0 DEF Inv, Agree
  <2>2. \A w, v : True(o, w, v) => True(o, w, v)'
    BY <1>2, <2>1 DEF True, Alone
  <2> QED BY <2>1, <2>2 DEF Answered
<1>4. Reports'
  <2> SUFFICES ASSUME NEW o \in open', o # p PROVE Reported(o)'
    BY DEF Reports
  <2>1. o \in open /\ o \in Ports \ {p} /\ Reported(o)
    BY <1>0 DEF Inv, Reports
  <2> SUFFICES ASSUME o \in 3000 .. 3007, Alone(o),
                      NEW w \in Settings \ unreported[o]
               PROVE  Shown(frames', served, Slot(o), w, gport_stat'[Slot(o)][w])
    BY <2>1 DEF Reported, Alone
  <2>2. /\ Shown(frames, served, Slot(o), w, gport_stat'[Slot(o)][w])
        /\ frames \in Seq(Frames)
    <3>1. Shown(frames, served, Slot(o), w, gport_stat[Slot(o)][w])
      BY <2>1 DEF Reported
    <3>2. gport_stat'[Slot(o)] = gport_stat[Slot(o)]
      BY <1>2, <2>1
    <3> QED BY <3>1, <3>2 DEF Inv, Types
  <2>3. CASE frames' = frames
    BY <2>2, <2>3
  <2>4. CASE frames' # frames
    <3>0. PICK s \in Slots :
            frames' = Append(frames, [slot |-> s, set |-> gport_stat'[s]])
      BY <2>4
    <3> DEFINE a == [slot |-> s, set |-> gport_stat'[s]]
    <3>1. a \in Frames /\ a.slot = s /\ a.set = gport_stat'[s]
      BY DEF Frames, Tables
    <3> HIDE DEF a
    <3>2. frames' = Append(frames, a)
      BY <3>0 DEF a
    <3> DEFINE v == gport_stat'[Slot(o)][w]
    <3>3. s = Slot(o) => a.set[w] = v
      BY <3>1
    <3>4. frames \in Seq(Frames) /\ Shown(frames, served, Slot(o), w, v)
      BY <2>2
    <3> HIDE DEF v
    <3>5. Shown(Append(frames, a), served, Slot(o), w, v)
      BY <3>1, <3>3, <3>4, ShownSent
    <3> QED BY <3>2, <3>5 DEF v
  <2> QED BY <2>3, <2>4
<1> QED BY <1>1, <1>3, <1>4

-----------------------------------------------------------------------------
(* The steps of a session.                                                 *)

Queues ==
    /\ up' \in [Ports -> Seq(Asks)] /\ \A o \in Ports : up'[o] \in Seq(Requests[o])

\* Messages that are no answers.
LEMMA QuietSend ==
    ASSUME Inv, NEW p \in open, NEW ms \in Seq(Messages), Send(p, ms),
           \A i \in DOMAIN ms : ms[i].what \notin Subjects,
           UNCHANGED <<open, dev, gport_stat, frames, served, told, unreported,
                       refused, lines>>,
           Queues, reading' \in open \cup {None}, is_2217' \in [Ports -> BOOLEAN],
           modemstate_mask' \in [Ports -> SUBSET ModemLines]
    PROVE  Inv'
<1>0. p \in Ports /\ Types
  BY DEF Inv, Types, TypeOK
<1>1. Types'
  <2>1. \A o \in Ports : Len(out'[o]) <= MaxXmit
    BY <1>0, SendFacts DEF Types, TypeOK
  <2> QED BY <1>0, <2>1, SendFacts DEF Types, TypeOK, Queues
<1>2. Answered(p)'
  <2> SUFFICES ASSUME ~error'[p], NEW w \in Subjects \ {"inflow"},
                      NEW v \in Answers(out'[p], w, told'[p][w])
               PROVE  True(p, w, v)'
    BY DEF Answered
  <2>1. ~error[p] /\ out'[p] = out[p] \o ms /\ out[p] \in Seq(Messages)
    BY <1>0, SendFacts DEF Types
  <2>2. \A i \in DOMAIN ms : ms[i].what # w
    OBVIOUS
  <2>3. Answers(out[p] \o ms, w, told[p][w]) \subseteq Answers(out[p], w, told[p][w])
    BY <2>1, <2>2, AnswersSent
  <2>4. v \in Answers(out[p], w, told[p][w])
    BY <2>1, <2>3
  <2>5. True(p, w, v)
    BY <2>1, <2>4 DEF Inv, Agree, Answered
  <2> QED BY <2>5 DEF True, Alone
<1>3. Reported(p)'
  BY DEF Inv, Reports, Reported, Alone
<1>4. Idle' /\ Agree' /\ Reports'
  <2>1. \A o \in Ports \ {p} : out'[o] = out[o] /\ error'[o] = error[o]
    BY <1>0, SendFacts
  <2>2. gport_stat \in Tables
    BY <1>0 DEF Types, TypeOK
  <2> QED BY <1>0, <1>2, <1>3, <2>1, <2>2, Elsewhere
<1> QED BY <1>1, <1>4 DEF Inv

\* An answer.
LEMMA HandlerInv ==
    ASSUME Inv, NEW p \in open, NEW what \in Subjects, NEW v \in Nat,
           NEW answers \in BOOLEAN, NEW takes \in BOOLEAN,
           com_port_handler(p, what, v, answers, takes),
           UNCHANGED <<open, served, told, lines>>,
           Queues, reading' \in open \cup {None}
    PROVE  Inv'
<1> DEFINE wanted == Takes(dev[p], what, v)
           d == IF takes /\ (what \in InTermio => answers) THEN wanted ELSE dev[p]
           seen == IF answers /\ what \in Unverified THEN wanted ELSE d
           known == answers \/ what = "break"
           stored == \/ answers /\ what \in Settings
                     \/ ~answers /\ what \in Settings \cap {"parity", "stopsize"}
           m == [what |-> what, value |-> IF known THEN Reads(seen, what) ELSE None]
           x == IF answers THEN seen.set[what] ELSE Defaults[what]
           ms == <<m>>
           a == [slot |-> myport2sn(p), set |-> gport_stat'[myport2sn(p)]]
<1>0. p \in Ports /\ Types /\ TypeOK
  BY DEF Inv, Types, TypeOK
<1>1. /\ dev' = [dev EXCEPT ![p] = d]
      /\ Send(p, ms)
      /\ gport_stat' = IF stored THEN Stored(p, what, x) ELSE gport_stat
      /\ frames' = IF what = "stopsize" THEN Append(frames, a) ELSE frames
      /\ unreported' = [unreported EXCEPT ![p] =
                            IF what = "stopsize" THEN {} ELSE @ \cup ({what} \cap Settings)]
      /\ refused' = [refused EXCEPT ![p] = IF d = wanted THEN @ \ {what}
                                           ELSE @ \cup {what}]
      /\ UNCHANGED <<is_2217, modemstate_mask, last_modemstate>>
  BY DEF com_port_handler, Answer, udp_a010
<1>2. /\ d \in Devices /\ \A w \in Settings : d.set[w] \in Valid(w)
      /\ \A w \in Subjects \ {what, "inflow"} : Reads(d, w) = Reads(dev[p], w)
      /\ \A w \in Settings \ {what} : d.set[w] = dev[p].set[w]
      /\ Reads(seen, what) \in Nat
      /\ what \in Settings => seen.set[what] = Reads(seen, what)
      /\ d = wanted \/ what \notin Unverified => seen = d
  <2>1. dev[p] \in Devices /\ \A w \in Settings : dev[p].set[w] \in Valid(w)
    BY <1>0 DEF Types, TypeOK
  <2>2. /\ wanted \in Devices /\ \A w \in Settings : wanted.set[w] \in Valid(w)
        /\ \A w \in Subjects \ {what, "inflow"} : Reads(wanted, w) = Reads(dev[p], w)
        /\ \A w \in Settings \ {what} : wanted.set[w] = dev[p].set[w]
        /\ Reads(wanted, what) \in Nat
    BY <2>1, TakesFacts
  <2>3. Reads(dev[p], what) \in Nat
    <3>1. what \in Settings => dev[p].set[what] \in Nat
      BY <2>1 DEF Devices
    <3> QED BY <3>1 DEF Reads, Subjects, Outbound, Inbound
  <2>4. \A e : what \in Settings => e.set[what] = Reads(e, what)
    BY SettingsAssumption DEF Reads
  <2>5. (d = wanted \/ d = dev[p]) /\ (seen = wanted \/ seen = d)
    OBVIOUS
  <2>6. d = wanted \/ what \notin Unverified => seen = d
    OBVIOUS
  <2> HIDE DEF wanted, d, seen
  <2> QED BY <2>1, <2>2, <2>3, <2>4, <2>5, <2>6
<1>3. m \in Messages /\ m.what = what
      /\ m.value = (IF known THEN Reads(seen, what) ELSE None)
  BY <1>2 DEF Messages, None
<1>4. stored => what \in Settings /\ x \in Nat
  BY <1>2, TableTypes
<1> HIDE DEF wanted, d, seen, m, x
<1>5. /\ gport_stat' \in Tables
      /\ \A s \in Slots \ {Slot(p)} : gport_stat'[s] = gport_stat[s]
      /\ \A w \in Settings \ {what} :
            gport_stat'[Slot(p)][w] = gport_stat[Slot(p)][w]
      /\ stored => gport_stat'[Slot(p)][what] = Code(what, x)
  <2>1. Slot(p) \in Slots /\ gport_stat \in Tables
    BY <1>0, SlotType DEF TypeOK
  <2>2. CASE ~stored
    BY <1>1, <2>1, <2>2
  <2>3. CASE stored
    <3>1. Code(what, x) \in Nat /\ what \in Settings
      BY <1>4, <2>3, TableTypes
    <3>2. gport_stat' = [gport_stat EXCEPT ![Slot(p)][what] = Code(what, x)]
      BY <1>1, <2>3 DEF Stored
    <3> HIDE DEF stored
    <3> QED BY <2>1, <2>3, <3>1, <3>2 DEF Tables
  <2> QED BY <2>2, <2>3
<1>6. a \in Frames /\ a.slot = myport2sn(p) /\ a.set = gport_stat'[myport2sn(p)]
  BY <1>0, <1>5, SlotType DEF Frames, Tables
<1>7. /\ ms \in Seq(Messages) /\ ms # <<>> /\ ms[Len(ms)] = m
      /\ \A i \in DOMAIN ms : ms[i] = m
  BY <1>3
<1> HIDE DEF ms
<1>8. /\ out' \in [Ports -> Seq(Messages)] /\ error' \in [Ports -> BOOLEAN]
      /\ Len(out'[p]) <= MaxXmit
      /\ \A o \in Ports \ {p} : out'[o] = out[o] /\ error'[o] = error[o]
      /\ ~error'[p] => ~error[p] /\ out'[p] = out[p] \o ms
  BY <1>0, <1>1, <1>7, SendFacts
<1>9. /\ dev' \in [Ports -> Devices] /\ dev'[p] = d
      /\ \A o \in Ports \ {p} : dev'[o] = dev[o]
      /\ unreported' \in [Ports -> SUBSET Settings]
      /\ \A o \in Ports \ {p} : unreported'[o] = unreported[o]
      /\ unreported'[p] = IF what = "stopsize" THEN {}
                          ELSE unreported[p] \cup ({what} \cap Settings)
      /\ refused' \in [Ports -> SUBSET Subjects]
      /\ \A o \in Ports \ {p} : refused'[o] = refused[o]
      /\ refused'[p] = IF d = wanted THEN refused[p] \ {what}
                       ELSE refused[p] \cup {what}
  BY <1>0, <1>1, <1>2 DEF Types
<1> HIDE DEF a
<1>10. frames' \in Seq(Frames)
  BY <1>0, <1>1, <1>6 DEF Types
<1>11. Types'
  <2>1. \A o \in Ports : Len(out'[o]) <= MaxXmit
    BY <1>0, <1>8 DEF TypeOK
  <2>2. \A o \in Ports : \A w \in Settings : dev'[o].set[w] \in Valid(w)
    BY <1>0, <1>2, <1>9 DEF TypeOK
  <2>3. \A i \in DOMAIN frames' : frames'[i].slot \in Slots
    <3>1. \A i \in DOMAIN frames' : frames'[i] \in Frames
      BY <1>10
    <3> QED BY <3>1 DEF Frames
  <2>4. TypeOK'
    BY <1>0, <1>1, <1>5, <1>8, <2>1, <2>2, <2>3 DEF TypeOK, Types, Queues
  <2> QED BY <1>0, <1>1, <1>8, <1>9, <1>10, <2>4 DEF Types, Queues
<1>12. Answered(p)'
  <2> SUFFICES ASSUME ~error'[p], NEW w \in Subjects \ {"inflow"},
                      NEW u \in Answers(out'[p], w, told'[p][w])
               PROVE  True(p, w, u)'
    BY DEF Answered
  <2>1. ~error[p] /\ out'[p] = out[p] \o ms /\ out[p] \in Seq(Messages)
    BY <1>0, <1>8 DEF Types
  <2>2. CASE w = what
    <3>1. u = m.value
      <4>1. Answers(out[p] \o ms, w, told[p][w]) = {m.value}
        BY <1>3, <2>1, <2>2, AnswerSent DEF ms
      <4> QED BY <2>1, <4>1
    <3>2. u # None => known /\ u = Reads(seen, what)
      BY <1>3, <3>1
    <3>3. u # None /\ what \in Settings => stored /\ x = u
      BY <1>2, <3>2, SettingsAssumption DEF x
    <3>4. what \notin refused'[p] \cap Unverified => seen = d
      BY <1>2, <1>9
    <3> HIDE DEF known, stored
    <3> QED BY <1>5, <1>9, <2>2, <3>2, <3>3, <3>4 DEF True
  <2>3. CASE w # what
    <3>1. Answers(out[p] \o ms, w, told[p][w]) \subseteq Answers(out[p], w, told[p][w])
      <4>1. \A i \in DOMAIN ms : ms[i].what # w
        BY <1>3, <1>7, <2>3
      <4> QED BY <1>7, <2>1, <4>1, AnswersSent
    <3>2. True(p, w, u)
      BY <2>1, <3>1 DEF Inv, Agree, Answered
    <3> HIDE DEF known, stored
    <3> QED BY <1>2, <1>5, <1>9, <2>3, <3>2 DEF True, Alone
  <2> QED BY <2>2, <2>3
<1>13. Reported(p)'
  <2> SUFFICES ASSUME p \in 3000 .. 3007, Alone(p),
                      NEW w \in Settings \ unreported'[p]
               PROVE  Shown(frames', served, Slot(p), w, gport_stat'[Slot(p)][w])
    BY DEF Reported, Alone
  <2>1. CASE what = "stopsize"
    <3>1. a.slot = Slot(p) /\ a.set[w] = gport_stat'[Slot(p)][w] /\ frames \in Seq(Frames)
      BY <1>0, <1>6, SlotType DEF Types
    <3> QED BY <1>1, <1>6, <2>1, <3>1, ShownSent
  <2>2. CASE what # "stopsize"
    <3>1. w \in Settings \ unreported[p] /\ w # what /\ frames' = frames
      BY <1>1, <1>9, <2>2
    <3>2. Shown(frames, served, Slot(p), w, gport_stat[Slot(p)][w])
      BY <3>1 DEF Inv, Reports, Reported
    <3> QED BY <1>5, <3>1, <3>2
  <2> QED BY <2>1, <2>2
<1>14. \/ frames' = frames
       \/ \E s \in Slots : frames' = Append(frames, [slot |-> s, set |-> gport_stat'[s]])
  BY <1>0, <1>1, SlotType DEF a
<1>15. Idle' /\ Agree' /\ Reports'
  BY <1>0, <1>5, <1>8, <1>9, <1>12, <1>13, <1>14, Elsewhere
<1> QED BY <1>11, <1>15 DEF Inv

\* A request is taken from what a port has not read.
LEMMA TakenFacts ==
    ASSUME Types, NEW p \in Ports, up[p] # <<>>, up' = [up EXCEPT ![p] = Tail(@)]
    PROVE  Queues /\ Head(up[p]) \in Requests[p] /\ Head(up[p]) \in Asks
<1>1. \A o \in Ports : up[o] \in Seq(Requests[o])
  BY DEF Types, TypeOK
<1>2. \A o \in Ports : up[o] \in Seq(Asks)
  BY DEF Types
<1>3. Tail(up[p]) \in Seq(Requests[p]) /\ Tail(up[p]) \in Seq(Asks)
      /\ Head(up[p]) \in Requests[p]
  BY <1>1, <1>2, HeadTailProperties
<1> HIDE DEF Asks
<1> QED BY <1>1, <1>2, <1>3, RequestsAssumption DEF Queues, Types

LEMMA ReadInv ==
    ASSUME Inv, NEW p \in Ports, handle_tcp_fd_read(p) PROVE Inv'
<1> DEFINE r == Head(up[p])
<1>0. Types /\ TypeOK /\ None \notin Ports
  BY PortsAssumption DEF Inv, Types
<1>1. /\ p \in open /\ reading' = p
      /\ Queues /\ r \in Asks
      /\ UNCHANGED <<open, lines, served, told, notified, asked, begun>>
  BY <1>0, TakenFacts DEF handle_tcp_fd_read
<1>2. PICK answers \in BOOLEAN :
        \E takes \in BOOLEAN :
            CASE r.what = "will" -> com_port_will(p, answers)
              [] r.what = "wont" -> Wont(p)
              [] r.what = "mask" -> SetMask(p, r.on)
              [] OTHER           ->
                    com_port_handler(p, r.what, r.value, answers, takes)
  BY DEF handle_tcp_fd_read
<1> HIDE DEF r
<1>3. \/ r.what \in Subjects \cup {"will", "wont"} /\ r.value \in Nat
      \/ r.what = "mask" /\ r.on \in SUBSET ModemLines
  BY <1>1 DEF Asks
<1>4. \A on \in SUBSET ModemLines :
        /\ <<Notification(on), Simply("do")>> \in Seq(Messages)
        /\ \A i \in DOMAIN <<Notification(on), Simply("do")>> :
                <<Notification(on), Simply("do")>>[i].what \notin Subjects
  <2> TAKE on \in SUBSET ModemLines
  <2>1. Notification(on) \in Messages /\ Simply("do") \in Messages
        /\ Notification(on).what \notin Subjects /\ Simply("do").what \notin Subjects
    BY Strings DEF Notification, Simply, Messages, None
  <2> QED BY <2>1
<1>5. /\ <<Simply("dont")>> \in Seq(Messages)
      /\ \A i \in DOMAIN <<Simply("dont")>> : <<Simply("dont")>>[i].what \notin Subjects
  <2>1. Simply("dont") \in Messages /\ Simply("dont").what \notin Subjects
    BY Strings DEF Simply, Messages, None
  <2> QED BY <2>1
<1>6. \A on \in SUBSET ModemLines :
        LET m == [what |-> "mask", on |-> on] IN
        <<m>> \in Seq(Messages) /\ \A i \in DOMAIN <<m>> : <<m>>[i].what \notin Subjects
  <2> TAKE on \in SUBSET ModemLines
  <2> DEFINE m == [what |-> "mask", on |-> on]
  <2>1. m \in Messages /\ m.what \notin Subjects
    BY Strings DEF Messages
  <2> HIDE DEF m
  <2>2. <<m>> \in Seq(Messages) /\ \A i \in DOMAIN <<m>> : <<m>>[i].what \notin Subjects
    BY <2>1
  <2> QED BY <2>2 DEF m
<1>7. CASE r.what = "will"
  <2>1. com_port_will(p, answers)
    BY <1>2, <1>7
  <2>2. CASE p \in Allowed
    <3> DEFINE on == IF answers THEN lines[p] ELSE {}
               ms == <<Notification(on), Simply("do")>>
    <3>1. on \in SUBSET ModemLines
      BY <1>0 DEF Types
    <3>2. Send(p, ms) /\ UNCHANGED <<dev, gport_stat, frames, unreported, refused>>
          /\ is_2217' = [is_2217 EXCEPT ![p] = TRUE]
          /\ modemstate_mask' = [modemstate_mask EXCEPT ![p] = ModemLines]
      BY <2>1, <2>2 DEF com_port_will
    <3>3. ms \in Seq(Messages) /\ \A i \in DOMAIN ms : ms[i].what \notin Subjects
      BY <1>4, <3>1
    <3>4. is_2217' \in [Ports -> BOOLEAN]
          /\ modemstate_mask' \in [Ports -> SUBSET ModemLines]
      BY <1>0, <3>2 DEF Types, TypeOK
    <3> HIDE DEF ms
    <3> QED BY <1>1, <3>2, <3>3, <3>4, QuietSend
  <2>3. CASE p \notin Allowed
    <3>1. /\ Send(p, <<Simply("dont")>>)
          /\ UNCHANGED <<dev, gport_stat, frames, unreported, refused, is_2217,
                         modemstate_mask>>
      BY <2>1, <2>3 DEF com_port_will
    <3> QED BY <1>0, <1>1, <1>5, <3>1, QuietSend DEF Types, TypeOK
  <2> QED BY <2>2, <2>3
<1>8. CASE r.what = "wont"
  <2>1. Wont(p)
    BY <1>2, <1>8
  <2> QED BY <1>0, <1>1, <1>5, <2>1, QuietSend DEF Wont, Types, TypeOK
<1>9. CASE r.what = "mask"
  <2>1. SetMask(p, r.on) /\ r.on \in SUBSET ModemLines
    BY <1>2, <1>3, <1>9, Strings
  <2> DEFINE ms == <<[what |-> "mask", on |-> r.on]>>
  <2>2. ms \in Seq(Messages) /\ \A i \in DOMAIN ms : ms[i].what \notin Subjects
    BY <1>6, <2>1
  <2>3. /\ Send(p, ms)
        /\ UNCHANGED <<dev, gport_stat, frames, unreported, refused, is_2217>>
        /\ modemstate_mask' \in [Ports -> SUBSET ModemLines]
    BY <1>0, <2>1 DEF SetMask, Types
  <2> HIDE DEF ms
  <2> QED BY <1>0, <1>1, <2>2, <2>3, QuietSend DEF Types, TypeOK
<1>10. CASE r.what \notin {"will", "wont", "mask"}
  <2>1. (\E takes \in BOOLEAN : com_port_handler(p, r.what, r.value, answers, takes))
        /\ r.what \in Subjects /\ r.value \in Nat
    BY <1>2, <1>3, <1>10
  <2> QED BY <1>1, <2>1, HandlerInv
<1> QED BY <1>7, <1>8, <1>9, <1>10

LEMMA TimeoutInv ==
    ASSUME Inv, NEW p \in Ports, got_timeout(p) PROVE Inv'
<1> DEFINE on == Masked(lines[p], modemstate_mask[p])
           ms == <<Notification(on)>>
<1>0. Types /\ TypeOK
  BY DEF Inv, Types
<1>1. /\ Send(p, ms) /\ p \in open
      /\ UNCHANGED <<open, up, reading, is_2217, modemstate_mask, dev, lines,
                     gport_stat, frames, served, told, unreported, refused>>
  BY DEF got_timeout
<1>2. on \in SUBSET ModemLines
  BY <1>0 DEF Types, Masked
<1> HIDE DEF on
<1>3. Notification(on) \in Messages /\ Notification(on).what \notin Subjects
  BY <1>2, Strings DEF Notification, Messages
<1>4. ms \in Seq(Messages) /\ \A i \in DOMAIN ms : ms[i].what \notin Subjects
  BY <1>3
<1> HIDE DEF ms
<1>5. Queues
  BY <1>0, <1>1 DEF Queues, Types, TypeOK
<1> QED BY <1>0, <1>1, <1>4, <1>5, QuietSend DEF Types, TypeOK

\* A step that leaves answers, device and table alone.
LEMMA Rest ==
    ASSUME Inv, Types', open' = open,
           UNCHANGED <<out, error, dev, gport_stat, frames, served, told,
                       unreported, refused>>
    PROVE  Inv'
<1>1. Idle'
  BY DEF Inv, Idle
<1>2. Agree'
  BY DEF Inv, Agree, Answered, True, Alone
<1>3. Reports'
  BY DEF Inv, Reports, Reported, Alone
<1> QED BY <1>1, <1>2, <1>3 DEF Inv

LEMMA ClientSendsInv ==
    ASSUME Inv, NEW p \in Ports, NEW r \in Requests[p], ClientSends(p, r)
    PROVE  Inv'
<1>0. Types /\ TypeOK
  BY DEF Inv, Types
<1>1. /\ up' = [up EXCEPT ![p] = Append(@, r)]
      /\ UNCHANGED <<open, out, reading, error, is_2217, modemstate_mask,
                     dev, lines, gport_stat, frames, served, told, unreported,
                     refused>>
  BY DEF ClientSends
<1>2. Queues
  <2>1. r \in Asks
    BY RequestsAssumption
  <2>2. up \in [Ports -> Seq(Asks)] /\ \A o \in Ports : up[o] \in Seq(Requests[o])
    BY <1>0 DEF Types, TypeOK
  <2>3. Append(up[p], r) \in Seq(Asks) /\ Append(up[p], r) \in Seq(Requests[p])
    BY <2>1, <2>2, AppendProperties
  <2> QED BY <1>1, <2>2, <2>3 DEF Queues
<1>3. Types'
  BY <1>0, <1>1, <1>2 DEF Types, TypeOK, Queues
<1> QED BY <1>1, <1>3, Rest

LEMMA LinesChangeInv ==
    ASSUME Inv, NEW p \in Ports, NEW on \in SUBSET ModemLines, LinesChange(p, on)
    PROVE  Inv'
<1>1. Types'
  BY DEF LinesChange, Inv, Types, TypeOK
<1> QED BY <1>1, Rest DEF LinesChange

LEMMA ClientReceivesInv ==
    ASSUME Inv, NEW p \in Ports, ClientReceives(p) PROVE Inv'
<1> DEFINE m == Head(out[p])
<1>0. Types /\ TypeOK
  BY DEF Inv, Types
<1>1. /\ p \in open /\ out[p] # <<>> /\ out[p] \in Seq(Messages)
      /\ out' = [out EXCEPT ![p] = Tail(@)]
      /\ told' = IF m.what \in Subjects
                 THEN [told EXCEPT ![p][m.what] = m.value] ELSE told
      /\ UNCHANGED <<open, up, reading, error, is_2217, modemstate_mask,
                     dev, lines, gport_stat, frames, served, unreported, refused>>
  BY <1>0 DEF ClientReceives, Types
<1>2. /\ m \in Messages /\ Tail(out[p]) \in Seq(Messages)
      /\ Len(Tail(out[p])) <= MaxXmit
  <2>1. Len(out[p]) <= MaxXmit /\ Len(out[p]) \in Nat /\ MaxXmit \in Nat
    BY <1>0, <1>1, ComPortBounds DEF TypeOK
  <2>2. /\ m \in Messages /\ Tail(out[p]) \in Seq(Messages)
        /\ Len(Tail(out[p])) = Len(out[p]) - 1
    BY <1>1, HeadTailProperties
  <2> QED BY <2>1, <2>2
<1> HIDE DEF m
<1>3. m.what \in Subjects => m.value \in Nat
  BY <1>2, Strings DEF Messages
<1>4. /\ told' \in [Ports -> [Subjects -> Nat]]
      /\ \A o \in Ports \ {p} : told'[o] = told[o]
      /\ \A w \in Subjects :
            told'[p][w] = IF m.what = w THEN m.value ELSE told[p][w]
  <2>1. told \in [Ports -> [Subjects -> Nat]]
    BY <1>0 DEF Types
  <2>2. CASE m.what \in Subjects
    <3>1. told' = [told EXCEPT ![p] = [told[p] EXCEPT ![m.what] = m.value]]
      BY <1>1, <2>1, <2>2
    <3> QED BY <1>3, <2>1, <2>2, <3>1
  <2>3. CASE m.what \notin Subjects
    BY <1>1, <2>1, <2>3
  <2> QED BY <2>2, <2>3
<1>5. out' \in [Ports -> Seq(Messages)] /\ out'[p] = Tail(out[p])
      /\ \A o \in Ports \ {p} : out'[o] = out[o]
  BY <1>0, <1>1, <1>2 DEF Types
<1>6. Types'
  <2>1. \A o \in Ports : Len(out'[o]) <= MaxXmit
    BY <1>0, <1>2, <1>5 DEF TypeOK
  <2> QED BY <1>0, <1>1, <1>4, <1>5, <2>1 DEF Types, TypeOK
<1>7. Answered(p)'
  <2> SUFFICES ASSUME ~error'[p], NEW w \in Subjects \ {"inflow"},
                      NEW v \in Answers(out'[p], w, told'[p][w])
               PROVE  True(p, w, v)'
    BY DEF Answered
  <2> DEFINE now == IF m.what = w THEN m.value ELSE told[p][w]
  <2>1. Answers(Tail(out[p]), w, now) \subseteq Answers(out[p], w, told[p][w])
    BY <1>1, AnswersRead DEF m
  <2>2. told'[p][w] = now
    BY <1>4
  <2>3. v \in Answers(out[p], w, told[p][w])
    BY <1>5, <2>1, <2>2
  <2>4. ~error[p]
    BY <1>1
  <2>5. True(p, w, v)
    BY <1>1, <2>3, <2>4 DEF Inv, Agree, Answered
  <2> QED BY <1>1, <2>5 DEF True, Alone
<1>8. Reported(p)'
  BY <1>1 DEF Inv, Reports, Reported, Alone
<1>9. Idle' /\ Agree' /\ Reports'
  <2>1. gport_stat' \in Tables
    BY <1>0, <1>1 DEF TypeOK
  <2> QED BY <1>1, <1>4, <1>5, <1>7, <1>8, <2>1, Elsewhere
<1> QED BY <1>6, <1>9 DEF Inv

LEMMA SetupInv ==
    ASSUME Inv, NEW p \in Ports, NEW opens \in BOOLEAN, setup_tcp_port(p, opens)
    PROVE  Inv'
<1>0. Types /\ TypeOK
  BY DEF Inv, Types
<1>1. /\ p \notin open
      /\ gport_stat' = [gport_stat EXCEPT ![Slot(p)] = Defaults]
      /\ UNCHANGED <<up, out, reading, modemstate_mask, lines, frames, served, told>>
  BY DEF setup_tcp_port
<1>2. \/ /\ open' = open \cup {p}
         /\ dev' = [dev EXCEPT ![p] = Fresh(p)]
         /\ is_2217' = [is_2217 EXCEPT ![p] = FALSE]
         /\ error' = [error EXCEPT ![p] = FALSE]
         /\ unreported' = [unreported EXCEPT ![p] = Settings]
         /\ refused' = [refused EXCEPT ![p] = {}]
      \/ UNCHANGED <<open, dev, is_2217, error, unreported, refused>>
  BY DEF setup_tcp_port
<1>3. /\ gport_stat' \in Tables
      /\ \A s \in Slots \ {Slot(p)} : gport_stat'[s] = gport_stat[s]
  BY <1>0, <1>1, SlotType, TableTypes DEF TypeOK, Tables
<1>4. /\ dev' \in [Ports -> Devices]
      /\ \A o \in Ports : \A w \in Settings : dev'[o].set[w] \in Valid(w)
      /\ \A o \in Ports \ {p} : dev'[o] = dev[o]
  <2>1. /\ dev \in [Ports -> Devices]
        /\ \A o \in Ports : \A w \in Settings : dev[o].set[w] \in Valid(w)
    BY <1>0 DEF Types, TypeOK
  <2>2. Fresh(p) \in Devices /\ \A w \in Settings : Fresh(p).set[w] \in Valid(w)
    BY TableTypes
  <2>3. dev' = dev \/ dev' = [dev EXCEPT ![p] = Fresh(p)]
    BY <1>2
  <2> QED BY <2>1, <2>2, <2>3
<1>5. /\ unreported' \in [Ports -> SUBSET Settings]
      /\ open' \subseteq Ports /\ reading' \in open' \cup {None}
      /\ open' \ {p} = open \ {p}
      /\ error' \in [Ports -> BOOLEAN] /\ is_2217' \in [Ports -> BOOLEAN]
      /\ \A o \in Ports \ {p} :
            /\ error'[o] = error[o] /\ unreported'[o] = unreported[o]
            /\ refused'[o] = refused[o]
      /\ refused' \in [Ports -> SUBSET Subjects]
  <2>1. /\ unreported \in [Ports -> SUBSET Settings] /\ open \subseteq Ports
        /\ reading \in open \cup {None}
        /\ error \in [Ports -> BOOLEAN] /\ is_2217 \in [Ports -> BOOLEAN]
    BY <1>0 DEF Types, TypeOK
  <2>2. /\ unreported' = unreported \/ unreported' = [unreported EXCEPT ![p] = Settings]
        /\ error' = error \/ error' = [error EXCEPT ![p] = FALSE]
        /\ is_2217' = is_2217 \/ is_2217' = [is_2217 EXCEPT ![p] = FALSE]
        /\ open' = open \/ open' = open \cup {p}
    BY <1>2
  <2>3. /\ unreported' \in [Ports -> SUBSET Settings]
        /\ \A o \in Ports \ {p} : unreported'[o] = unreported[o]
    BY <2>1, <2>2
  <2>4. error' \in [Ports -> BOOLEAN] /\ \A o \in Ports \ {p} : error'[o] = error[o]
    BY <2>1, <2>2
  <2>5. is_2217' \in [Ports -> BOOLEAN]
    BY <2>1, <2>2
  <2>6. open' \subseteq Ports /\ open' \ {p} = open \ {p}
        /\ reading' \in open' \cup {None}
    BY <1>1, <2>1, <2>2
  <2>7. /\ refused' \in [Ports -> SUBSET Subjects]
        /\ \A o \in Ports \ {p} : refused'[o] = refused[o]
    <3>1. refused \in [Ports -> SUBSET Subjects]
      BY <1>0 DEF Types
    <3>2. refused' = refused \/ refused' = [refused EXCEPT ![p] = {}]
      BY <1>2
    <3> QED BY <3>1, <3>2
  <2> QED BY <2>3, <2>4, <2>5, <2>6, <2>7
<1>6. Types'
  BY <1>0, <1>1, <1>3, <1>4, <1>5 DEF Types, TypeOK
<1>7. out'[p] = <<>> /\ told'[p] = [w \in Subjects |-> None]
  BY <1>1 DEF Inv, Idle
<1>8. Answered(p)'
  <2>1. \A w \in Subjects : Answers(out'[p], w, told'[p][w]) \subseteq {None}
    BY <1>7 DEF Answers, LastIn
  <2> QED BY <2>1 DEF Answered, True
<1>9. p \in open' => Reported(p)'
  <2>1. p \in open' => unreported'[p] = Settings
    BY <1>0, <1>1, <1>2 DEF Types
  <2> QED BY <2>1 DEF Reported
<1>10. Idle' /\ Agree' /\ Reports'
  BY <1>1, <1>3, <1>4, <1>5, <1>7, <1>8, <1>9, Elsewhere
<1> QED BY <1>6, <1>10 DEF Inv

LEMMA OverInv ==
    ASSUME Inv, NEW p \in Ports, reading \in {None, p}, Over(p) PROVE Inv'
<1>0. Types /\ TypeOK
  BY DEF Inv, Types
<1>1. /\ open' = open \ {p} /\ reading' = None
      /\ up' = [up EXCEPT ![p] = <<>>] /\ out' = [out EXCEPT ![p] = <<>>]
      /\ told' = [told EXCEPT ![p] = [w \in Subjects |-> None]]
      /\ UNCHANGED <<error, is_2217, modemstate_mask, dev, lines, gport_stat,
                     frames, served, unreported, refused>>
  BY DEF Over
<1>2. /\ out' \in [Ports -> Seq(Messages)] /\ \A o \in Ports : Len(out'[o]) <= MaxXmit
      /\ up' \in [Ports -> Seq(Asks)] /\ \A o \in Ports : up'[o] \in Seq(Requests[o])
      /\ told' \in [Ports -> [Subjects -> Nat]]
      /\ \A o \in Ports \ {p} : out'[o] = out[o] /\ told'[o] = told[o]
      /\ out'[p] = <<>> /\ told'[p] = [w \in Subjects |-> None]
  <2>1. Len(<<>>) = 0 /\ MaxXmit \in Nat
    BY ComPortBounds
  <2>2. [w \in Subjects |-> None] \in [Subjects -> Nat]
    BY DEF None
  <2>3. /\ out' \in [Ports -> Seq(Messages)] /\ out'[p] = <<>>
        /\ \A o \in Ports \ {p} : out'[o] = out[o]
    BY <1>0, <1>1 DEF Types
  <2>4. \A o \in Ports : Len(out'[o]) <= MaxXmit
    BY <1>0, <2>1, <2>3 DEF TypeOK
  <2>5. up' \in [Ports -> Seq(Asks)] /\ \A o \in Ports : up'[o] \in Seq(Requests[o])
    <3>1. up \in [Ports -> Seq(Asks)] /\ \A o \in Ports : up[o] \in Seq(Requests[o])
      BY <1>0 DEF Types, TypeOK
    <3>2. <<>> \in Seq(Asks) /\ <<>> \in Seq(Requests[p])
      OBVIOUS
    <3> QED BY <1>1, <3>1, <3>2
  <2>6. /\ told' \in [Ports -> [Subjects -> Nat]]
        /\ \A o \in Ports \ {p} : told'[o] = told[o]
        /\ told'[p] = [w \in Subjects |-> None]
    BY <1>0, <1>1, <2>2 DEF Types
  <2> QED BY <2>3, <2>4, <2>5, <2>6
<1>3. Types'
  BY <1>0, <1>1, <1>2 DEF Types, TypeOK
<1>4. p \notin open' /\ open' \ {p} = open \ {p} /\ gport_stat' \in Tables
  BY <1>0, <1>1 DEF TypeOK
<1>5. Idle' /\ Agree' /\ Reports'
  BY <1>1, <1>2, <1>4, Elsewhere
<1> QED BY <1>3, <1>5 DEF Inv

LEMMA ReadEndsInv ==
    ASSUME Inv, NEW p \in Ports, ReadEnds(p) PROVE Inv'
<1>1. CASE error[p]
  BY <1>1, OverInv DEF ReadEnds
<1>2. CASE ~error[p]
  <2>1. /\ reading' = None
        /\ UNCHANGED <<open, up, out, error, is_2217, modemstate_mask, dev, lines,
                       gport_stat, frames, served, told, unreported, refused>>
    BY <1>2 DEF ReadEnds
  <2>2. Types'
    BY <2>1 DEF Inv, Types, TypeOK
  <2> QED BY <2>1, <2>2, Rest
<1> QED BY <1>1, <1>2

-----------------------------------------------------------------------------
(* The steps of the status server.                                         *)

\* Either way a frame leaves the queue.
LEMMA FrameTaken ==
    ASSUME Inv, frames # <<>>, frames' = Tail(frames), served' \in Tables,
           FramesUnchanged, unreported' \in [Ports -> SUBSET Settings],
           \A p \in open : Reported(p)'
    PROVE  Inv'
<1>0. Types /\ TypeOK
  BY DEF Inv, Types
<1>1. UNCHANGED <<open, up, out, reading, error, is_2217, modemstate_mask, dev,
                  lines, gport_stat, told, refused>>
  BY DEF FramesUnchanged
<1>2. frames' \in Seq(Frames) /\ \A i \in DOMAIN frames' : frames'[i].slot \in Slots
  <2>1. frames' \in Seq(Frames)
    BY <1>0, HeadTailProperties DEF Types
  <2>2. \A i \in DOMAIN frames' : frames'[i] \in Frames
    BY <2>1
  <2> QED BY <2>1, <2>2 DEF Frames
<1>3. Types'
  BY <1>0, <1>1, <1>2 DEF Types, TypeOK
<1>4. Idle' /\ Agree'
  BY <1>1 DEF Inv, Idle, Agree, Answered, True, Alone
<1>5. Reports'
  BY <1>1 DEF Reports
<1> QED BY <1>3, <1>4, <1>5 DEF Inv

LEMMA UdpInv ==
    ASSUME Inv, udpa0 PROVE Inv'
<1> DEFINE a == Head(frames)
<1>0. Types /\ TypeOK
  BY DEF Inv, Types
<1>1. /\ frames # <<>> /\ frames' = Tail(frames) /\ frames \in Seq(Frames)
      /\ served' = [served EXCEPT ![a.slot] = a.set]
      /\ UNCHANGED unreported /\ FramesUnchanged
  BY <1>0 DEF udpa0, Types
<1>2. a \in Frames
  BY <1>1, HeadTailProperties
<1> HIDE DEF a
<1>3. served' \in Tables /\ served'[a.slot] = a.set
      /\ \A s \in Slots \ {a.slot} : served'[s] = served[s]
  BY <1>0, <1>1, <1>2 DEF TypeOK, Tables, Frames
<1>4. \A p \in open : Reported(p)'
  <2> SUFFICES ASSUME NEW p \in open, p \in 3000 .. 3007, Alone(p),
                      NEW w \in Settings \ unreported[p]
               PROVE  Shown(frames', served', Slot(p), w, gport_stat[Slot(p)][w])
    <3>1. gport_stat' = gport_stat /\ unreported' = unreported
      BY <1>1 DEF FramesUnchanged
    <3> QED BY <3>1 DEF Reported, Alone
  <2> DEFINE v == gport_stat[Slot(p)][w]
             s == Slot(p)
  <2>1. Shown(frames, served, s, w, v)
    BY DEF Inv, Reports, Reported
  <2>2. s \in Slots
    BY <1>0, SlotType DEF TypeOK
  <2> HIDE DEF v, s
  <2>3. /\ \A i \in LastFrames(frames', s) : frames'[i].set[w] = v
        /\ (\A i \in DOMAIN frames' : frames'[i].slot # s) =>
                (a.slot = s => a.set[w] = v) /\ (a.slot # s => served[s][w] = v)
    <3>1. frames \in Seq(Frames) /\ Shown(frames, served, s, w, v)
      BY <1>1, <2>1
    <3>2. Taken(frames, a, frames')
      BY <1>1 DEF Taken, a
    <3> QED BY <3>1, <3>2, ShownTaken
  <2>4. Shown(frames', served', s, w, v)
    BY <1>3, <2>2, <2>3 DEF Shown
  <2> QED BY <2>4 DEF v, s
<1>5. unreported' \in [Ports -> SUBSET Settings]
  BY <1>0, <1>1 DEF Types
<1> QED BY <1>1, <1>3, <1>4, <1>5, FrameTaken

LEMMA MissedInv ==
    ASSUME Inv, FrameMissed PROVE Inv'
<1> DEFINE a == Head(frames)
           last(p) == /\ myport2sn(p) = a.slot
                      /\ \A i \in DOMAIN frames' : frames'[i].slot # a.slot
<1>0. Types /\ TypeOK
  BY DEF Inv, Types
<1>1. /\ frames # <<>> /\ frames' = Tail(frames) /\ frames \in Seq(Frames)
      /\ unreported' = [p \in Ports |-> IF last(p) THEN Settings ELSE unreported[p]]
      /\ UNCHANGED served /\ FramesUnchanged
  BY <1>0 DEF FrameMissed, Types
<1>2. a \in Frames
  BY <1>1, HeadTailProperties
<1> HIDE DEF a
<1>3. unreported' \in [Ports -> SUBSET Settings]
  BY <1>0, <1>1 DEF Types
<1>4. \A p \in open : Reported(p)'
  <2> SUFFICES ASSUME NEW p \in open, p \in 3000 .. 3007, Alone(p),
                      NEW w \in Settings \ unreported'[p]
               PROVE  Shown(frames', served, Slot(p), w, gport_stat[Slot(p)][w])
    BY <1>1 DEF Reported, Alone, FramesUnchanged
  <2> DEFINE v == gport_stat[Slot(p)][w]
             s == Slot(p)
  <2>1. p \in Ports /\ s = myport2sn(p)
    BY <1>0, SlotType DEF TypeOK
  <2>2. ~last(p) /\ w \in Settings \ unreported[p]
    BY <1>1, <2>1
  <2>3. Shown(frames, served, s, w, v)
    BY <2>2 DEF Inv, Reports, Reported
  <2> HIDE DEF v, s
  <2>4. /\ \A i \in LastFrames(frames', s) : frames'[i].set[w] = v
        /\ (\A i \in DOMAIN frames' : frames'[i].slot # s) =>
                (a.slot = s => a.set[w] = v) /\ (a.slot # s => served[s][w] = v)
    <3>1. frames \in Seq(Frames) /\ Shown(frames, served, s, w, v)
      BY <1>1, <2>3
    <3>2. Taken(frames, a, frames')
      BY <1>1 DEF Taken, a
    <3> QED BY <3>1, <3>2, ShownTaken
  <2>5. Shown(frames', served, s, w, v)
    BY <2>1, <2>2, <2>4 DEF Shown
  <2> QED BY <2>5 DEF v, s
<1>5. served' \in Tables
  BY <1>0, <1>1 DEF TypeOK
<1> QED BY <1>1, <1>3, <1>4, <1>5, FrameTaken

-----------------------------------------------------------------------------

LEMMA InitInv == Init => Inv
<1> SUFFICES ASSUME Init PROVE Inv
  OBVIOUS
<1>1. TypeOK
  <2>1. \A o \in Ports : \A w \in Settings : dev[o].set[w] \in Valid(w)
    BY TableTypes DEF Init
  <2>2. gport_stat \in Tables /\ served \in Tables
    BY TableTypes DEF Init, Tables
  <2>3. Len(<<>>) = 0 /\ MaxXmit \in Nat
    BY ComPortBounds
  <2> QED BY <2>1, <2>2, <2>3 DEF Init, TypeOK
<1>2. Types
  <2>1. dev \in [Ports -> Devices]
    BY TableTypes DEF Init
  <2>2. told \in [Ports -> [Subjects -> Nat]]
    BY DEF Init, None
  <2> QED BY <1>1, <2>1, <2>2 DEF Init, Types
<1>3. Idle
  BY DEF Init, Idle
<1>4. Agree /\ Reports
  BY DEF Init, Agree, Reports
<1> QED BY <1>2, <1>3, <1>4 DEF Inv

LEMMA StepInv == Inv /\ [Next]_vars => Inv'
<1> SUFFICES ASSUME Inv, [Next]_vars PROVE Inv'
  OBVIOUS
<1>1. CASE udpa0
  BY <1>1, UdpInv
<1>2. CASE FrameMissed
  BY <1>2, MissedInv
<1>3. ASSUME NEW p \in Ports, \E r \in Requests[p] : ClientSends(p, r) PROVE Inv'
  BY <1>3, ClientSendsInv
<1>4. ASSUME NEW p \in Ports, ClientReceives(p) PROVE Inv'
  BY <1>4, ClientReceivesInv
<1>5. ASSUME NEW p \in Ports, \E on \in SUBSET ModemLines : LinesChange(p, on)
      PROVE  Inv'
  BY <1>5, LinesChangeInv
<1>6. ASSUME NEW p \in Ports, \E opens \in BOOLEAN : setup_tcp_port(p, opens)
      PROVE  Inv'
  BY <1>6, SetupInv
<1>7. ASSUME NEW p \in Ports, shutdown_port(p) PROVE Inv'
  BY <1>7, OverInv DEF shutdown_port
<1>8. ASSUME NEW p \in Ports, handle_tcp_fd_read(p) PROVE Inv'
  BY <1>8, ReadInv
<1>9. ASSUME NEW p \in Ports, ReadEnds(p) PROVE Inv'
  BY <1>9, ReadEndsInv
<1>10. ASSUME NEW p \in Ports, got_timeout(p) PROVE Inv'
  BY <1>10, TimeoutInv
<1>11. CASE UNCHANGED vars
  <2>1. Types'
    BY <1>11 DEF Inv, Types, TypeOK, vars
  <2> QED BY <1>11, <2>1, Rest DEF vars
<1> QED BY <1>1, <1>2, <1>3, <1>4, <1>5, <1>6, <1>7, <1>8, <1>9, <1>10, <1>11 DEF Next

LEMMA InvHolds == Spec => []Inv
<1>1. Init => Inv
  BY InitInv
<1>2. Inv /\ [Next]_vars => Inv'
  BY StepInv
<1> QED BY <1>1, <1>2, PTL DEF Spec

\* Every variable keeps its type, and no more answers are queued than
\* out_telnet_cmd has room for.
THEOREM TypeCorrect == Spec => []TypeOK
<1>1. Inv => TypeOK
  BY DEF Inv, Types
<1> QED BY <1>1, InvHolds, PTL

LEMMA InvAgree == Inv => SettingsAgree
<1> SUFFICES ASSUME Inv, NEW p \in open, NEW w \in Subjects \ {"inflow"},
                    ~error[p], Told(p, w) # None
             PROVE  /\ w \notin refused[p] \cap Unverified =>
                        Told(p, w) = Reads(dev[p], w)
                    /\ w \in Settings /\ Alone(p) =>
                        gport_stat[Slot(p)][w] = Code(w, Told(p, w))
  BY DEF SettingsAgree
<1>1. p \in Ports /\ Types
  BY DEF Inv, Types, TypeOK
<1>2. Told(p, w) \in Answers(out[p], w, told[p][w])
  BY <1>1, ToldAnswers
<1>3. True(p, w, Told(p, w))
  BY <1>2 DEF Inv, Agree, Answered
<1> QED BY <1>3 DEF True

\* What a client was last answered is what the table shows, if the port has its
\* entry to itself, and what the device is set to unless it refused that value of
\* a subject com_port_handler does not read back.
THEOREM SettingsAgreeThm == Spec => []SettingsAgree
BY InvAgree, InvHolds, PTL

LEMMA InvReport == Inv => LastReport
<1> SUFFICES ASSUME Inv, NEW p \in open, p \in 3000 .. 3007, Alone(p), ~error[p],
                    \A w \in Settings : Told(p, w) # None,
                    unreported[p] = {}, frames = <<>>, NEW w \in Settings
             PROVE  /\ served[Slot(p)][w] = Code(w, Told(p, w))
                    /\ w \notin refused[p] \cap Unverified =>
                        served[Slot(p)][w] = Code(w, dev[p].set[w])
  BY DEF LastReport
<1>1. /\ gport_stat[Slot(p)][w] = Code(w, Told(p, w))
      /\ w \notin refused[p] \cap Unverified => Told(p, w) = Reads(dev[p], w)
  BY InvAgree, Strings DEF SettingsAgree
<1>2. Shown(frames, served, Slot(p), w, gport_stat[Slot(p)][w])
  BY DEF Inv, Reports, Reported
<1>3. served[Slot(p)][w] = gport_stat[Slot(p)][w]
  BY <1>2 DEF Shown
<1>4. Reads(dev[p], w) = dev[p].set[w]
  BY SettingsAssumption DEF Reads
<1> QED BY <1>1, <1>3, <1>4

\* Once a client has been answered on every setting, on the stop size last, and
\* the frames have been taken, the status server shows what the client was told,
\* and what the device is set to unless it refused a value that is not read back:
\* udp_a010 sends the table as it is after the answer.
THEOREM LastReportThm == Spec => []LastReport
BY InvReport, InvHolds, PTL

=============================================================================
