----------------------------- MODULE BoardProofs -----------------------------
(***************************************************************************)
(* Proofs about two small programs of the board, beside ser2net and the    *)
(* status server.                                                          *)
(*                                                                         *)
(* Mrs, for any addresses, any requests and any number of failing calls:   *)
(* under the lock nobody sends on a socket that is not ready; a box that   *)
(* listens serves its ports; and the two threads implement the box of      *)
(* module Box.  Keypad, for any set of keys: key events follow the lines.  *)
(***************************************************************************)
EXTENDS Mrs, Keypad, TLAPS

-----------------------------------------------------------------------------
(* Mrs.                                                                    *)

\* Where a thread is while it holds the lock, apart from spinning for ever.
Sending == {"msend", "socket", "interface", "sendto"}

\* One thread sends at a time, on a socket that is ready unless the thread that
\* holds the lock is making it, or has failed to and never lets go.
Socket ==
    /\ \A t \in Threads : pc[t] \in Sending => lock = t
    /\ sdmsOpen /\ sdms # "ready" =>
        \E t \in Threads : lock = t /\ pc[t] \in {"socket", "interface", "spin"}
    /\ SendsOnSocket

\* While ser2net is stopped, thread_rcv is on its way to a restart or gone.
Stopped == ~ser2net => pc["rcv"] \in {"write", "reboot", "gone"}

\* What thread_rcv is carrying out has been asked for and is whole; the script
\* it restarts the machine with has the address asked for.
Obeyed ==
    /\ inbox \subseteq asked /\ asked \subseteq Requests
    /\ pc["rcv"] \in {"build", "kill", "write", "reboot"} =>
        para_rbuf \in asked /\ para_rbuf.whole
    /\ pc["rcv"] = "build" => para_rbuf.header = "getip"
    /\ pc["rcv"] \in {"kill", "write", "reboot"} => para_rbuf.header = "changeip"
    /\ pc["rcv"] = "reboot" => batip0 = para_rbuf.ip

\* A message the box may send now.
Announcement(m, a) ==
    \E to \in {TheBox!Group, TheBox!Unset} : m = TheBox!Message(to, None, a)
Answer(m, a) ==
    \E r \in asked : /\ r.header = "getip" /\ r.whole
                     /\ m = TheBox!Message(r.to, r.id, a)
Sendable(m) ==
    \E a \in {ip, Stack} :
        TheBox!Told(a) /\ (Announcement(m, a) \/ Answer(m, a))

\* The message a thread is about to send is one of those.
Current ==
    \A t \in Threads : pc[t] \in Sending \cup {"lock"} => Sendable(msbuf[t])

\* The parts of TypeOK, and what the provers need to know of msbuf.
Types ==
    /\ pc \in [Threads -> {"start", "open", "read", "build", "lock", "msend",
                           "socket", "interface", "sendto", "sleep", "spin",
                           "kill", "write", "reboot", "gone"}]
    /\ lock \in Threads \cup {None}
    /\ sdms \in {"none", "made", "ready"}
    /\ failures \in 0 .. MaxFailures
    /\ msbuf = [t \in Threads |-> msbuf[t]]
Flags ==
    /\ sdmsOpen \in BOOLEAN /\ sdmrOpen \in BOOLEAN
    /\ para \in BOOLEAN /\ ser2net \in BOOLEAN

Inv == Types /\ Socket /\ Stopped /\ Obeyed /\ Current

-----------------------------------------------------------------------------

LEMMA InitInv == Init => Inv
<1> SUFFICES ASSUME Init PROVE Inv
  OBVIOUS
<1>1. Types
  BY MrsAssumption DEF Init, Types, Threads
<1>2. Socket /\ Stopped /\ Obeyed /\ Current
  BY DEF Init, Socket, Stopped, Obeyed, Current, SendsOnSocket, Sending, Threads
<1> QED  BY <1>1, <1>2 DEF Inv

LEMMA TypesStep == Types /\ [Next]_vars => Types'
<1> SUFFICES ASSUME Types, [Next]_vars PROVE Types'
  OBVIOUS
<1> USE MrsAssumption DEF Types, Threads, Fails
<1>1. ASSUME NEW t \in Threads, ms_ser2net(t) PROVE Types'
  <2>1. CASE Build(t)
    BY <2>1 DEF Build, Goes, Message, SendUnchanged
  <2>2. CASE Lock(t) \/ MsendStarts(t)
    BY <2>2 DEF Lock, MsendStarts, Goes, SendUnchanged
  <2>3. CASE MakeSocket(t)
    BY <2>3 DEF MakeSocket, Goes, SendUnchanged
  <2>4. CASE SetInterface(t)
    BY <2>4 DEF SetInterface, Goes, SendUnchanged
  <2>5. CASE SendAndUnlock(t)
    BY <2>5 DEF SendAndUnlock, Released, Goes, After, SendUnchanged
  <2> QED  BY <1>1, <2>1, <2>2, <2>3, <2>4, <2>5 DEF ms_ser2net
<1>2. CASE Sleep \/ Reboot
  BY <1>2 DEF Sleep, Reboot, Booted, Goes, SendUnchanged
<1>6. CASE SetPara \/ Kill
  BY <1>6 DEF SetPara, Kill, Goes, RcvUnchanged
<1>7. CASE mrinit
  BY <1>7 DEF mrinit, Goes, RcvUnchanged
<1>8. CASE Write
  BY <1>8 DEF Write, Goes, Ends, RcvUnchanged
<1>3. ASSUME NEW r \in Requests, mrcv(r) \/ ClientSends(r) \/ RequestLost(r)
      PROVE  Types'
  BY <1>3 DEF mrcv, LeadsTo, ClientSends, RequestLost, Goes, RcvUnchanged
<1>4. ASSUME NEW m \in net, Gone(m) PROVE Types'
  BY <1>4 DEF Gone
<1>5. CASE UNCHANGED vars
  BY <1>5 DEF vars
<1> QED  BY <1>1, <1>2, <1>3, <1>4, <1>5, <1>6, <1>7, <1>8 DEF Next

LEMMA FlagsStep == Flags /\ [Next]_vars => Flags'
<1> SUFFICES ASSUME Flags, [Next]_vars PROVE Flags'
  OBVIOUS
<1> USE DEF Flags
<1>1. ASSUME NEW t \in Threads, ms_ser2net(t) PROVE Flags'
  BY <1>1 DEF ms_ser2net, Build, Lock, MsendStarts, MakeSocket, SetInterface,
              SendAndUnlock, SendUnchanged
<1>2. CASE Sleep \/ SetPara \/ mrinit \/ Kill \/ Write \/ Reboot
  BY <1>2 DEF Sleep, SetPara, mrinit, Kill, Write, Reboot, Booted,
              SendUnchanged, RcvUnchanged
<1>3. ASSUME NEW r \in Requests, mrcv(r) \/ ClientSends(r) \/ RequestLost(r)
      PROVE  Flags'
  BY <1>3 DEF mrcv, ClientSends, RequestLost, RcvUnchanged
<1>4. ASSUME NEW m \in net, Gone(m) PROVE Flags'
  BY <1>4 DEF Gone
<1>5. CASE UNCHANGED vars
  BY <1>5 DEF vars
<1> QED  BY <1>1, <1>2, <1>3, <1>4, <1>5 DEF Next

\* The lock, the socket and the thread that sends on it.
LEMMA SocketStep == Types /\ Socket /\ [Next]_vars => Socket'
<1> SUFFICES ASSUME Types, Socket, [Next]_vars PROVE Socket'
  OBVIOUS
<1> USE MrsAssumption DEF Types, Socket, Threads, Sending, SendsOnSocket
<1>1. ASSUME NEW t \in Threads, ms_ser2net(t) PROVE Socket'
  <2>1. CASE Build(t)
    BY <2>1 DEF Build, Goes, SendUnchanged
  <2>2. CASE Lock(t)
    BY <2>2 DEF Lock, Free, Goes, SendUnchanged
  <2>3. CASE MsendStarts(t)
    BY <2>3 DEF MsendStarts, Goes, SendUnchanged
  <2>4. CASE MakeSocket(t)
    BY <2>4 DEF MakeSocket, Goes, SendUnchanged
  <2>5. CASE SetInterface(t)
    BY <2>5 DEF SetInterface, Goes, SendUnchanged
  <2>6. CASE SendAndUnlock(t)
    BY <2>6 DEF SendAndUnlock, Released, After, Goes, SendUnchanged
  <2> QED  BY <1>1, <2>1, <2>2, <2>3, <2>4, <2>5, <2>6 DEF ms_ser2net
<1>2. CASE Sleep
  BY <1>2 DEF Sleep, Goes, SendUnchanged
<1>3. CASE SetPara \/ mrinit \/ Kill \/ Write
  BY <1>3 DEF SetPara, mrinit, Kill, Write, Goes, Ends, RcvUnchanged
<1>4. CASE Reboot
  BY <1>4 DEF Reboot, Booted
<1>5. ASSUME NEW r \in Requests, mrcv(r) \/ ClientSends(r) \/ RequestLost(r)
      PROVE  Socket'
  BY <1>5 DEF mrcv, LeadsTo, ClientSends, RequestLost, Goes, RcvUnchanged
<1>6. ASSUME NEW m \in net, Gone(m) PROVE Socket'
  BY <1>6 DEF Gone
<1>7. CASE UNCHANGED vars
  BY <1>7 DEF vars
<1> QED  BY <1>1, <1>2, <1>3, <1>4, <1>5, <1>6, <1>7 DEF Next

\* ser2net is stopped by Kill only, and thread_rcv comes back by a restart only.
LEMMA StoppedStep == Types /\ Stopped /\ [Next]_vars => Stopped'
<1> SUFFICES ASSUME Types, Stopped, [Next]_vars PROVE Stopped'
  OBVIOUS
<1> USE DEF Types, Stopped, Threads
<1>1. ASSUME NEW t \in Threads, ms_ser2net(t) PROVE Stopped'
  <2>1. CASE Build(t) \/ Lock(t) \/ MsendStarts(t)
    BY <2>1 DEF Build, Lock, MsendStarts, Goes, SendUnchanged
  <2>2. CASE MakeSocket(t) \/ SetInterface(t) \/ SendAndUnlock(t)
    BY <2>2 DEF MakeSocket, SetInterface, SendAndUnlock, Goes, SendUnchanged
  <2> QED  BY <1>1, <2>1, <2>2 DEF ms_ser2net
<1>2. CASE Sleep
  BY <1>2 DEF Sleep, Goes, SendUnchanged
<1>3. CASE SetPara \/ mrinit \/ Kill \/ Write \/ Reboot
  BY <1>3 DEF SetPara, mrinit, Kill, Write, Reboot, Booted, Goes, Ends
<1>4. ASSUME NEW r \in Requests, mrcv(r) \/ ClientSends(r) \/ RequestLost(r)
      PROVE  Stopped'
  BY <1>4 DEF mrcv, ClientSends, RequestLost, Goes
<1>5. ASSUME NEW m \in net, Gone(m) PROVE Stopped'
  BY <1>5 DEF Gone
<1>6. CASE UNCHANGED vars
  BY <1>6 DEF vars
<1> QED  BY <1>1, <1>2, <1>3, <1>4, <1>5, <1>6 DEF Next

\* thread_rcv carries out what it has read, and reads only what was sent.
LEMMA ObeyedStep == Types /\ Obeyed /\ [Next]_vars => Obeyed'
<1> SUFFICES ASSUME Types, Obeyed, [Next]_vars PROVE Obeyed'
  OBVIOUS
<1> USE DEF Types, Obeyed, Threads
<1>1. ASSUME NEW t \in Threads, ms_ser2net(t) PROVE Obeyed'
  <2>1. CASE Build(t) \/ Lock(t) \/ MsendStarts(t)
    BY <2>1 DEF Build, Lock, MsendStarts, Goes, SendUnchanged
  <2>2. CASE MakeSocket(t) \/ SetInterface(t) \/ SendAndUnlock(t)
    BY <2>2 DEF MakeSocket, SetInterface, SendAndUnlock, After, Goes,
                SendUnchanged
  <2> QED  BY <1>1, <2>1, <2>2 DEF ms_ser2net
<1>2. CASE Sleep
  BY <1>2 DEF Sleep, Goes, SendUnchanged
<1>3. CASE SetPara \/ mrinit \/ Kill \/ Write
  BY <1>3 DEF SetPara, mrinit, Kill, Write, Goes, Ends, RcvUnchanged
<1>4. CASE Reboot
  BY <1>4 DEF Reboot, Booted
<1>5. ASSUME NEW r \in Requests, mrcv(r) PROVE Obeyed'
  BY <1>5, MrsAssumption DEF mrcv, LeadsTo, Goes, RcvUnchanged
<1>6. ASSUME NEW r \in Requests, ClientSends(r) \/ RequestLost(r)
      PROVE  Obeyed'
  BY <1>6 DEF ClientSends, RequestLost
<1>7. ASSUME NEW m \in net, Gone(m) PROVE Obeyed'
  BY <1>7 DEF Gone
<1>8. CASE UNCHANGED vars
  BY <1>8 DEF vars
<1> QED  BY <1>1, <1>2, <1>3, <1>4, <1>5, <1>6, <1>7, <1>8 DEF Next

\* The address in a message that waits stays the machine's: only a restart
\* changes it, and what waits does not survive that.
LEMMA CurrentStep == Types /\ Obeyed /\ Current /\ [Next]_vars => Current'
<1> SUFFICES ASSUME Types, Obeyed, Current, [Next]_vars PROVE Current'
  OBVIOUS
<1> USE DEF Types, Current, Threads, Sending
<1>0. ASSUME NEW m, Sendable(m), ip' = ip, asked \subseteq asked',
             failures' = failures \/ Fails
      PROVE  Sendable(m)'
  <2>1. failures > 0 => failures' > 0
    BY <1>0, MrsAssumption DEF Fails
  <2>2. PICK a \in {ip, Stack} :
            TheBox!Told(a) /\ (Announcement(m, a) \/ Answer(m, a))
    BY <1>0 DEF Sendable
  <2>3. TheBox!Told(a)' /\ a \in {ip', Stack}
    BY <1>0, <2>1, <2>2 DEF TheBox!Told
  <2>4. Announcement(m, a)' \/ Answer(m, a)'
    BY <1>0, <2>2
       DEF Announcement, Answer, TheBox!Message, TheBox!Group, TheBox!Unset
  <2> QED BY <2>3, <2>4 DEF Sendable
<1>1. ASSUME NEW t \in Threads, ms_ser2net(t) PROVE Current'
  <2>1. CASE Build(t)
    <3>0. failures' = failures \/ Fails
      BY <2>1 DEF Build
    <3>1. ASSUME NEW a \in {ip, Stack}, NEW m, m = About(t, a), TheBox!Told(a)'
          PROVE  Sendable(m)'
      <4>1. Announcement(m, a)' \/ Answer(m, a)'
        BY <2>1, <3>1
           DEF Build, Goes, SendUnchanged, About, Reply, Announced, Announcement,
               Answer, Obeyed, TheBox!Message
      <4> QED BY <2>1, <3>1, <4>1 DEF Sendable, Build, SendUnchanged
    <3>2. PICK a \in {ip, Stack} : TheBox!Told(a)' /\ msbuf'[t] = About(t, a)
      <4>1. \A a \in {ip, Stack} : a = ip \/ Fails => TheBox!Told(a)'
        BY <2>1, MrsAssumption DEF TheBox!Told, Fails, Build, SendUnchanged
      <4>2. \/ msbuf'[t] = About(t, ip)
            \/ msbuf'[t] = About(t, Stack) /\ Fails
        BY <2>1 DEF Build, Message
      <4> QED BY <4>1, <4>2
    <3>3. PICK m : m = msbuf'[t]
      OBVIOUS
    <3>4. Sendable(msbuf[t])'
      <4>1. Sendable(m)'
        BY <3>1, <3>2, <3>3
      <4> QED BY <3>3, <4>1 DEF Sendable, Announcement, Answer
    <3>5. ASSUME NEW u \in Threads \ {t}, pc'[u] \in Sending \cup {"lock"}
          PROVE  Sendable(msbuf[u])'
      <4> DEFINE waits == msbuf[u]
      <4>1. msbuf'[u] = waits /\ pc'[u] = pc[u]
        BY <2>1, <3>5 DEF Build, Message, Goes
      <4>2. Sendable(waits) /\ ip' = ip /\ asked \subseteq asked'
        BY <2>1, <3>5, <4>1 DEF Build, SendUnchanged
      <4>3. \A x : Sendable(x) => Sendable(x)'
        BY <1>0, <3>0, <4>2
      <4> QED BY <4>1, <4>2, <4>3
    <3> QED  BY <3>4, <3>5
  <2>2. CASE Lock(t) \/ MsendStarts(t)
    BY <1>0, <2>2 DEF Lock, MsendStarts, Goes, SendUnchanged
  <2>3. CASE MakeSocket(t) \/ SetInterface(t) \/ SendAndUnlock(t)
    <3>1. failures' = failures \/ Fails
      BY <2>3 DEF MakeSocket, SetInterface, SendAndUnlock
    <3> QED BY <1>0, <2>3, <3>1
            DEF MakeSocket, SetInterface, SendAndUnlock, After, Goes, SendUnchanged
  <2> QED  BY <1>1, <2>1, <2>2, <2>3 DEF ms_ser2net
<1>2. CASE Sleep
  BY <1>0, <1>2 DEF Sleep, Goes, SendUnchanged
<1>3. CASE SetPara \/ mrinit \/ Kill \/ Write
  <2>1. failures' = failures \/ Fails
    BY <1>3 DEF SetPara, mrinit, Kill, Write
  <2> QED BY <1>0, <1>3, <2>1
          DEF SetPara, mrinit, Kill, Write, Goes, Ends, RcvUnchanged
<1>4. CASE Reboot
  BY <1>4 DEF Reboot, Booted
<1>5. ASSUME NEW r \in Requests, mrcv(r) PROVE Current'
  BY <1>0, <1>5 DEF mrcv, LeadsTo, Goes, RcvUnchanged
<1>6. ASSUME NEW r \in Requests, ClientSends(r) \/ RequestLost(r)
      PROVE  Current'
  BY <1>0, <1>6 DEF ClientSends, RequestLost
<1>7. ASSUME NEW m \in net, Gone(m) PROVE Current'
  BY <1>0, <1>7 DEF Gone
<1>8. CASE UNCHANGED vars
  BY <1>0, <1>8 DEF vars
<1> QED  BY <1>1, <1>2, <1>3, <1>4, <1>5, <1>6, <1>7, <1>8 DEF Next

-----------------------------------------------------------------------------

\* The inductive invariant holds of every reachable state.
THEOREM Invariance == Spec => []Inv
<1>1. Inv /\ [Next]_vars => Inv'
  BY TypesStep, SocketStep, StoppedStep, ObeyedStep, CurrentStep DEF Inv
<1> QED  BY InitInv, <1>1, PTL DEF Spec

\* Every variable keeps its type.
THEOREM TypeCorrect == Spec => []TypeOK
<1>1. Init => Flags
  BY DEF Init, Flags
<1>2. Inv /\ Flags => TypeOK
  BY DEF Inv, Types, Flags, TypeOK
<1> QED  BY <1>1, <1>2, FlagsStep, Invariance, PTL DEF Spec

\* Although msinit marks the socket as open before it makes it, nobody ever
\* sends on one that is not ready, however many calls fail.
THEOREM SendsOnSocketThm == Spec => []SendsOnSocket
<1>1. Inv => SendsOnSocket
  BY DEF Inv, Socket
<1> QED  BY <1>1, Invariance, PTL

\* A box that takes requests serves its ports: changeIP never comes back with
\* ser2net stopped.
THEOREM ServesWhileListeningThm == Spec => []ServesWhileListening
<1>1. Inv => ServesWhileListening
  BY DEF Inv, Stopped, ServesWhileListening
<1> QED  BY <1>1, Invariance, PTL

\* Every step of the threads is one of the box, or none: what a box sends
\* was asked for or is an announcement, it carries its present address as long
\* as no call of its kernel has failed, and its address only changes to one that
\* was asked for.
THEOREM Implementation == Spec => ImplementsBox
<1>1. Init => TheBox!BoxInit
  BY DEF Init, TheBox!BoxInit
<1>2. Inv /\ [Next]_vars => [TheBox!BoxNext]_(TheBox!boxVars)
  <2> SUFFICES ASSUME Inv, [Next]_vars
               PROVE  TheBox!BoxNext \/ UNCHANGED TheBox!boxVars
    OBVIOUS
  <2> USE DEF TheBox!boxVars
  <2>1. ASSUME NEW t \in Threads, SendAndUnlock(t)
        PROVE  TheBox!BoxNext \/ UNCHANGED TheBox!boxVars
    <3>1. Sendable(msbuf[t])
      BY <2>1 DEF Inv, Current, SendAndUnlock, Goes, Sending
    <3>2. CASE net' = net \cup {msbuf[t]} /\ UNCHANGED failures
      <4>1. UNCHANGED <<ip, asked>>
        BY <2>1 DEF SendAndUnlock, SendUnchanged
      <4>2. PICK a \in {ip, Stack} :
                /\ TheBox!Told(a)
                /\ Announcement(msbuf[t], a) \/ Answer(msbuf[t], a)
        BY <3>1 DEF Sendable
      <4>3. CASE Announcement(msbuf[t], a)
        BY <3>2, <4>1, <4>2, <4>3
           DEF Announcement, TheBox!BoxNext, TheBox!Announces
      <4>4. CASE Answer(msbuf[t], a)
        BY <3>2, <4>1, <4>2, <4>4
           DEF Answer, TheBox!BoxNext, TheBox!Replies, Inv, Obeyed
      <4> QED  BY <4>2, <4>3, <4>4
    <3>3. CASE Fails /\ UNCHANGED net
      BY <2>1, <3>3 DEF SendAndUnlock, SendUnchanged, Fails, TheBox!BoxNext,
                        TheBox!CallFails
    <3> QED  BY <2>1, <3>2, <3>3 DEF SendAndUnlock
  <2>2. ASSUME NEW t \in Threads,
               Build(t) \/ Lock(t) \/ MsendStarts(t) \/ MakeSocket(t)
                   \/ SetInterface(t)
        PROVE  TheBox!BoxNext \/ UNCHANGED TheBox!boxVars
    BY <2>2 DEF Build, Lock, MsendStarts, MakeSocket, SetInterface,
                SendUnchanged, Fails, TheBox!BoxNext, TheBox!CallFails
  <2>3. CASE Sleep \/ SetPara \/ mrinit \/ Kill \/ Write
    BY <2>3 DEF Sleep, SetPara, mrinit, Kill, Write, SendUnchanged,
                RcvUnchanged, Fails, TheBox!BoxNext, TheBox!CallFails
  <2>4. CASE Reboot
    <3>1. TheBox!Changes(para_rbuf) /\ para_rbuf \in Requests
      BY <2>4 DEF Inv, Obeyed, Reboot, Booted, ComesUp, TheBox!Changes
    <3> QED  BY <3>1 DEF TheBox!BoxNext
  <2>5. ASSUME NEW r \in Requests, ClientSends(r)
        PROVE  TheBox!BoxNext
    BY <2>5 DEF ClientSends, TheBox!BoxNext, TheBox!Asked
  <2>6. ASSUME NEW r \in Requests, mrcv(r) \/ RequestLost(r)
        PROVE  UNCHANGED TheBox!boxVars
    BY <2>6 DEF mrcv, RequestLost, RcvUnchanged
  <2>7. ASSUME NEW m \in net, Gone(m) PROVE TheBox!BoxNext
    BY <2>7 DEF Gone, TheBox!BoxNext, TheBox!Gone
  <2>8. CASE UNCHANGED vars
    BY <2>8 DEF vars
  <2> QED  BY <2>1, <2>2, <2>3, <2>4, <2>5, <2>6, <2>7, <2>8
           DEF Next, ms_ser2net
<1> QED  BY <1>1, <1>2, Invariance, PTL DEF Spec, ImplementsBox, TheBox!BoxSpec

-----------------------------------------------------------------------------
(* Keypad.                                                                 *)

\* What the last two samples say of a key: they are low before it was released
\* once, and once they agree, the kernel has been told.
Sampled ==
    \A k \in Keys :
        /\ k \notin released => gpio1[k] = Low /\ gpio2[k] = Low
        /\ k \in released /\ gpio1[k] = gpio2[k] => twice[k] = gpio2[k]

KeypadInv == KeypadTypeOK /\ Sampled /\ KeyFollowsLine

LEMMA KeypadInitInv == KeypadInit => KeypadInv
BY DEF KeypadInit, KeypadInv, KeypadTypeOK, Sampled, KeyFollowsLine, Levels, Low, High, Held

LEMMA BouncesInv ==
    ASSUME KeypadInv, NEW k \in Keys, Bounces(k) PROVE KeypadInv'
<1>1. KeypadTypeOK'
  BY DEF Bounces, KeypadInv, KeypadTypeOK, Levels, Low, High
<1> QED BY <1>1 DEF Bounces, KeypadInv, Sampled, KeyFollowsLine

LEMMA SampleInv ==
    ASSUME KeypadInv, foo PROVE KeypadInv'
<1>1. KeypadTypeOK'
  BY DEF foo, KeypadInv, KeypadTypeOK
<1>2. ASSUME NEW k \in Keys
      PROVE  /\ k \notin released' => gpio1'[k] = Low /\ gpio2'[k] = Low
             /\ k \in released' /\ gpio1'[k] = gpio2'[k] => twice'[k] = gpio2'[k]
             /\ k \in down' <=> twice'[k] = Low
  <2>1. /\ gpio0'[k] = gpio1[k] /\ gpio1'[k] = gpio2[k] /\ gpio2'[k] = line[k]
        /\ k \in down' <=> key1(k)
        /\ k \in released' <=> k \in released \/ line[k] = High
        /\ twice'[k] = IF gpio2[k] = line[k] /\ k \in released'
                       THEN line[k] ELSE twice[k]
    BY DEF foo
  <2>2. /\ gpio1[k] \in {Low, High} /\ gpio2[k] \in {Low, High}
        /\ line[k] \in {Low, High} /\ Low # High
    BY DEF KeypadInv, KeypadTypeOK, Levels, Low, High
  <2>3. /\ k \notin released => gpio1[k] = Low /\ gpio2[k] = Low
        /\ k \in released /\ gpio1[k] = gpio2[k] => twice[k] = gpio2[k]
        /\ k \in down <=> twice[k] = Low
    BY DEF KeypadInv, Sampled, KeyFollowsLine
  <2>4. k \in down' <=> IF gpio1[k] = High /\ gpio2[k] = Low /\ line[k] = Low THEN TRUE
                        ELSE IF gpio1[k] = Low /\ gpio2[k] = High /\ line[k] = High
                        THEN FALSE ELSE k \in down
    BY <2>1 DEF key1, Press, Release
  <2> QED BY <2>1, <2>2, <2>3, <2>4
<1> QED BY <1>1, <1>2 DEF KeypadInv, Sampled, KeyFollowsLine

LEMMA KeypadStepInv == KeypadInv /\ [KeypadNext]_keypad_vars => KeypadInv'
<1> SUFFICES ASSUME KeypadInv, [KeypadNext]_keypad_vars PROVE KeypadInv'
  OBVIOUS
<1>1. CASE UNCHANGED keypad_vars
  BY <1>1 DEF keypad_vars, KeypadInv, KeypadTypeOK, Sampled, KeyFollowsLine
<1> QED BY <1>1, BouncesInv, SampleInv DEF KeypadNext

\* However the lines of any number of keys bounce, the kernel takes a key to be
\* down exactly if the last level in two samples running is low.
THEOREM KeyFollowsLineThm == KeypadSpec => []KeyFollowsLine
<1>1. KeypadInv => KeyFollowsLine
  BY DEF KeypadInv
<1> QED BY KeypadInitInv, KeypadStepInv, <1>1, PTL DEF KeypadSpec

=============================================================================
