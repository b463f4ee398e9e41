----------------------------- MODULE Mrs2sProofs -----------------------------
(***************************************************************************)
(* Proofs about module Mrs2s, for any number of clients, broadcasts and    *)
(* statuses: no index leaves its bounds, whichever threads a cancellation  *)
(* leaves running, and a client's process that has heard of a change holds *)
(* the statuses ser2net sent last.                                         *)
(***************************************************************************)
EXTENDS Mrs2s, SequenceTheorems, TLAPS

Busy == {"recv", "copy", "check", "send"}

\* Clients come one after the other, and the parent starts a thread for each.
Order ==
    \E n \in 0 .. MaxClients :
        /\ \A d \in Clients : conn[d] = "none" <=> d > n
        /\ Len(threads[Parent]) <=
            IF pc[Parent] \in {"cancel", "fork", "restart"} THEN n ELSE n + 1

\* The parent has a thread; a child has none, then one, and it is not forked
\* again.
Processes ==
    /\ pc[Parent] \notin {"none", "start", "serve", "exited"}
    /\ Len(threads[Parent]) >= 1
    /\ pc[Parent] \in {"cancel", "fork"} =>
        /\ new_fd[Parent] \in Clients
        /\ pc[new_fd[Parent]] = "none" /\ conn[new_fd[Parent]] # "none"
    /\ \A c \in Clients :
        /\ conn[c] = "none" => pc[c] = "none"
        /\ pc[c] \in {"none", "start"} => Len(threads[c]) = 0 /\ gUDPfd[c] = 0
        /\ pc[c] = "serve" => Len(threads[c]) = 1

\* Whoever reads, reads from a socket that a thread of its process has opened.
Sockets ==
    \A p \in Procs : Alive(p) =>
        /\ gUDPfd[p] \in 0 .. Len(threads[p])
        /\ \A i \in DOMAIN threads[p] : threads[p][i].at \in Busy =>
            gUDPfd[p] # 0 /\ threads[p][i].sock \in DOMAIN threads[p]

\* What the thread t of a client's process knows, whose socket is fd, when
\* there were old broadcasts before it listened and are now broadcasts, and
\* statuses are those the process holds.
Knows(t, fd, old, now, statuses) ==
    /\ ~t.cancelled /\ t.at # "dead"
    /\ t.at # "copy" => t.port = 1
    /\ t.at = "init" => ~t.bound /\ t.queue = <<>>
    /\ t.bound => t.at \in Busy /\ fd = 1 /\ t.sock = 1
    /\ t.bound /\ old < now =>
        IF t.queue # <<>> THEN t.queue[Len(t.queue)] = now
        ELSE IF t.at = "copy"
             THEN t.dgram = now /\ \A j \in 1 .. t.port - 1 : statuses[j] = now
             ELSE statuses = Of(now)
Informed(c) == Knows(threads[c][1], gUDPfd[c], since[c], truth, stat[c])
Told == \A c \in Clients : pc[c] = "serve" => Informed(c)

Inv == ServerOK /\ Order /\ Processes /\ Sockets /\ Told

-----------------------------------------------------------------------------
(* One thread of one process.                                              *)

LEMMA NewThreadType ==
    /\ NewThread \in ThreadRecords
    /\ \A n \in 0 .. MaxChanges : Of(n) \in Statuses
    /\ \A t \in ThreadRecords : Remains(t) \in ThreadRecords
<1>1. \A n \in 0 .. MaxChanges : Of(n) \in Statuses
  BY DEF Of, Statuses
<1>2. NewThread \in ThreadRecords
  BY <1>1, Mrs2sAssumption DEF NewThread, ThreadRecords
<1>3. \A t \in ThreadRecords : Remains(t) \in ThreadRecords
  BY <1>2 DEF Remains, ThreadRecords
<1> QED BY <1>1, <1>2, <1>3

LEMMA Replaced ==
    ASSUME NEW S, NEW q \in Seq(S), NEW i \in DOMAIN q, NEW e \in S
    PROVE  LET r == [q EXCEPT ![i] = e] IN
           /\ r \in Seq(S) /\ Len(r) = Len(q) /\ DOMAIN r = DOMAIN q
           /\ r[i] = e /\ \A j \in DOMAIN q \ {i} : r[j] = q[j]
<1>1. i \in 1 .. Len(q)
  OBVIOUS
<1> QED BY <1>1, ExceptSeq

LEMMA BecomesChanged ==
    ASSUME ServerOK, NEW p \in Procs, NEW i \in DOMAIN threads[p],
           NEW t \in ThreadRecords, Becomes(p, i, t)
    PROVE  /\ threads' \in [Procs -> Seq(ThreadRecords)]
           /\ \A o \in Procs \ {p} : threads'[o] = threads[o]
           /\ Len(threads'[p]) = Len(threads[p])
           /\ DOMAIN threads'[p] = DOMAIN threads[p]
           /\ threads'[p][i] = t
           /\ \A j \in DOMAIN threads[p] \ {i} : threads'[p][j] = threads[p][j]
<1> DEFINE q == [threads[p] EXCEPT ![i] = t]
<1>1. threads[p] \in Seq(ThreadRecords)
  BY DEF ServerOK
<1>2. /\ q \in Seq(ThreadRecords) /\ Len(q) = Len(threads[p])
      /\ DOMAIN q = DOMAIN threads[p]
      /\ q[i] = t /\ \A j \in DOMAIN threads[p] \ {i} : q[j] = threads[p][j]
  BY <1>1, Replaced
<1> HIDE DEF q
<1>3. threads' = [threads EXCEPT ![p] = q]
  BY DEF Becomes, q
<1>4. threads' \in [Procs -> Seq(ThreadRecords)] /\ threads'[p] = q
      /\ \A o \in Procs \ {p} : threads'[o] = threads[o]
  BY <1>2, <1>3 DEF ServerOK
<1> QED BY <1>2, <1>4

-----------------------------------------------------------------------------
(* What a step has to show.                                                *)

\* A step that starts no thread and no process.
LEMMA Shape ==
    ASSUME Inv, new_fd' = new_fd,
           \A o \in Procs : Len(threads'[o]) = Len(threads[o]),
           \A o \in Procs : pc'[o] = pc[o] \/ (pc'[o] = "killed" /\ Alive(o)),
           \A c \in Clients : conn'[c] = "none" <=> conn[c] = "none",
           \A c \in Clients : pc[c] \in {"none", "start"} => gUDPfd'[c] = gUDPfd[c]
    PROVE  Order' /\ Processes'
<1>0. Parent \in Procs /\ Clients \subseteq Procs /\ Parent \notin Clients
  BY Mrs2sAssumption DEF Parent, Procs, Clients
<1>1. Order'
  <2>1. PICK n \in 0 .. MaxClients :
        /\ \A d \in Clients : conn[d] = "none" <=> d > n
        /\ Len(threads[Parent]) <=
            IF pc[Parent] \in {"cancel", "fork", "restart"} THEN n ELSE n + 1
    BY DEF Inv, Order
  <2>2. Len(threads'[Parent]) <=
            IF pc'[Parent] \in {"cancel", "fork", "restart"} THEN n ELSE n + 1
    <3>1. Len(threads'[Parent]) = Len(threads[Parent])
          /\ (pc'[Parent] = pc[Parent] \/ pc'[Parent] = "killed")
      BY <1>0
    <3>2. CASE pc'[Parent] = pc[Parent]
      BY <2>1, <3>1, <3>2
    <3>3. CASE pc'[Parent] = "killed"
      <4>1. Len(threads[Parent]) \in Nat
        BY <1>0 DEF Inv, ServerOK
      <4> QED BY <2>1, <3>1, <3>3, <4>1
    <3> QED BY <3>1, <3>2, <3>3
  <2> QED BY <2>1, <2>2 DEF Order
<1>2. Processes'
  <2>1. /\ pc'[Parent] \notin {"none", "start", "serve", "exited"}
        /\ Len(threads'[Parent]) >= 1
    BY <1>0 DEF Inv, Processes
  <2>2. pc'[Parent] \in {"cancel", "fork"} =>
            /\ new_fd'[Parent] \in Clients
            /\ pc'[new_fd'[Parent]] = "none" /\ conn'[new_fd'[Parent]] # "none"
    BY <1>0 DEF Inv, Processes, Alive
  <2>3. ASSUME NEW c \in Clients
        PROVE  /\ conn'[c] = "none" => pc'[c] = "none"
               /\ pc'[c] \in {"none", "start"} =>
                    Len(threads'[c]) = 0 /\ gUDPfd'[c] = 0
               /\ pc'[c] = "serve" => Len(threads'[c]) = 1
    <3>1. c \in Procs /\ (pc'[c] = pc[c] \/ (pc'[c] = "killed" /\ Alive(c)))
          /\ Len(threads'[c]) = Len(threads[c])
      BY <1>0
    <3> QED BY <3>1 DEF Inv, Processes, Alive
  <2> QED BY <2>1, <2>2, <2>3 DEF Processes
<1> QED BY <1>1, <1>2

OwnSockets(p) ==
    Alive(p) =>
        /\ gUDPfd[p] \in 0 .. Len(threads[p])
        /\ \A i \in DOMAIN threads[p] : threads[p][i].at \in Busy =>
            gUDPfd[p] # 0 /\ threads[p][i].sock \in DOMAIN threads[p]
OwnTold(p) == p \in Clients /\ pc[p] = "serve" => Informed(p)

\* A step of one process.
LEMMA Elsewhere ==
    ASSUME Inv, NEW p \in Procs, truth' = truth,
           \A o \in Procs \ {p} :
                threads'[o] = threads[o] /\ gUDPfd'[o] = gUDPfd[o]
                    /\ stat'[o] = stat[o] /\ pc'[o] = pc[o],
           \A c \in Clients \ {p} : since'[c] = since[c],
           OwnSockets(p)', OwnTold(p)'
    PROVE  Sockets' /\ Told'
<1>0. Clients \subseteq Procs
  BY Mrs2sAssumption DEF Procs, Clients
<1>1. ASSUME NEW o \in Procs PROVE OwnSockets(o)'
  <2>1. CASE o = p
    BY <2>1
  <2>2. CASE o # p
    <3>1. OwnSockets(o)
      BY DEF Inv, Sockets, OwnSockets
    <3> QED BY <2>2, <3>1 DEF OwnSockets, Alive
  <2> QED BY <2>1, <2>2
<1>2. ASSUME NEW c \in Clients, pc'[c] = "serve"
      PROVE  Informed(c)'
  <2>1. CASE c = p
    BY <1>2, <2>1 DEF OwnTold
  <2>2. CASE c # p
    <3>1. Informed(c)
      BY <1>0, <1>2, <2>2 DEF Inv, Told
    <3> QED BY <1>0, <2>2, <3>1 DEF Informed
  <2> QED BY <2>1, <2>2
<1> QED BY <1>1, <1>2 DEF Sockets, Told, OwnSockets

\* The facts every step of thread i of process p starts from.
LEMMA ThreadFacts ==
    ASSUME Inv, NEW p \in Procs, NEW i \in DOMAIN threads[p]
    PROVE  /\ threads[p] \in Seq(ThreadRecords) /\ threads[p][i] \in ThreadRecords
           /\ DOMAIN threads[p] = 1 .. Len(threads[p]) /\ Len(threads[p]) \in Nat
           /\ i \in 1 .. MaxClients + 1
           /\ Len(threads[p]) # 0
           /\ p \in Clients /\ pc[p] = "serve" =>
                i = 1 /\ Len(threads[p]) = 1 /\ Informed(p)
           /\ p \in Clients => pc[p] \notin {"none", "start"}
<1>1. /\ threads[p] \in Seq(ThreadRecords)
      /\ Len(threads[p]) <= MaxClients + 1 /\ MaxClients \in Nat
  BY Mrs2sAssumption DEF Inv, ServerOK
<1>2. /\ DOMAIN threads[p] = 1 .. Len(threads[p]) /\ Len(threads[p]) \in Nat
      /\ threads[p][i] \in ThreadRecords
  BY <1>1
<1> QED BY <1>1, <1>2 DEF Inv, Processes, Told

\* A thread that becomes u and does nothing else to threads and sockets.
LEMMA ThreadInv ==
    ASSUME Inv, NEW p \in Procs, NEW i \in DOMAIN threads[p],
           NEW u \in ThreadRecords, Becomes(p, i, u), Alive(p),
           UNCHANGED <<truth, new_fd, since, gUDPfd>>,
           stat' \in [Procs -> Statuses],
           \A o \in Procs \ {p} : stat'[o] = stat[o],
           seen' \in [Clients -> 0 .. MaxChanges],
           conn' \in [Clients -> {"none", "open", "left", "reset"}],
           \A c \in Clients : conn'[c] = "none" <=> conn[c] = "none",
           pc' = pc \/ pc' = [pc EXCEPT ![p] = "killed"],
           u.at \in Busy => gUDPfd[p] # 0 /\ u.sock \in DOMAIN threads[p],
           p \in Clients /\ pc'[p] = "serve" =>
                Knows(u, gUDPfd'[p], since'[p], truth', stat'[p])
    PROVE  Inv'
<1>0. ServerOK
  BY DEF Inv
<1>1. /\ threads' \in [Procs -> Seq(ThreadRecords)]
      /\ Len(threads'[p]) = Len(threads[p])
      /\ DOMAIN threads'[p] = DOMAIN threads[p]
      /\ threads'[p][i] = u
      /\ \A j \in DOMAIN threads[p] \ {i} : threads'[p][j] = threads[p][j]
      /\ \A o \in Procs \ {p} : threads'[o] = threads[o]
  BY <1>0, BecomesChanged
<1>2. \A o \in Procs : Len(threads'[o]) = Len(threads[o])
  BY <1>1
<1>3. /\ \A o \in Procs : pc'[o] = pc[o] \/ (pc'[o] = "killed" /\ Alive(o))
      /\ \A o \in Procs \ {p} : pc'[o] = pc[o]
      /\ pc' \in [Procs -> {"none", "accept", "cancel", "fork", "restart", "start",
                         "serve", "close", "closed", "exited", "killed"}]
  BY DEF Inv, ServerOK
<1>4. ServerOK'
  BY <1>1, <1>2, <1>3 DEF Inv, ServerOK
<1>5. Order' /\ Processes'
  BY <1>2, <1>3, Shape
<1>6. OwnSockets(p)'
  BY <1>1, <1>3 DEF OwnSockets, Inv, Sockets, Alive
<1>7. OwnTold(p)'
  <2>1. ASSUME p \in Clients, pc'[p] = "serve" PROVE threads'[p][1] = u
    BY <1>1, <1>3, <2>1, ThreadFacts
  <2> QED BY <2>1 DEF OwnTold, Informed
<1>8. Sockets' /\ Told'
  BY <1>1, <1>3, <1>6, <1>7, Elsewhere
<1> QED BY <1>4, <1>5, <1>8 DEF Inv

-----------------------------------------------------------------------------
(* The steps of threads.                                                   *)

LEMMA DiesInv ==
    ASSUME Inv, NEW p \in Procs, NEW i \in DOMAIN threads[p], Dies(p, i)
    PROVE  Inv'
<1> DEFINE u == Remains(threads[p][i])
<1>1. u \in ThreadRecords /\ u.at = "dead"
  BY ThreadFacts, NewThreadType DEF Remains, NewThread
<1>2. ~(p \in Clients /\ pc[p] = "serve")
  BY ThreadFacts DEF Dies, Informed, Knows
<1>3. /\ Becomes(p, i, u) /\ Alive(p)
      /\ UNCHANGED <<truth, conn, seen, since, pc, new_fd, stat, gUDPfd>>
  BY DEF Dies
<1> HIDE DEF u
<1> QED BY <1>1, <1>2, <1>3, ThreadInv DEF Inv, ServerOK, Busy

LEMMA CheckInv ==
    ASSUME Inv, NEW p \in Procs, NEW i \in DOMAIN threads[p], Check(p, i)
    PROVE  Inv'
<1> DEFINE t == threads[p][i]
           u == IF new_fd[p] = None THEN Receiving(p, t)
                ELSE [t EXCEPT !.at = "send"]
<1>1. /\ Becomes(p, i, u) /\ Alive(p) /\ t.at = "check" /\ t \in ThreadRecords
      /\ gUDPfd[p] # 0 /\ gUDPfd[p] \in DOMAIN threads[p]
      /\ t.sock \in DOMAIN threads[p]
      /\ UNCHANGED <<truth, conn, seen, since, pc, new_fd, stat, gUDPfd>>
  BY ThreadFacts DEF Check, At, Inv, Sockets, Busy
<1>2. gUDPfd[p] \in 0 .. MaxClients + 1 /\ Of(0) \in Statuses
  BY NewThreadType, Mrs2sAssumption DEF Inv, ServerOK
<1>3. /\ u \in ThreadRecords /\ u.at \in {"recv", "send"}
      /\ u.sock = gUDPfd[p] \/ u.sock = t.sock
      /\ u.cancelled = t.cancelled /\ u.bound = t.bound /\ u.queue = t.queue
      /\ u.port = t.port
  BY <1>1, <1>2 DEF Receiving, ThreadRecords
<1>4. p \in Clients /\ pc[p] = "serve" => Knows(t, gUDPfd[p], since[p], truth, stat[p])
  BY ThreadFacts DEF Informed
<1> HIDE DEF t, u
<1>5. p \in Clients /\ pc'[p] = "serve" => Knows(u, gUDPfd[p], since[p], truth, stat'[p])
  BY <1>1, <1>3, <1>4 DEF Knows, Busy
<1> QED BY <1>1, <1>3, <1>5, ThreadInv DEF Inv, ServerOK

LEMMA CopyInv ==
    ASSUME Inv, NEW p \in Procs, NEW i \in DOMAIN threads[p], udpaf(p, i)
    PROVE  Inv'
<1> DEFINE t == threads[p][i]
           u == IF Last(t.port)
                THEN [t EXCEPT !.at = "check", !.out = stat'[p], !.port = 1, !.dgram = 0]
                ELSE [t EXCEPT !.port = @ + 1]
<1>1. /\ Becomes(p, i, u) /\ Alive(p) /\ t.at = "copy" /\ t \in ThreadRecords
      /\ gUDPfd[p] # 0 /\ t.sock \in DOMAIN threads[p]
      /\ stat' = [stat EXCEPT ![p][t.port] = t.dgram]
      /\ UNCHANGED <<truth, conn, seen, since, pc, new_fd, gUDPfd>>
  BY ThreadFacts DEF udpaf, At, Inv, Sockets, Busy
<1>2. /\ t.port \in 1 .. NPorts /\ t.dgram \in 0 .. MaxChanges
      /\ NPorts \in Nat \ {0} /\ MaxChanges \in Nat
  BY <1>1, Mrs2sAssumption DEF ThreadRecords
<1>3. /\ stat' \in [Procs -> Statuses]
      /\ stat'[p] = [stat[p] EXCEPT ![t.port] = t.dgram]
      /\ \A o \in Procs \ {p} : stat'[o] = stat[o]
      /\ stat[p] \in Statuses
  BY <1>1, <1>2 DEF Inv, ServerOK, Statuses
<1>4. /\ u \in ThreadRecords /\ u.at \in {"copy", "check"}
      /\ u.sock = t.sock
      /\ u.cancelled = t.cancelled /\ u.bound = t.bound /\ u.queue = t.queue
      /\ t.port = NPorts => u.at = "check" /\ u.port = 1
      /\ t.port # NPorts => u.at = "copy" /\ u.port = t.port + 1 /\ u.dgram = t.dgram
  <2>1. stat'[p] \in Statuses
    BY <1>3
  <2>2. CASE t.port = NPorts
    <3>1. \A w \in Statuses :
            LET v == [t EXCEPT !.at = "check", !.out = w, !.port = 1, !.dgram = 0]
            IN  /\ v \in ThreadRecords /\ v.at = "check" /\ v.sock = t.sock
                /\ v.port = 1
                /\ v.cancelled = t.cancelled /\ v.bound = t.bound
                /\ v.queue = t.queue
      <4> HIDE DEF t
      <4> TAKE w \in Statuses
      <4>1. 0 \in 0 .. MaxChanges /\ 1 \in 1 .. NPorts
        BY <1>2
      <4> QED BY <1>1, <4>1 DEF ThreadRecords
    <3>2. u = [t EXCEPT !.at = "check", !.out = stat'[p], !.port = 1, !.dgram = 0]
      BY <2>2 DEF Last
    <3> HIDE DEF u, t
    <3> QED BY <2>1, <2>2, <3>1, <3>2
  <2>3. CASE t.port # NPorts
    <3>1. u = [t EXCEPT !.port = @ + 1] /\ t.port + 1 \in 1 .. NPorts
      BY <1>2, <2>3 DEF Last
    <3> QED BY <1>1, <2>3, <3>1 DEF ThreadRecords
  <2> QED BY <2>2, <2>3
<1>5. p \in Clients /\ pc[p] = "serve" => Knows(t, gUDPfd[p], since[p], truth, stat[p])
  BY ThreadFacts DEF Informed
<1> HIDE DEF t, u
<1>6. ASSUME p \in Clients, pc'[p] = "serve" PROVE Knows(u, gUDPfd[p], since[p], truth, stat'[p])
  <2>1. Knows(t, gUDPfd[p], since[p], truth, stat[p])
    BY <1>1, <1>5, <1>6
  <2>2. ASSUME t.bound, since[p] < truth, t.queue = <<>>
        PROVE  /\ \A j \in 1 .. t.port : stat'[p][j] = truth
               /\ t.port = NPorts => stat'[p] = Of(truth)
               /\ t.port # NPorts => u.dgram = truth
    <3>1. /\ t.dgram = truth /\ \A j \in 1 .. t.port - 1 : stat[p][j] = truth
      BY <1>1, <2>1, <2>2 DEF Knows
    <3>2. \A j \in 1 .. t.port : stat'[p][j] = truth
      BY <1>2, <1>3, <3>1 DEF Statuses
    <3>3. t.port = NPorts => stat'[p] = Of(truth)
      BY <1>2, <1>3, <3>2 DEF Statuses, Of
    <3> QED BY <1>4, <3>1, <3>2, <3>3
  <2>3. CASE t.port = NPorts
    BY <1>1, <1>2, <1>4, <2>1, <2>2, <2>3 DEF Knows, Busy
  <2>4. CASE t.port # NPorts
    <3>1. u.port - 1 = t.port
      BY <1>2, <1>4, <2>4
    <3> QED BY <1>1, <1>2, <1>4, <2>1, <2>2, <2>4, <3>1 DEF Knows, Busy
  <2> QED BY <2>3, <2>4
<1> QED BY <1>1, <1>3, <1>4, <1>6, ThreadInv DEF Inv, ServerOK

LEMMA SeesAllType ==
    ASSUME Inv, NEW c \in Clients, NEW w \in Statuses, SeesAll(c, w)
    PROVE  seen' \in [Clients -> 0 .. MaxChanges]
<1>1. w[1] \in 0 .. MaxChanges
  BY Mrs2sAssumption DEF Statuses
<1> QED BY <1>1 DEF SeesAll, Inv, ServerOK

LEMMA SendInv ==
    ASSUME Inv, NEW p \in Procs, NEW i \in DOMAIN threads[p], Send(p, i)
    PROVE  Inv'
<1> DEFINE t == threads[p][i]
           u == Receiving(p, t)
           c == new_fd[p]
           closed == c = None \/ pc[p] = "closed"
<1>1. /\ Becomes(p, i, u) /\ Alive(p) /\ t.at = "send" /\ t \in ThreadRecords
      /\ gUDPfd[p] # 0 /\ gUDPfd[p] \in DOMAIN threads[p]
      /\ UNCHANGED <<truth, since, new_fd, stat, gUDPfd>>
  BY ThreadFacts DEF Send, At, Inv, Sockets, Busy
<1>2. gUDPfd[p] \in 0 .. MaxClients + 1 /\ Of(0) \in Statuses
  BY NewThreadType, Mrs2sAssumption DEF Inv, ServerOK
<1>3. /\ u \in ThreadRecords /\ u.at = "recv" /\ u.sock = gUDPfd[p]
      /\ u.cancelled = t.cancelled /\ u.bound = t.bound /\ u.queue = t.queue
      /\ u.port = t.port
  <2> HIDE DEF t
  <2> QED BY <1>1, <1>2 DEF Receiving, ThreadRecords
<1>4. p \in Clients /\ pc[p] = "serve" =>
            Knows(t, gUDPfd[p], since[p], truth, stat[p])
  BY ThreadFacts DEF Informed
<1>5. ~closed => c \in Clients
  BY DEF Inv, ServerOK, Procs, Clients, None
<1>6. seen' \in [Clients -> 0 .. MaxChanges]
  <2>1. CASE ~closed /\ conn[c] = "open"
    <3>1. SeesAll(c, t.out)
      BY <2>1 DEF Send
    <3>2. t.out \in Statuses
      BY <1>1 DEF ThreadRecords
    <3> QED BY <1>5, <2>1, <3>1, <3>2, SeesAllType
  <2>2. CASE ~(~closed /\ conn[c] = "open")
    BY <2>2 DEF Send, Inv, ServerOK
  <2> QED BY <2>1, <2>2
<1>7. /\ conn' \in [Clients -> {"none", "open", "left", "reset"}]
      /\ \A d \in Clients : conn'[d] = "none" <=> conn[d] = "none"
  <2>1. CASE ~closed /\ conn[c] = "left"
    BY <1>5, <2>1 DEF Send, Inv, ServerOK
  <2>2. CASE ~(~closed /\ conn[c] = "left")
    BY <2>2 DEF Send, Inv, ServerOK
  <2> QED BY <2>1, <2>2
<1>8. pc' = pc \/ pc' = [pc EXCEPT ![p] = "killed"]
  BY DEF Send
<1>9. p \in Clients /\ pc'[p] = "serve" => pc[p] = "serve"
  BY <1>8 DEF Inv, ServerOK
<1> HIDE DEF t, u, c, closed
<1>10. p \in Clients /\ pc'[p] = "serve" =>
            Knows(u, gUDPfd'[p], since'[p], truth', stat'[p])
  BY <1>1, <1>3, <1>4, <1>9 DEF Knows, Busy
<1> QED BY <1>1, <1>3, <1>6, <1>7, <1>8, <1>10, ThreadInv DEF Inv, ServerOK

\* The old socket, whoever made it, stays in its thread's record.
LEMMA BindInv ==
    ASSUME Inv, NEW p \in Procs, NEW i \in DOMAIN threads[p],
           udp_broadcast_init(p, i)
    PROVE  Inv'
<1> DEFINE t == threads[p][i]
           u == [t EXCEPT !.bound = TRUE, !.at = "recv", !.sock = i]
<1>0. ServerOK
  BY DEF Inv
<1>1. /\ Becomes(p, i, u) /\ Alive(p) /\ t.at = "init" /\ t \in ThreadRecords
      /\ gUDPfd' = [gUDPfd EXCEPT ![p] = i]
      /\ since' = IF p = Parent THEN since ELSE [since EXCEPT ![p] = truth]
      /\ UNCHANGED <<truth, conn, seen, pc, new_fd, stat>>
      /\ i \in 1 .. Len(threads[p]) /\ i \in 1 .. MaxClients + 1
      /\ Len(threads[p]) \in Nat
      /\ p \in Clients /\ pc[p] = "serve" => i = 1 /\ Informed(p)
      /\ p \in Clients => pc[p] \notin {"none", "start"}
  BY ThreadFacts DEF udp_broadcast_init, At
<1>2. /\ u \in ThreadRecords /\ u.at = "recv" /\ u.sock = i
      /\ u.cancelled = t.cancelled /\ u.port = t.port
  <2> HIDE DEF t
  <2>1. i \in 0 .. MaxClients + 1
    BY <1>1, Mrs2sAssumption
  <2> QED BY <1>1, <2>1 DEF ThreadRecords
<1>3. p \in Clients /\ pc[p] = "serve" => ~t.cancelled /\ t.port = 1
  BY <1>1 DEF Informed, Knows
<1> HIDE DEF t, u
<1>4. /\ threads' \in [Procs -> Seq(ThreadRecords)]
      /\ \A o \in Procs \ {p} : threads'[o] = threads[o]
      /\ Len(threads'[p]) = Len(threads[p])
      /\ DOMAIN threads'[p] = DOMAIN threads[p]
      /\ threads'[p][i] = u
      /\ \A j \in DOMAIN threads[p] \ {i} : threads'[p][j] = threads[p][j]
  BY <1>0, <1>1, <1>2, BecomesChanged
<1>5. \A o \in Procs : Len(threads'[o]) = Len(threads[o])
  BY <1>4
<1>6. /\ gUDPfd'[p] = i /\ \A o \in Procs \ {p} : gUDPfd'[o] = gUDPfd[o]
      /\ gUDPfd' \in [Procs -> 0 .. MaxClients + 1]
      /\ since' \in [Clients -> 0 .. truth]
      /\ p \in Clients => since'[p] = truth
      /\ \A c \in Clients \ {p} : since'[c] = since[c]
  <2>1. p # Parent => p \in Clients
    BY DEF Procs, Parent, Clients
  <2>2. Parent \notin Clients /\ i \in 0 .. MaxClients + 1 /\ truth \in 0 .. truth
    BY <1>1, Mrs2sAssumption DEF Parent, Clients, Inv, ServerOK
  <2> QED BY <1>1, <2>1, <2>2 DEF Inv, ServerOK
<1>7. ServerOK'
  BY <1>1, <1>4, <1>5, <1>6 DEF Inv, ServerOK
<1>8. Order' /\ Processes'
  <2>1. \A c \in Clients : pc[c] \in {"none", "start"} => c # p
    BY <1>1
  <2>2. \A c \in Clients : pc[c] \in {"none", "start"} => gUDPfd'[c] = gUDPfd[c]
    BY <1>6, <2>1 DEF Procs, Clients
  <2> QED BY <1>1, <1>5, <2>2, Shape
<1>9. OwnSockets(p)'
  <2>1. i # 0 /\ i \in 0 .. Len(threads[p]) /\ i \in DOMAIN threads[p]
    BY <1>1
  <2> QED BY <1>1, <1>2, <1>4, <1>6, <2>1 DEF OwnSockets, Inv, Sockets, Alive
<1>10. OwnTold(p)'
  <2>1. ~(truth < truth)
    BY DEF Inv, ServerOK
  <2>2. ASSUME p \in Clients, pc'[p] = "serve"
        PROVE  Knows(threads'[p][1], gUDPfd'[p], since'[p], truth', stat'[p])
    BY <1>1, <1>2, <1>3, <1>4, <1>6, <2>1, <2>2 DEF Knows, Busy
  <2> QED BY <2>2 DEF OwnTold, Informed
<1>11. Sockets' /\ Told'
  BY <1>1, <1>4, <1>6, <1>9, <1>10, Elsewhere
<1> QED BY <1>7, <1>8, <1>11 DEF Inv

\* A broadcast read from a queue, and what is left.
LEMMA Dequeued ==
    ASSUME NEW S, NEW k \in Seq(S), k # <<>>
    PROVE  /\ Len(k) \in Nat \ {0} /\ Tail(k) \in Seq(S)
           /\ Head(k) \in S /\ Head(k) = k[1]
           /\ Len(Tail(k)) = Len(k) - 1
           /\ \A j \in 1 .. Len(k) - 1 : Tail(k)[j] = k[j + 1]
           /\ Tail(k) = <<>> => Len(k) = 1
<1>1. Len(k) \in Nat \ {0}
  BY EmptySeq
<1>2. Tail(k) \in Seq(S) /\ Len(Tail(k)) = Len(k) - 1
  BY <1>1
<1>3. \A j \in 1 .. Len(k) - 1 : Tail(k)[j] = k[j + 1]
  BY <1>1
<1>4. Head(k) \in S /\ Head(k) = k[1]
  BY <1>1
<1>5. ASSUME Tail(k) = <<>> PROVE Len(k) = 1
  <2>1. \A r \in Seq(S) : r = <<>> => Len(r) = 0
    BY EmptySeq
  <2> DEFINE r == Tail(k)
  <2>2. Len(r) = 0
    <3>1. r \in Seq(S) /\ r = <<>>
      BY <1>2, <1>5
    <3> HIDE DEF r
    <3> QED BY <2>1, <3>1
  <2>3. Len(r) = Len(k) - 1
    BY <1>2
  <2> HIDE DEF r
  <2> QED BY <1>1, <2>2, <2>3
<1> QED BY <1>1, <1>2, <1>3, <1>4, <1>5

LEMMA RecvInv ==
    ASSUME Inv, NEW p \in Procs, NEW i \in DOMAIN threads[p], recvfrom(p, i)
    PROVE  Inv'
<1> DEFINE q == threads[p]
           s == q[i].sock
           v == [q[s] EXCEPT !.queue = Tail(@)]
           q1 == [q EXCEPT ![s] = v]
           w == [q1[i] EXCEPT !.dgram = Head(q[s].queue), !.at = "copy"]
           q2 == [q1 EXCEPT ![i] = w]
<1>1. /\ Alive(p) /\ q[i].at = "recv" /\ q[s].queue # <<>>
      /\ gUDPfd[p] # 0 /\ s \in DOMAIN q
      /\ UNCHANGED <<truth, conn, seen, since, pc, new_fd, stat, gUDPfd>>
      /\ q \in Seq(ThreadRecords) /\ q[i] \in ThreadRecords
      /\ q[s] \in ThreadRecords
      /\ p \in Clients /\ pc[p] = "serve" => i = 1 /\ Len(q) = 1 /\ Informed(p)
  BY ThreadFacts DEF recvfrom, At, Inv, Sockets, Busy
<1>2. threads' = [threads EXCEPT ![p] = q2]
  BY DEF recvfrom
<1>3. /\ q[s].queue \in Seq(1 .. MaxChanges) /\ Len(q[s].queue) \in Nat \ {0}
      /\ Tail(q[s].queue) \in Seq(1 .. MaxChanges)
      /\ Head(q[s].queue) \in 1 .. MaxChanges
      /\ Head(q[s].queue) = q[s].queue[1]
      /\ Len(Tail(q[s].queue)) = Len(q[s].queue) - 1
      /\ \A k \in 1 .. Len(q[s].queue) - 1 : Tail(q[s].queue)[k] = q[s].queue[k + 1]
      /\ Tail(q[s].queue) = <<>> => Len(q[s].queue) = 1
  <2>1. q[s].queue \in Seq(1 .. MaxChanges)
    BY <1>1 DEF ThreadRecords
  <2>2. q[s].queue # <<>>
    BY <1>1
  <2> HIDE DEF q, s
  <2> QED BY <2>1, <2>2, Dequeued
<1>4. /\ v \in ThreadRecords /\ v.queue = Tail(q[s].queue)
      /\ v.at = q[s].at /\ v.sock = q[s].sock /\ v.cancelled = q[s].cancelled
      /\ v.bound = q[s].bound /\ v.port = q[s].port
  <2> HIDE DEF q, s
  <2> QED BY <1>1, <1>3 DEF ThreadRecords
<1> HIDE DEF v
<1>5. /\ q1 \in Seq(ThreadRecords) /\ Len(q1) = Len(q) /\ DOMAIN q1 = DOMAIN q
      /\ q1[s] = v /\ \A j \in DOMAIN q \ {s} : q1[j] = q[j]
  <2> HIDE DEF q, s
  <2> QED BY <1>1, <1>4, Replaced
<1> HIDE DEF q1
<1>6. q1[i] \in ThreadRecords
  BY <1>1, <1>4, <1>5
<1>7. /\ w \in ThreadRecords /\ w.at = "copy" /\ w.dgram = Head(q[s].queue)
      /\ w.sock = q1[i].sock /\ w.cancelled = q1[i].cancelled
      /\ w.bound = q1[i].bound /\ w.queue = q1[i].queue /\ w.port = q1[i].port
  <2> HIDE DEF q, s
  <2>1. Head(q[s].queue) \in 0 .. MaxChanges
    BY <1>3, Mrs2sAssumption
  <2> QED BY <1>6, <2>1 DEF ThreadRecords
<1> HIDE DEF w
<1>8. /\ q2 \in Seq(ThreadRecords) /\ Len(q2) = Len(q) /\ DOMAIN q2 = DOMAIN q
      /\ q2[i] = w /\ \A j \in DOMAIN q \ {i} : q2[j] = q1[j]
  <2>1. i \in DOMAIN q1
    BY <1>5
  <2> HIDE DEF q, s
  <2> QED BY <1>5, <1>7, <2>1, Replaced
<1> HIDE DEF q2
<1>9. /\ threads' \in [Procs -> Seq(ThreadRecords)]
      /\ threads'[p] = q2 /\ \A o \in Procs \ {p} : threads'[o] = threads[o]
  BY <1>2, <1>8 DEF Inv, ServerOK
<1>10. \A o \in Procs : Len(threads'[o]) = Len(threads[o])
  BY <1>8, <1>9
<1>11. ServerOK'
  BY <1>1, <1>9, <1>10 DEF Inv, ServerOK
<1>12. Order' /\ Processes'
  BY <1>1, <1>10, Shape
<1>13. \A j \in DOMAIN q : q2[j].sock = q[j].sock
            /\ (q2[j].at \in Busy => q[j].at \in Busy)
  BY <1>1, <1>4, <1>5, <1>7, <1>8 DEF Busy
<1>14. OwnSockets(p)'
  BY <1>1, <1>8, <1>9, <1>13 DEF OwnSockets, Inv, Sockets, Alive
<1>15. OwnTold(p)'
  <2>1. ASSUME p \in Clients, pc'[p] = "serve"
        PROVE  Knows(w, gUDPfd[p], since[p], truth, stat[p])
    <3>1. /\ s = 1 /\ i = 1 /\ q1[i] = v
          /\ Knows(q[i], gUDPfd[p], since[p], truth, stat[p])
      BY <1>1, <1>5, <2>1 DEF Informed
    <3>2. /\ w.queue = Tail(q[s].queue) /\ w.bound = q[s].bound
          /\ w.sock = q[s].sock /\ w.port = q[s].port
          /\ w.cancelled = q[s].cancelled /\ w.at = "copy"
          /\ w.dgram = q[s].queue[1]
      BY <1>3, <1>4, <1>7, <3>1
    <3>3. w.queue # <<>> =>
            w.queue[Len(w.queue)] = q[s].queue[Len(q[s].queue)]
      <4> HIDE DEF q, s
      <4> QED BY <1>3, <3>2
    <3>4. w.queue = <<>> => Len(q[s].queue) = 1
      BY <1>3, <3>2
    <3>5. q[s].at # "copy" /\ q[s].queue # <<>>
      BY <1>1, <3>1
    <3> HIDE DEF q, s
    <3> QED BY <3>1, <3>2, <3>3, <3>4, <3>5 DEF Knows, Busy
  <2>2. p \in Clients /\ pc'[p] = "serve" => threads'[p][1] = w
    BY <1>1, <1>8, <1>9
  <2> QED BY <1>1, <2>1, <2>2 DEF OwnTold, Informed
<1>16. Sockets' /\ Told'
  BY <1>1, <1>9, <1>14, <1>15, Elsewhere
<1> QED BY <1>11, <1>12, <1>16 DEF Inv

-----------------------------------------------------------------------------
(* The steps of the main functions.                                        *)

States == {"none", "accept", "cancel", "fork", "restart", "start", "serve",
           "close", "closed", "exited", "killed"}

LEMMA Roles ==
    /\ Parent \in Procs /\ Parent \notin Clients /\ Clients \subseteq Procs
    /\ None \notin Clients /\ None \in Procs
    /\ \A p \in Procs : p = Parent \/ p \in Clients
BY Mrs2sAssumption DEF Parent, Procs, Clients, None

\* The main function of a process goes on and leaves the threads alone; what it
\* forgets or closes is not in the invariant.
LEMMA GoesInv ==
    ASSUME Inv, NEW p \in Procs, pc[p] # "none", pc[p] # "start",
           NEW x \in States, pc' = [pc EXCEPT ![p] = x], Alive(p),
           x \notin {"none", "start", "serve", "cancel", "fork", "restart"},
           p = Parent => x # "exited",
           new_fd' \in [Procs -> Procs],
           p # Parent => new_fd'[Parent] = new_fd[Parent],
           UNCHANGED <<truth, conn, seen, since, stat, gUDPfd>>,
           \/ UNCHANGED threads
           \/ p # Parent /\ x = "exited" /\ threads' = [threads EXCEPT ![p] = <<>>]
    PROVE  Inv'
<1>0. /\ threads' \in [Procs -> Seq(ThreadRecords)]
      /\ \A o \in Procs \ {p} : threads'[o] = threads[o]
      /\ p = Parent => threads'[p] = threads[p]
      /\ Len(threads'[p]) = Len(threads[p]) \/ Len(threads'[p]) = 0
      /\ pc'[p] = x /\ \A o \in Procs \ {p} : pc'[o] = pc[o]
      /\ x # "exited" => threads' = threads
  <2>1. pc'[p] = x /\ \A o \in Procs \ {p} : pc'[o] = pc[o]
    BY DEF Inv, ServerOK
  <2>2. CASE UNCHANGED threads
    BY <2>1, <2>2 DEF Inv, ServerOK
  <2>3. CASE p # Parent /\ x = "exited" /\ threads' = [threads EXCEPT ![p] = <<>>]
    <3>1. <<>> \in Seq(ThreadRecords) /\ Len(<<>>) = 0
      BY EmptySeq
    <3>2. threads'[p] = <<>> /\ threads' \in [Procs -> Seq(ThreadRecords)]
      BY <2>3, <3>1 DEF Inv, ServerOK
    <3>3. Len(threads'[p]) = 0
      BY <3>1, <3>2, Zenon
    <3> QED BY <2>1, <2>3, <3>2, <3>3 DEF Inv, ServerOK
  <2> QED BY <2>2, <2>3
<1>1. ServerOK'
  <2>1. \A o \in Procs :
            Len(threads'[o]) <= IF o = Parent THEN MaxClients + 1 ELSE 1
    BY <1>0, Mrs2sAssumption DEF Inv, ServerOK
  <2> QED BY <1>0, <2>1 DEF Inv, ServerOK, States
<1>2. Order'
  <2>1. PICK n \in 0 .. MaxClients :
        /\ \A d \in Clients : conn[d] = "none" <=> d > n
        /\ Len(threads[Parent]) <=
            IF pc[Parent] \in {"cancel", "fork", "restart"} THEN n ELSE n + 1
    BY DEF Inv, Order
  <2>2. Len(threads'[Parent]) = Len(threads[Parent]) /\ Len(threads[Parent]) \in Nat
    BY <1>0, Roles DEF Inv, ServerOK
  <2>3. pc'[Parent] = pc[Parent]
            \/ pc'[Parent] \notin {"cancel", "fork", "restart"}
    BY <1>0, Roles
  <2>4. Len(threads'[Parent]) <=
            IF pc'[Parent] \in {"cancel", "fork", "restart"} THEN n ELSE n + 1
    BY <2>1, <2>2, <2>3
  <2> QED BY <2>1, <2>4 DEF Order
<1>3. Processes'
  <2>1. /\ pc'[Parent] \notin {"none", "start", "serve", "exited"}
        /\ Len(threads'[Parent]) >= 1
    BY <1>0, Roles DEF Inv, Processes
  <2>2. pc'[Parent] \in {"cancel", "fork"} =>
            /\ new_fd'[Parent] \in Clients
            /\ pc'[new_fd'[Parent]] = "none" /\ conn'[new_fd'[Parent]] # "none"
    <3>1. CASE p = Parent
      BY <1>0, <3>1
    <3>2. CASE p # Parent
      BY <1>0, <3>2, Roles DEF Inv, Processes
    <3> QED BY <3>1, <3>2
  <2>3. ASSUME NEW c \in Clients
        PROVE  /\ conn'[c] = "none" => pc'[c] = "none"
               /\ pc'[c] \in {"none", "start"} =>
                    Len(threads'[c]) = 0 /\ gUDPfd'[c] = 0
               /\ pc'[c] = "serve" => Len(threads'[c]) = 1
    BY <1>0, Roles DEF Inv, Processes
  <2> QED BY <2>1, <2>2, <2>3 DEF Processes
<1>4. OwnSockets(p)'
  BY <1>0 DEF OwnSockets, Inv, Sockets, Alive
<1>5. OwnTold(p)'
  BY <1>0 DEF OwnTold
<1>6. Sockets' /\ Told'
  BY <1>0, <1>4, <1>5, Elsewhere, Roles
<1> QED BY <1>1, <1>2, <1>3, <1>6 DEF Inv

LEMMA CloseForgetInv ==
    ASSUME Inv, Close \/ Forget PROVE Inv'
<1>1. CASE Close
  BY <1>1, GoesInv, Roles DEF Close, Goes, Inv, ServerOK, States, Alive
<1>2. CASE Forget
  <2>1. new_fd' \in [Procs -> Procs]
    BY <1>2, Roles DEF Forget, Inv, ServerOK
  <2> QED BY <1>2, <2>1, GoesInv, Roles DEF Forget, Goes, Inv, ServerOK, States, Alive
<1> QED BY <1>1, <1>2

LEMMA ExitInv ==
    ASSUME Inv, NEW c \in Clients, Exit(c) PROVE Inv'
<1>1. new_fd' \in [Procs -> Procs] /\ new_fd'[Parent] = new_fd[Parent]
  BY Roles DEF Exit, Inv, ServerOK
<1>2. /\ c \in Procs /\ c # Parent /\ pc[c] = "close"
      /\ pc' = [pc EXCEPT ![c] = "exited"]
      /\ threads' = [threads EXCEPT ![c] = <<>>]
      /\ UNCHANGED <<truth, conn, seen, since, stat, gUDPfd>>
  BY Roles DEF Exit, Goes
<1> QED BY <1>1, <1>2, GoesInv DEF States, Alive

\* The thread created last is cancelled, and its process goes on to x.
LEMMA CancelledInv ==
    ASSUME Inv, NEW p \in Procs, NEW x \in {"fork", "close"}, Alive(p),
           pthread_cancel(p), Len(threads[p]) >= 1,
           pc' = [pc EXCEPT ![p] = x],
           p = Parent => x = "fork" /\ pc[p] = "cancel",
           p # Parent => x = "close" /\ pc[p] = "serve",
           UNCHANGED <<truth, conn, seen, since, new_fd, stat, gUDPfd>>
    PROVE  Inv'
<1> DEFINE i == Len(threads[p])
           t == threads[p][i]
           u == [t EXCEPT !.cancelled = TRUE]
<1>0. ServerOK /\ i \in DOMAIN threads[p]
  BY DEF Inv, ServerOK
<1>1. t \in ThreadRecords
  BY <1>0, ThreadFacts
<1>2. Becomes(p, i, u)
  BY DEF pthread_cancel, Becomes
<1> HIDE DEF i, t
<1>3. /\ u \in ThreadRecords /\ u.at = t.at /\ u.sock = t.sock
  BY <1>1 DEF ThreadRecords
<1>4. t = threads[p][i]
  BY DEF t
<1> HIDE DEF u
<1>5. /\ threads' \in [Procs -> Seq(ThreadRecords)]
      /\ \A o \in Procs \ {p} : threads'[o] = threads[o]
      /\ Len(threads'[p]) = Len(threads[p])
      /\ DOMAIN threads'[p] = DOMAIN threads[p]
      /\ threads'[p][i] = u
      /\ \A j \in DOMAIN threads[p] \ {i} : threads'[p][j] = threads[p][j]
  BY <1>0, <1>2, <1>3, BecomesChanged
<1>6. /\ pc' \in [Procs -> States] /\ pc'[p] = x
      /\ \A o \in Procs \ {p} : pc'[o] = pc[o]
      /\ \A o \in Procs : Len(threads'[o]) = Len(threads[o])
  BY <1>5 DEF Inv, ServerOK, States
<1>7. ServerOK'
  BY <1>5, <1>6 DEF Inv, ServerOK, States
<1>8. Order'
  BY <1>6, Roles DEF Inv, Order
<1>9. Processes'
  BY <1>6, Roles DEF Inv, Processes
<1>10. OwnSockets(p)'
  BY <1>3, <1>4, <1>5, <1>6 DEF OwnSockets, Inv, Sockets, Alive
<1>11. OwnTold(p)'
  BY <1>6 DEF OwnTold
<1>12. Sockets' /\ Told'
  BY <1>5, <1>6, <1>10, <1>11, Elsewhere
<1> QED BY <1>7, <1>8, <1>9, <1>12 DEF Inv

LEMMA CancelInv ==
    ASSUME Inv, Cancel PROVE Inv'
BY CancelledInv, Roles DEF Cancel, Goes, Inv, Processes, Alive

LEMMA EndChildInv ==
    ASSUME Inv, NEW c \in Clients, EndChild(c) PROVE Inv'
<1>1. Len(threads[c]) >= 1 /\ pc[c] = "serve"
  BY DEF EndChild, Goes, Inv, Processes
<1> QED BY <1>1, CancelledInv, Roles DEF EndChild, Goes, Alive

\* A thread more.
LEMMA StartedFacts ==
    ASSUME Inv, NEW p \in Procs, startUDPrecv(p)
    PROVE  /\ threads' \in [Procs -> Seq(ThreadRecords)]
           /\ \A o \in Procs \ {p} : threads'[o] = threads[o]
           /\ Len(threads[p]) \in Nat
           /\ Len(threads'[p]) = Len(threads[p]) + 1
           /\ threads'[p][Len(threads[p]) + 1] = NewThread
           /\ DOMAIN threads'[p] = 1 .. Len(threads[p]) + 1
           /\ DOMAIN threads[p] = 1 .. Len(threads[p])
           /\ \A j \in DOMAIN threads[p] : threads'[p][j] = threads[p][j]
<1>1. threads[p] \in Seq(ThreadRecords) /\ NewThread \in ThreadRecords
  BY NewThreadType DEF Inv, ServerOK
<1>2. threads' = [threads EXCEPT ![p] = Append(threads[p], NewThread)]
  BY DEF startUDPrecv
<1>3. \A q \in Seq(ThreadRecords) : \A t \in ThreadRecords :
        /\ Append(q, t) \in Seq(ThreadRecords) /\ Len(q) \in Nat
        /\ Len(Append(q, t)) = Len(q) + 1
        /\ Append(q, t)[Len(q) + 1] = t
        /\ DOMAIN Append(q, t) = 1 .. Len(q) + 1 /\ DOMAIN q = 1 .. Len(q)
        /\ \A j \in DOMAIN q : Append(q, t)[j] = q[j]
  OBVIOUS
<1> QED BY <1>1, <1>2, <1>3 DEF Inv, ServerOK

\* The process's threads keep a socket to read from.
LEMMA StartedSockets ==
    ASSUME Inv, NEW p \in Procs, startUDPrecv(p), Alive(p),
           gUDPfd' = gUDPfd
    PROVE  OwnSockets(p)'
<1>1. /\ gUDPfd[p] \in 0 .. Len(threads[p])
      /\ \A i \in DOMAIN threads[p] : threads[p][i].at \in Busy =>
            gUDPfd[p] # 0 /\ threads[p][i].sock \in DOMAIN threads[p]
  BY DEF Inv, Sockets
<1>2. NewThread.at \notin Busy
  BY DEF NewThread, Busy
<1>3. \A i \in DOMAIN threads'[p] :
        i \in DOMAIN threads[p] \/ threads'[p][i].at \notin Busy
  BY <1>2, StartedFacts
<1>4. /\ DOMAIN threads[p] \subseteq DOMAIN threads'[p]
      /\ gUDPfd[p] \in 0 .. Len(threads'[p])
      /\ \A j \in DOMAIN threads[p] : threads'[p][j] = threads[p][j]
  BY <1>1, StartedFacts
<1> QED BY <1>1, <1>3, <1>4 DEF OwnSockets

LEMMA RestartInv ==
    ASSUME Inv, Restart PROVE Inv'
<1>1. /\ pc[Parent] = "restart" /\ startUDPrecv(Parent) /\ Alive(Parent)
      /\ pc' = [pc EXCEPT ![Parent] = "close"]
      /\ UNCHANGED <<truth, conn, seen, since, new_fd, stat, gUDPfd>>
  BY DEF Restart, Goes, Alive
<1>2. /\ pc' \in [Procs -> States] /\ pc'[Parent] = "close"
      /\ \A o \in Procs \ {Parent} : pc'[o] = pc[o]
  BY <1>1, Roles DEF Inv, ServerOK, States
<1>3. PICK n \in 0 .. MaxClients :
        /\ \A d \in Clients : conn[d] = "none" <=> d > n
        /\ Len(threads[Parent]) <= n
  BY <1>1 DEF Inv, Order
<1>4. Len(threads'[Parent]) <= n + 1 /\ Len(threads'[Parent]) <= MaxClients + 1
      /\ Len(threads'[Parent]) >= 1
  BY <1>1, <1>3, StartedFacts, Roles, Mrs2sAssumption
<1>5. ServerOK'
  BY <1>1, <1>2, <1>4, StartedFacts, Roles DEF Inv, ServerOK, States
<1>6. Order'
  BY <1>1, <1>2, <1>3, <1>4 DEF Order
<1>7. Processes'
  BY <1>1, <1>2, <1>4, StartedFacts, Roles DEF Inv, Processes
<1>8. OwnSockets(Parent)'
  BY <1>1, StartedSockets, Roles
<1>9. OwnTold(Parent)'
  BY Roles DEF OwnTold
<1>10. Sockets' /\ Told'
  BY <1>1, <1>2, <1>8, <1>9, StartedFacts, Elsewhere, Roles
<1> QED BY <1>5, <1>6, <1>7, <1>10 DEF Inv

LEMMA StartInv ==
    ASSUME Inv, NEW c \in Clients, Start(c) PROVE Inv'
<1>1. /\ c \in Procs /\ c # Parent /\ pc[c] = "start"
      /\ startUDPrecv(c) /\ Alive(c)
      /\ pc' = [pc EXCEPT ![c] = "serve"]
      /\ Len(threads[c]) = 0
      /\ UNCHANGED <<truth, conn, seen, since, new_fd, stat, gUDPfd>>
  BY Roles DEF Start, Goes, Alive, Inv, Processes
<1>2. /\ pc' \in [Procs -> States] /\ pc'[c] = "serve"
      /\ \A o \in Procs \ {c} : pc'[o] = pc[o]
  BY <1>1 DEF Inv, ServerOK, States
<1>3. /\ Len(threads'[c]) = 1 /\ threads'[c][1] = NewThread
      /\ threads' \in [Procs -> Seq(ThreadRecords)]
      /\ \A o \in Procs \ {c} : threads'[o] = threads[o]
  <2>1. /\ Len(threads'[c]) = Len(threads[c]) + 1
        /\ threads'[c][Len(threads[c]) + 1] = NewThread
        /\ threads' \in [Procs -> Seq(ThreadRecords)]
        /\ \A o \in Procs \ {c} : threads'[o] = threads[o]
    BY <1>1, StartedFacts
  <2>2. Len(threads[c]) + 1 = 1
    BY <1>1
  <2> QED BY <2>1, <2>2, Zenon
<1>4. ServerOK'
  <2>1. \A o \in Procs :
            Len(threads'[o]) <= IF o = Parent THEN MaxClients + 1 ELSE 1
    <3> TAKE o \in Procs
    <3>1. CASE o = c
      <4>1. Len(threads'[o]) = 1 /\ o # Parent
        BY <1>1, <1>3, <3>1, Zenon
      <4> QED BY <4>1
    <3>2. CASE o # c
      BY <1>3, <3>2 DEF Inv, ServerOK
    <3> QED BY <3>1, <3>2
  <2> QED BY <1>1, <1>2, <1>3, <2>1 DEF Inv, ServerOK, States
<1>5. Order'
  BY <1>1, <1>2, <1>3, Roles DEF Inv, Order
<1>6. Processes'
  BY <1>1, <1>2, <1>3, Roles DEF Inv, Processes
<1>7. OwnTold(c)'
  BY <1>3 DEF OwnTold, Informed, Knows, NewThread
<1>8. OwnSockets(c)'
  BY <1>1, StartedSockets
<1>9. Sockets' /\ Told'
  BY <1>1, <1>2, <1>3, <1>7, <1>8, Elsewhere
<1> QED BY <1>4, <1>5, <1>6, <1>9 DEF Inv

LEMMA ForkInv ==
    ASSUME Inv, Fork PROVE Inv'
<1> DEFINE c == new_fd[Parent]
<1>1. /\ c \in Clients /\ c \in Procs /\ c # Parent
      /\ pc[Parent] = "fork" /\ pc[c] = "none"
      /\ pc' = [pc EXCEPT ![Parent] = "restart", ![c] = "start"]
      /\ new_fd' = [new_fd EXCEPT ![c] = c]
      /\ stat' = [stat EXCEPT ![c] = stat[Parent]]
      /\ UNCHANGED <<truth, conn, seen, since, gUDPfd, threads>>
      /\ Len(threads[c]) = 0 /\ gUDPfd[c] = 0
      /\ conn[c] # "none"
  <2>1. /\ c \in Clients /\ pc[c] = "none" /\ conn[c] # "none"
        /\ pc[Parent] = "fork"
    BY DEF Fork, Inv, Processes
  <2>2. /\ pc' = [pc EXCEPT ![Parent] = "restart", ![c] = "start"]
        /\ new_fd' = [new_fd EXCEPT ![c] = c]
        /\ stat' = [stat EXCEPT ![c] = stat[Parent]]
        /\ UNCHANGED <<truth, conn, seen, since, gUDPfd, threads>>
    BY DEF Fork, Inherited
  <2>3. Len(threads[c]) = 0 /\ gUDPfd[c] = 0
    BY <2>1 DEF Inv, Processes
  <2> HIDE DEF c
  <2> QED BY <2>1, <2>2, <2>3, Roles
<1> HIDE DEF c
<1>2. /\ pc' \in [Procs -> States] /\ pc'[c] = "start" /\ pc'[Parent] = "restart"
      /\ \A o \in Procs \ {c, Parent} : pc'[o] = pc[o]
      /\ stat' \in [Procs -> Statuses]
      /\ \A o \in Procs \ {c} : stat'[o] = stat[o]
      /\ new_fd' \in [Procs -> Procs]
  BY <1>1, Roles DEF Inv, ServerOK, States
<1>3. ServerOK'
  BY <1>1, <1>2 DEF Inv, ServerOK, States
<1>4. Order'
  BY <1>1, <1>2 DEF Inv, Order
<1>5. Processes'
  BY <1>1, <1>2, Roles DEF Inv, Processes
<1>6. Sockets'
  <2>1. \A o \in Procs : o = c \/ (Alive(o)' => Alive(o))
    BY <1>1, <1>2, Roles DEF Alive
  <2>2. DOMAIN threads[c] = {}
    BY <1>1, EmptySeq DEF Inv, ServerOK
  <2> QED BY <1>1, <2>1, <2>2 DEF Inv, Sockets
<1>7. Told'
  BY <1>1, <1>2, Roles DEF Inv, Told, Informed
<1> QED BY <1>3, <1>4, <1>5, <1>6, <1>7 DEF Inv

-----------------------------------------------------------------------------
(* The steps of ser2net and of the clients.                                *)

\* A broadcast reaches the sockets somebody reads, and a listening child does.
LEMMA BroadcastInv ==
    ASSUME Inv, udp_af20 PROVE Inv'
<1> DEFINE new(p, i) == IF threads[p][i].bound /\ InUse(p, i)
                        THEN [threads[p][i] EXCEPT !.queue = Append(@, truth + 1)]
                        ELSE threads[p][i]
<1>1. /\ truth' = truth + 1 /\ truth \in Nat /\ truth + 1 \in 1 .. MaxChanges
      /\ UNCHANGED <<conn, seen, since, pc, new_fd, stat, gUDPfd>>
      /\ threads' = [p \in Procs |-> [i \in DOMAIN threads[p] |-> new(p, i)]]
  BY Mrs2sAssumption DEF udp_af20, Inv, ServerOK
<1>2. \A p \in Procs : \A i \in DOMAIN threads[p] :
        /\ new(p, i) \in ThreadRecords
        /\ new(p, i).at = threads[p][i].at /\ new(p, i).sock = threads[p][i].sock
        /\ new(p, i).port = threads[p][i].port
        /\ new(p, i).bound = threads[p][i].bound
        /\ new(p, i).cancelled = threads[p][i].cancelled
        /\ threads[p][i].bound /\ gUDPfd[p] = i =>
                new(p, i).queue = Append(threads[p][i].queue, truth + 1)
        /\ ~threads[p][i].bound => new(p, i).queue = threads[p][i].queue
  <2>1. \A t \in ThreadRecords :
            LET u == [t EXCEPT !.queue = Append(@, truth + 1)] IN
            /\ u \in ThreadRecords /\ u.at = t.at /\ u.sock = t.sock
            /\ u.port = t.port /\ u.bound = t.bound /\ u.cancelled = t.cancelled
            /\ u.queue = Append(t.queue, truth + 1)
    <3> TAKE t \in ThreadRecords
    <3>1. Append(t.queue, truth + 1) \in Seq(1 .. MaxChanges)
      BY <1>1 DEF ThreadRecords
    <3>2. \A w \in Seq(1 .. MaxChanges) :
            LET u == [t EXCEPT !.queue = w] IN
            /\ u \in ThreadRecords /\ u.at = t.at /\ u.sock = t.sock
            /\ u.port = t.port /\ u.bound = t.bound /\ u.cancelled = t.cancelled
            /\ u.queue = w
      BY DEF ThreadRecords
    <3> QED BY <3>1, <3>2
  <2>2. \A p \in Procs : \A i \in DOMAIN threads[p] : threads[p][i] \in ThreadRecords
    BY DEF Inv, ServerOK
  <2> QED BY <2>1, <2>2 DEF InUse
<1> HIDE DEF new
<1>3. \A p \in Procs :
        /\ threads'[p] \in Seq(ThreadRecords) /\ Len(threads'[p]) = Len(threads[p])
        /\ DOMAIN threads'[p] = DOMAIN threads[p]
        /\ \A i \in DOMAIN threads[p] : threads'[p][i] = new(p, i)
  <2> TAKE p \in Procs
  <2>1. threads'[p] = [i \in DOMAIN threads[p] |-> new(p, i)]
    BY <1>1
  <2>2. DOMAIN threads[p] = 1 .. Len(threads[p]) /\ Len(threads[p]) \in Nat
    BY DEF Inv, ServerOK
  <2>3. threads'[p] \in [1 .. Len(threads[p]) -> ThreadRecords]
    BY <1>2, <2>1, <2>2
  <2>4. threads'[p] \in Seq(ThreadRecords)
    BY <2>2, <2>3, SeqDef
  <2>5. Len(threads'[p]) = Len(threads[p])
    BY <2>2, <2>3, <2>4, LenProperties
  <2> QED BY <2>1, <2>2, <2>4, <2>5
<1>4. ServerOK'
  <2>1. since' \in [Clients -> 0 .. truth']
    BY <1>1 DEF Inv, ServerOK
  <2>2. threads' \in [Procs -> Seq(ThreadRecords)]
    BY <1>1, <1>3
  <2> QED BY <1>1, <1>3, <2>1, <2>2 DEF Inv, ServerOK
<1>5. Order' /\ Processes'
  BY <1>1, <1>3, Shape
<1>6. Sockets'
  BY <1>1, <1>2, <1>3 DEF Inv, Sockets, Alive
<1>7. ASSUME NEW c \in Clients, pc'[c] = "serve"
      PROVE  Informed(c)'
  <2> DEFINE t == threads[c][1]
             u == threads'[c][1]
  <2>1. /\ c \in Procs /\ 1 \in DOMAIN threads[c] /\ t \in ThreadRecords
        /\ Informed(c)
    BY <1>1, <1>7, Roles DEF Inv, ServerOK, Processes, Told
  <2>2. /\ u.at = t.at /\ u.sock = t.sock /\ u.port = t.port
        /\ u.bound = t.bound /\ u.cancelled = t.cancelled
        /\ t.bound /\ gUDPfd[c] = 1 => u.queue = Append(t.queue, truth + 1)
        /\ ~t.bound => u.queue = t.queue
    BY <1>2, <1>3, <2>1
  <2>3. t.queue \in Seq(1 .. MaxChanges)
    BY <2>1 DEF ThreadRecords
  <2> HIDE DEF t, u
  <2>4. LET q == Append(t.queue, truth + 1) IN q # <<>> /\ q[Len(q)] = truth + 1
    <3>1. \A S : \A q \in Seq(S) : \A e \in S :
            /\ Len(Append(q, e)) = Len(q) + 1 /\ Len(q) \in Nat
            /\ Append(q, e)[Len(q) + 1] = e
      OBVIOUS
    <3>2. ASSUME NEW S, NEW q \in Seq(S), NEW e \in S, Append(q, e) = <<>>
          PROVE  FALSE
      <4>1. Len(Append(q, e)) = 0
        BY <3>2, EmptySeq, Zenon
      <4> QED BY <3>1, <4>1
    <3> QED BY <1>1, <2>3, <3>1, <3>2
  <2>5. Knows(t, gUDPfd[c], since[c], truth, stat[c])
    BY <2>1 DEF Informed, t
  <2>6. Knows(u, gUDPfd[c], since[c], truth + 1, stat[c])
    BY <2>2, <2>4, <2>5 DEF Knows
  <2> QED BY <1>1, <2>6 DEF Informed, u
<1>8. Told'
  BY <1>7 DEF Told
<1> QED BY <1>4, <1>5, <1>6, <1>8 DEF Inv

LEMMA ClientLeavesInv ==
    ASSUME Inv, NEW c \in Clients, ClientLeaves(c) PROVE Inv'
<1>1. /\ conn' \in [Clients -> {"none", "open", "left", "reset"}]
      /\ \A d \in Clients : conn'[d] = "none" <=> conn[d] = "none"
      /\ UNCHANGED <<truth, seen, since, pc, new_fd, stat, gUDPfd, threads>>
  BY DEF ClientLeaves, Inv, ServerOK
<1>2. Order' /\ Processes'
  BY <1>1, Shape
<1> QED BY <1>1, <1>2 DEF Inv, ServerOK, Sockets, Alive, Told, Informed

LEMMA AnswerInv ==
    ASSUME Inv, NEW c \in Clients, Answer(c) PROVE Inv'
<1>1. /\ conn' \in [Clients -> {"none", "open", "left", "reset"}]
      /\ \A d \in Clients : conn'[d] = "none" <=> conn[d] = "none"
      /\ UNCHANGED <<truth, since, pc, new_fd, stat, gUDPfd, threads>>
  BY DEF Answer, Inv, ServerOK
<1>2. seen' \in [Clients -> 0 .. MaxChanges]
  BY Roles, SeesAllType DEF Answer, Inv, ServerOK
<1>3. Order' /\ Processes'
  BY <1>1, Shape
<1> QED BY <1>1, <1>2, <1>3 DEF Inv, ServerOK, Sockets, Alive, Told, Informed

LEMMA AcceptInv ==
    ASSUME Inv, NEW c \in Clients, Accept(c) PROVE Inv'
<1>1. /\ pc[Parent] = "accept" /\ pc' = [pc EXCEPT ![Parent] = "cancel"]
      /\ conn[c] = "none" /\ \A d \in Clients : d < c => conn[d] # "none"
      /\ conn' = [conn EXCEPT ![c] = "open"]
      /\ new_fd' = [new_fd EXCEPT ![Parent] = c]
      /\ UNCHANGED <<truth, seen, since, stat, gUDPfd, threads>>
  BY DEF Accept, Goes
<1>2. /\ conn' \in [Clients -> {"none", "open", "left", "reset"}]
      /\ conn'[c] = "open" /\ \A d \in Clients \ {c} : conn'[d] = conn[d]
      /\ new_fd' \in [Procs -> Procs] /\ new_fd'[Parent] = c
      /\ pc' \in [Procs -> States] /\ pc'[Parent] = "cancel"
      /\ \A o \in Clients : pc'[o] = pc[o]
  BY <1>1, Roles DEF Inv, ServerOK, States
<1>3. ServerOK'
  BY <1>1, <1>2 DEF Inv, ServerOK, States
<1>4. Order'
  <2>1. PICK n \in 0 .. MaxClients :
        /\ \A d \in Clients : conn[d] = "none" <=> d > n
        /\ Len(threads[Parent]) <= n + 1
    BY <1>1 DEF Inv, Order
  <2>2. c = n + 1
    <3>1. c > n /\ \A d \in Clients : d < c => ~(d > n)
      BY <1>1, <2>1
    <3>2. n + 1 < c => n + 1 \in Clients
      BY <2>1, Mrs2sAssumption DEF Clients
    <3> QED BY <2>1, <3>1, <3>2, Mrs2sAssumption DEF Clients
  <2>3. c \in 0 .. MaxClients /\ \A d \in Clients : conn'[d] = "none" <=> d > c
    BY <1>2, <2>1, <2>2, Mrs2sAssumption DEF Clients
  <2> QED BY <1>1, <1>2, <2>1, <2>2, <2>3 DEF Order
<1>5. Processes'
  BY <1>1, <1>2, Roles DEF Inv, Processes
<1>6. Sockets'
  BY <1>1, <1>2, Roles DEF Inv, Sockets, Alive
<1>7. Told'
  BY <1>1, <1>2, Roles DEF Inv, Told, Informed
<1> QED BY <1>3, <1>4, <1>5, <1>6, <1>7 DEF Inv

-----------------------------------------------------------------------------
(* The theorems.                                                           *)

LEMMA InitInv == Init => Inv
<1> SUFFICES ASSUME Init PROVE Inv
  OBVIOUS
<1>1. /\ Len(<<NewThread>>) = 1 /\ Len(<<>>) = 0
      /\ <<>> \in Seq(ThreadRecords) /\ <<NewThread>> \in Seq(ThreadRecords)
      /\ <<NewThread>>[1] = NewThread /\ DOMAIN <<NewThread>> = {1}
  BY NewThreadType
<1>2. /\ threads[Parent] = <<NewThread>>
      /\ \A c \in Clients : threads[c] = <<>> /\ pc[c] = "none" /\ gUDPfd[c] = 0
      /\ pc[Parent] = "accept" /\ gUDPfd[Parent] = 0
      /\ threads \in [Procs -> Seq(ThreadRecords)]
  BY <1>1, Roles DEF Init
<1>3. stat \in [Procs -> Statuses]
  BY Mrs2sAssumption DEF Init, Statuses
<1>4. \A p \in Procs :
        Len(threads[p]) <= IF p = Parent THEN MaxClients + 1 ELSE 1
  <2> TAKE p \in Procs
  <2>1. CASE p = Parent
    <3>1. Len(threads[p]) = 1
      BY <1>1, <1>2, <2>1, Zenon
    <3> QED BY <2>1, <3>1, Mrs2sAssumption
  <2>2. CASE p # Parent
    <3>1. Len(threads[p]) = 0
      BY <1>1, <1>2, <2>2, Roles, Zenon
    <3> QED BY <2>2, <3>1
  <2> QED BY <2>1, <2>2
<1>5. ServerOK
  BY <1>2, <1>3, <1>4, Roles, Mrs2sAssumption DEF Init, ServerOK
<1>6. Order
  <2>1. 0 \in 0 .. MaxClients /\ \A d \in Clients : conn[d] = "none" <=> d > 0
    BY Mrs2sAssumption DEF Init, Clients
  <2> QED BY <1>1, <1>2, <2>1 DEF Order
<1>7. Processes
  BY <1>1, <1>2 DEF Processes
<1>8. Sockets
  BY <1>1, <1>2, Roles DEF Sockets, Alive, NewThread, Busy
<1>9. Told
  BY <1>2 DEF Told
<1> QED BY <1>5, <1>6, <1>7, <1>8, <1>9 DEF Inv

LEMMA StepInv == Inv /\ [Next]_vars => Inv'
<1> SUFFICES ASSUME Inv, [Next]_vars PROVE Inv'
  OBVIOUS
<1>1. CASE udp_af20
  BY <1>1, BroadcastInv
<1>2. ASSUME NEW c \in Clients, ClientLeaves(c) \/ Accept(c) \/ Answer(c)
      PROVE  Inv'
  BY <1>2, ClientLeavesInv, AcceptInv, AnswerInv
<1>3. ASSUME NEW p \in Procs, MainStep(p) PROVE Inv'
  <2>1. CASE p = Parent
    BY <1>3, <2>1, CancelInv, ForkInv, RestartInv, CloseForgetInv DEF MainStep
  <2>2. CASE p # Parent
    BY <1>3, <2>2, Roles, StartInv, EndChildInv, ExitInv DEF MainStep
  <2> QED BY <2>1, <2>2
<1>4. ASSUME NEW p \in Procs, NEW i \in DOMAIN threads[p], ThreadStep(p, i)
      PROVE  Inv'
  BY <1>4, BindInv, DiesInv, RecvInv, CopyInv, CheckInv, SendInv DEF ThreadStep
<1>5. ASSUME NEW i \in Handlers, SigchldTaken(i) \/ sigchld_handler(i)
      PROVE  Inv'
  <2>1. UNCHANGED <<truth, conn, seen, since, pc, new_fd, stat, gUDPfd, threads>>
    BY <1>5 DEF SigchldTaken, sigchld_handler
  <2> QED BY <2>1 DEF Inv, ServerOK, Order, Processes, Sockets, Alive, Told, Informed
<1>6. CASE UNCHANGED vars
  BY <1>6 DEF vars, Inv, ServerOK, Order, Processes, Sockets, Alive, Told, Informed
<1> QED BY <1>1, <1>2, <1>3, <1>4, <1>5, <1>6 DEF Next

-----------------------------------------------------------------------------
(* The handler of SIGCHLD.                                                 *)

Gone == {c \in Clients : pc[c] \in {"exited", "killed"}}

\* Only processes that live go on.
LEMMA GoneStays == Inv /\ [Next]_vars => Gone \subseteq Gone'
<1> SUFFICES ASSUME Inv, [Next]_vars, NEW c \in Clients, pc[c] \in {"exited", "killed"}
             PROVE  pc'[c] \in {"exited", "killed"}
  BY DEF Gone
<1>0. /\ c \in Procs /\ c # Parent /\ pc \in [Procs -> States]
      /\ pc[Parent] = "fork" => new_fd[Parent] # c
  BY Roles DEF Inv, ServerOK, Processes, States
<1>1. \A p \in Procs, x \in STRING :
        pc' = [pc EXCEPT ![p] = x] => p = c \/ pc'[c] = pc[c]
  BY <1>0
<1>2. CASE UNCHANGED pc
  BY <1>2
<1>3. ASSUME NEW d \in Clients, Accept(d) PROVE pc'[c] = pc[c]
  BY <1>0, <1>3 DEF Accept, Goes
<1>4. ASSUME MainStep(Parent) PROVE pc'[c] = pc[c]
  BY <1>0, <1>4, Roles DEF MainStep, Cancel, Fork, Restart, Close, Forget, Goes
<1>5. ASSUME NEW p \in Procs, p # Parent, MainStep(p) PROVE pc'[c] = pc[c]
  BY <1>0, <1>5 DEF MainStep, Start, EndChild, Exit, Goes
<1>6. ASSUME NEW p \in Procs, NEW i \in DOMAIN threads[p], Send(p, i)
      PROVE  pc'[c] \in {"exited", "killed"}
  BY <1>0, <1>6 DEF Send, At, Alive
<1>7. \/ UNCHANGED pc
      \/ \E d \in Clients : Accept(d)
      \/ \E p \in Procs : MainStep(p)
      \/ \E p \in Procs : \E i \in DOMAIN threads[p] : Send(p, i)
  <2>1. ASSUME NEW p \in Procs, NEW i \in DOMAIN threads[p], ThreadStep(p, i)
        PROVE  UNCHANGED pc \/ Send(p, i)
    BY <2>1 DEF ThreadStep, udp_broadcast_init, Dies, recvfrom, udpaf, Check
  <2>2. ASSUME NEW i \in Handlers, SigchldTaken(i) \/ sigchld_handler(i)
        PROVE  UNCHANGED pc
    BY <2>2 DEF SigchldTaken, sigchld_handler
  <2>3. ASSUME udp_af20 \/ \E d \in Clients : ClientLeaves(d) \/ Answer(d)
        PROVE  UNCHANGED pc
    BY <2>3 DEF udp_af20, ClientLeaves, Answer
  <2>4. UNCHANGED vars => UNCHANGED pc
    BY DEF vars
  <2> QED BY <2>1, <2>2, <2>3, <2>4 DEF Next
<1> QED BY <1>2, <1>3, <1>4, <1>5, <1>6, <1>7

LEMMA SignalsStep == Inv /\ SignalsOK /\ [Next]_vars => SignalsOK'
<1> SUFFICES ASSUME Inv, SignalsOK, [Next]_vars PROVE SignalsOK'
  OBVIOUS
<1>0. Gone \subseteq Gone' /\ zombies \subseteq Gone
  BY GoneStays DEF SignalsOK, Gone
<1>1. CASE UNCHANGED signals
  BY <1>0, <1>1 DEF SignalsOK, signals, Gone
<1>2. ASSUME NEW i \in Handlers, SigchldTaken(i) PROVE SignalsOK'
  BY <1>0, <1>2 DEF SigchldTaken, SignalsOK, Gone
<1>3. ASSUME NEW i \in Handlers, sigchld_handler(i) PROVE SignalsOK'
  BY <1>0, <1>3 DEF sigchld_handler, Again, SignalsOK, Gone
<1>4. ASSUME NEW c \in Clients, Ends(c), reaping' = reaping, c \in Gone'
      PROVE  SignalsOK'
  BY <1>0, <1>4 DEF Ends, SignalsOK, Gone
<1>5. ASSUME NEW c \in Clients, Exit(c) PROVE SignalsOK'
  <2>1. c \in Gone'
    BY <1>5, Roles DEF Exit, Goes, Gone, Inv, ServerOK
  <2> QED BY <1>4, <1>5, <2>1 DEF Exit
<1>6. ASSUME NEW p \in Procs, NEW i \in DOMAIN threads[p], Send(p, i)
      PROVE  SignalsOK'
  <2>1. \/ UNCHANGED signals
        \/ p \in Clients /\ Ends(p) /\ reaping' = reaping
                /\ pc' = [pc EXCEPT ![p] = "killed"]
    BY <1>6, Roles DEF Send, signals
  <2>2. p \in Clients /\ pc' = [pc EXCEPT ![p] = "killed"] => p \in Gone'
    BY Roles DEF Gone, Inv, ServerOK
  <2> QED BY <1>1, <1>4, <2>1, <2>2
<1>7. ASSUME NEW p \in Procs, NEW i \in DOMAIN threads[p], Dies(p, i)
      PROVE  SignalsOK'
  BY <1>0, <1>7 DEF Dies, SignalsOK, Gone
<1>8. \/ UNCHANGED signals
      \/ \E i \in Handlers : SigchldTaken(i) \/ sigchld_handler(i)
      \/ \E c \in Clients : Exit(c)
      \/ \E p \in Procs : \E i \in DOMAIN threads[p] : Send(p, i) \/ Dies(p, i)
  <2>1. ASSUME NEW p \in Procs, MainStep(p)
        PROVE  UNCHANGED signals \/ \E c \in Clients : Exit(c)
    BY <2>1, Roles DEF MainStep, Cancel, Fork, Restart, Close, Forget, Start, EndChild
  <2>2. ASSUME NEW p \in Procs, NEW i \in DOMAIN threads[p], ThreadStep(p, i)
        PROVE  UNCHANGED signals \/ Send(p, i) \/ Dies(p, i)
    BY <2>2 DEF ThreadStep, udp_broadcast_init, recvfrom, udpaf, Check
  <2>3. ASSUME udp_af20 \/ \E c \in Clients : ClientLeaves(c) \/ Accept(c) \/ Answer(c)
        PROVE  UNCHANGED signals
    BY <2>3 DEF udp_af20, ClientLeaves, Accept, Answer
  <2>4. UNCHANGED vars => UNCHANGED signals
    BY DEF vars, signals
  <2> QED BY <2>1, <2>2, <2>3, <2>4 DEF Next
<1> QED BY <1>1, <1>2, <1>3, <1>5, <1>6, <1>7, <1>8

-----------------------------------------------------------------------------
(* The threads of the parent.                                              *)

Over(t) == t.cancelled \/ t.at = "dead"

\* The newest thread too has been cancelled when the parent forks.
OnlyNewest ==
    \A i \in DOMAIN threads[Parent] :
        i < Len(threads[Parent]) \/ pc[Parent] \in {"fork", "restart"} =>
            Over(threads[Parent][i])

\* A step that starts no thread and cancels none.
LEMMA NewestKept ==
    ASSUME OnlyNewest, DOMAIN threads'[Parent] = DOMAIN threads[Parent],
           Len(threads'[Parent]) = Len(threads[Parent]),
           \A i \in DOMAIN threads[Parent] :
                Over(threads[Parent][i]) => Over(threads'[Parent][i]),
           pc'[Parent] \in {"fork", "restart"} => pc[Parent] \in {"fork", "restart"}
    PROVE  OnlyNewest'
BY DEF OnlyNewest

LEMMA BecomesKeeps ==
    ASSUME Inv, OnlyNewest, NEW p \in Procs, NEW i \in DOMAIN threads[p],
           NEW u \in ThreadRecords, Becomes(p, i, u),
           Over(threads[p][i]) => Over(u),
           pc'[Parent] \in {"fork", "restart"} => pc[Parent] \in {"fork", "restart"}
    PROVE  OnlyNewest'
<1>1. /\ \A o \in Procs \ {p} : threads'[o] = threads[o]
      /\ Len(threads'[p]) = Len(threads[p])
      /\ DOMAIN threads'[p] = DOMAIN threads[p]
      /\ threads'[p][i] = u
      /\ \A j \in DOMAIN threads[p] \ {i} : threads'[p][j] = threads[p][j]
  BY BecomesChanged DEF Inv
<1> QED BY <1>1, NewestKept, Roles

BroadcastLength == Len(threads'[Parent]) = Len(threads[Parent])

\* A broadcast changes no number of threads.
LEMMA BroadcastKeeps ==
    ASSUME Inv, udp_af20 PROVE BroadcastLength
<1>1. /\ threads[Parent] \in Seq(ThreadRecords)
      /\ DOMAIN threads[Parent] = 1 .. Len(threads[Parent])
      /\ Len(threads[Parent]) \in Nat
  BY Roles DEF Inv, ServerOK
<1>2. Inv'
  BY BroadcastInv
<1>3. /\ DOMAIN threads'[Parent] = 1 .. Len(threads'[Parent])
      /\ Len(threads'[Parent]) \in Nat
  BY <1>2, Roles DEF Inv, ServerOK
<1>4. DOMAIN threads'[Parent] = DOMAIN threads[Parent]
  BY Roles DEF udp_af20, Inv, ServerOK
<1> DEFINE m == Len(threads[Parent])
           n == Len(threads'[Parent])
<1>5. m \in Nat /\ n \in Nat /\ 1 .. m = 1 .. n
  BY <1>1, <1>3, <1>4
<1>6. m = n
  <2> HIDE DEF m, n
  <2>1. \A x, y \in Nat : 1 .. x = 1 .. y => x = y
    OBVIOUS
  <2> QED BY <1>5, <2>1
<1> QED BY <1>6 DEF BroadcastLength

LEMMA ThreadKeeps ==
    ASSUME Inv, OnlyNewest, NEW p \in Procs, NEW i \in DOMAIN threads[p],
           ThreadStep(p, i)
    PROVE  OnlyNewest'
<1> DEFINE t == threads[p][i]
<1>0. /\ t \in ThreadRecords /\ i \in 0 .. MaxClients + 1 /\ gUDPfd[p] \in 0 .. MaxClients + 1
      /\ Of(0) \in Statuses /\ Remains(t) \in ThreadRecords
      /\ Parent \in Procs /\ pc \in [Procs -> States] /\ stat \in [Procs -> Statuses]
  BY ThreadFacts, NewThreadType, Roles, Mrs2sAssumption DEF Inv, ServerOK, States
<1>1. CASE udp_broadcast_init(p, i)
  <2> DEFINE u == [t EXCEPT !.bound = TRUE, !.at = "recv", !.sock = i]
  <2>1. Becomes(p, i, u) /\ pc' = pc /\ t.at = "init"
    BY <1>1 DEF udp_broadcast_init, At
  <2> HIDE DEF t
  <2>2. u \in ThreadRecords /\ u.cancelled = t.cancelled
    BY <1>0 DEF ThreadRecords
  <2> HIDE DEF u
  <2> QED BY <2>1, <2>2, BecomesKeeps DEF Over, t
<1>2. CASE Dies(p, i)
  <2>1. Becomes(p, i, Remains(t)) /\ pc' = pc /\ Remains(t).at = "dead"
    BY <1>2 DEF Dies, Remains, NewThread
  <2> QED BY <1>0, <2>1, BecomesKeeps DEF Over
<1>3. CASE Check(p, i)
  <2> DEFINE u == IF new_fd[p] = None THEN Receiving(p, t) ELSE [t EXCEPT !.at = "send"]
  <2>1. Becomes(p, i, u) /\ pc' = pc /\ t.at = "check"
    BY <1>3 DEF Check, At
  <2> HIDE DEF t
  <2>2. u \in ThreadRecords /\ u.cancelled = t.cancelled
    BY <1>0 DEF ThreadRecords, Receiving
  <2> HIDE DEF u
  <2> QED BY <2>1, <2>2, BecomesKeeps DEF Over, t
<1>4. CASE Send(p, i)
  <2> DEFINE u == Receiving(p, t)
  <2>1. Becomes(p, i, u) /\ t.at = "send" /\ (pc' = pc \/ pc' = [pc EXCEPT ![p] = "killed"])
    BY <1>4 DEF Send, At
  <2> HIDE DEF t
  <2>2. u \in ThreadRecords /\ u.cancelled = t.cancelled
    BY <1>0 DEF ThreadRecords, Receiving
  <2> HIDE DEF u
  <2>3. pc'[Parent] \in {"fork", "restart"} => pc[Parent] \in {"fork", "restart"}
    BY <1>0, <2>1
  <2> QED BY <2>1, <2>2, <2>3, BecomesKeeps DEF Over, t
<1>5. CASE udpaf(p, i)
  <2>1. PICK u : /\ Becomes(p, i, u) /\ pc' = pc /\ t.at = "copy"
                 /\ \/ u = [t EXCEPT !.at = "check", !.out = stat'[p],
                                     !.port = 1, !.dgram = 0]
                    \/ u = [t EXCEPT !.port = @ + 1]
    BY <1>5 DEF udpaf, At
  <2> HIDE DEF t
  <2>2. u.cancelled = t.cancelled
    BY <1>0, <2>1 DEF ThreadRecords
  <2>3. /\ \A o \in Procs \ {p} : threads'[o] = threads[o]
        /\ DOMAIN threads'[p] = DOMAIN threads[p] /\ Len(threads'[p]) = Len(threads[p])
        /\ threads'[p][i] = u
        /\ \A j \in DOMAIN threads[p] \ {i} : threads'[p][j] = threads[p][j]
    <3>1. threads' = [threads EXCEPT ![p] = [threads[p] EXCEPT ![i] = u]]
      BY <2>1 DEF Becomes
    <3>2. threads \in [Procs -> Seq(ThreadRecords)]
      BY DEF Inv, ServerOK
    <3>3. \A q \in Seq(ThreadRecords) : LET w == [q EXCEPT ![i] = u] IN
            DOMAIN w = DOMAIN q /\ Len(w) = Len(q)
      OBVIOUS
    <3> QED BY <3>1, <3>2, <3>3
  <2> QED BY <1>0, <2>1, <2>2, <2>3, NewestKept DEF Over, t
<1>6. CASE recvfrom(p, i)
  <2> DEFINE q == threads[p]
             s == t.sock
             v == [q[s] EXCEPT !.queue = Tail(@)]
             q1 == [q EXCEPT ![s] = v]
             w == [q1[i] EXCEPT !.dgram = Head(q[s].queue), !.at = "copy"]
             q2 == [q1 EXCEPT ![i] = w]
  <2>1. /\ threads' = [threads EXCEPT ![p] = q2] /\ pc' = pc /\ t.at = "recv"
        /\ q \in Seq(ThreadRecords) /\ s \in DOMAIN q /\ q[s] \in ThreadRecords
    BY <1>6, ThreadFacts DEF recvfrom, At, Inv, Sockets, Busy
  <2>2. v.cancelled = q[s].cancelled /\ v.at = q[s].at /\ DOMAIN v = DOMAIN q[s]
    <3> HIDE DEF q, s
    <3> QED BY <2>1 DEF ThreadRecords
  <2>3. /\ DOMAIN q1 = DOMAIN q /\ q1[s] = v
        /\ \A j \in DOMAIN q \ {s} : q1[j] = q[j]
    <3> HIDE DEF q, s, v
    <3> QED BY <2>1
  <2>4. w.cancelled = q1[i].cancelled
    <3>1. DOMAIN q1[i] = DOMAIN NewThread
      <4>1. \A r \in ThreadRecords : DOMAIN r = DOMAIN NewThread
        BY DEF ThreadRecords, NewThread
      <4> HIDE DEF q, s, v, q1
      <4> QED BY <1>0, <2>1, <2>2, <2>3, <4>1 DEF q, t
    <3>2. "cancelled" \in DOMAIN NewThread /\ "cancelled" \notin {"at", "dgram"}
      BY DEF NewThread
    <3> HIDE DEF q1
    <3> QED BY <3>1, <3>2
  <2>5. /\ DOMAIN q2 = DOMAIN q /\ q2[i] = w
        /\ \A j \in DOMAIN q \ {i} : q2[j] = q1[j]
    <3> HIDE DEF s, v, q1, w
    <3> QED BY <2>3
  <2> HIDE DEF v, q1, w
  <2>6. \A j \in DOMAIN q : Over(q[j]) => Over(q2[j])
    <3>1. \A j \in DOMAIN q : q1[j].cancelled = q[j].cancelled /\ q1[j].at = q[j].at
      BY <2>2, <2>3
    <3>2. q[i].at = "recv"
      BY <2>1
    <3> HIDE DEF s, q2, q
    <3> QED BY <2>4, <2>5, <3>1, <3>2 DEF Over
  <2>7. DOMAIN q2 = 1 .. Len(q)
    BY <2>1, <2>5
  <2>8. Len(q2) = Len(q)
    <3> HIDE DEF q, q2, s, w
    <3>1. Len(q) \in Nat
      BY <2>1
    <3> QED BY <2>1, <2>5, <2>7, <3>1 DEF q2, q1
  <2> HIDE DEF q2
  <2>9. /\ threads'[p] = q2 /\ \A o \in Procs \ {p} : threads'[o] = threads[o]
    BY <2>1 DEF Inv, ServerOK
  <2> QED BY <1>0, <2>1, <2>5, <2>6, <2>8, <2>9, NewestKept
<1> QED BY <1>1, <1>2, <1>3, <1>4, <1>5, <1>6 DEF ThreadStep

LEMMA NewestStep == Inv /\ OnlyNewest /\ [Next]_vars => OnlyNewest'
<1> SUFFICES ASSUME Inv, OnlyNewest, [Next]_vars PROVE OnlyNewest'
  OBVIOUS
<1>0. /\ Parent \in Procs /\ pc \in [Procs -> States]
      /\ threads \in [Procs -> Seq(ThreadRecords)]
      /\ threads[Parent] \in Seq(ThreadRecords) /\ Len(threads[Parent]) >= 1
      /\ DOMAIN threads[Parent] = 1 .. Len(threads[Parent])
      /\ Len(threads[Parent]) \in Nat
  BY Roles DEF Inv, ServerOK, Processes, States
<1>1. CASE threads'[Parent] = threads[Parent]
           /\ (pc'[Parent] \in {"fork", "restart"} => pc[Parent] \in {"fork", "restart"})
  BY <1>1 DEF OnlyNewest
<1>2. CASE udp_af20
  <2>1. /\ pc' = pc
        /\ threads'[Parent] = [i \in DOMAIN threads[Parent] |->
                IF threads[Parent][i].bound /\ InUse(Parent, i)
                THEN [threads[Parent][i] EXCEPT !.queue = Append(@, truth + 1)]
                ELSE threads[Parent][i]]
    BY <1>0, <1>2 DEF udp_af20
  <2>2. \A r \in ThreadRecords : \A x :
            LET e == [r EXCEPT !.queue = x] IN e.cancelled = r.cancelled /\ e.at = r.at
    BY DEF ThreadRecords
  <2>3. \A i \in DOMAIN threads[Parent] : threads[Parent][i] \in ThreadRecords
    BY <1>0
  <2>4. \A i \in DOMAIN threads[Parent] :
            Over(threads[Parent][i]) => Over(threads'[Parent][i])
    BY <2>1, <2>2, <2>3 DEF Over
  <2>5. DOMAIN threads'[Parent] = DOMAIN threads[Parent]
    BY <2>1
  <2>6. Len(threads'[Parent]) = Len(threads[Parent])
    <3>1. BroadcastLength
      BY <1>2, BroadcastKeeps
    <3> QED BY <3>1, <1>0 DEF BroadcastLength
  <2> QED BY <2>1, <2>4, <2>5, <2>6, NewestKept
<1>3. ASSUME NEW p \in Procs, NEW i \in DOMAIN threads[p], ThreadStep(p, i)
      PROVE  OnlyNewest'
  BY <1>3, ThreadKeeps
<1>4. CASE Cancel
  <2> DEFINE n == Len(threads[Parent])
             u == [threads[Parent][n] EXCEPT !.cancelled = TRUE]
  <2>1. n \in DOMAIN threads[Parent] /\ threads[Parent][n] \in ThreadRecords
    BY <1>0
  <2>2. Becomes(Parent, n, u)
    BY <1>4 DEF Cancel, pthread_cancel, Becomes
  <2>3. u \in ThreadRecords /\ u.cancelled
    <3> HIDE DEF n
    <3> QED BY <2>1 DEF ThreadRecords
  <2> HIDE DEF u
  <2>4. /\ Len(threads'[Parent]) = n /\ DOMAIN threads'[Parent] = DOMAIN threads[Parent]
        /\ threads'[Parent][n] = u
        /\ \A j \in DOMAIN threads[Parent] \ {n} : threads'[Parent][j] = threads[Parent][j]
    BY <1>0, <2>1, <2>2, <2>3, BecomesChanged DEF Inv
  <2>5. \A j \in DOMAIN threads[Parent] : j # n => Over(threads[Parent][j])
    BY <1>0 DEF OnlyNewest
  <2> QED BY <2>3, <2>4, <2>5 DEF OnlyNewest, Over
<1>5. CASE Restart
  <2>1. /\ startUDPrecv(Parent) /\ pc[Parent] = "restart" /\ pc'[Parent] = "close"
    BY <1>0, <1>5 DEF Restart, Goes
  <2>2. \A i \in DOMAIN threads[Parent] :
            Over(threads[Parent][i]) /\ threads'[Parent][i] = threads[Parent][i]
    BY <1>0, <2>1, StartedFacts DEF OnlyNewest
  <2>3. /\ Len(threads'[Parent]) = Len(threads[Parent]) + 1
        /\ DOMAIN threads'[Parent] = 1 .. Len(threads[Parent]) + 1
    BY <1>0, <2>1, StartedFacts
  <2>4. ASSUME NEW i \in DOMAIN threads'[Parent], i < Len(threads'[Parent])
        PROVE  Over(threads'[Parent][i])
    <3>1. i \in DOMAIN threads[Parent]
      BY <1>0, <2>3, <2>4
    <3> QED BY <2>2, <3>1
  <2> QED BY <2>1, <2>4 DEF OnlyNewest
<1>6. ASSUME Fork \/ Close \/ Forget
      PROVE  OnlyNewest'
  <2>1. CASE Fork
    BY <1>0, <1>1, <2>1, Roles DEF Fork, Inv, Processes
  <2>2. CASE Close \/ Forget
    BY <1>0, <1>1, <2>2 DEF Close, Forget, Goes
  <2> QED BY <1>6, <2>1, <2>2
<1>7. ASSUME NEW p \in Procs, p # Parent, MainStep(p) PROVE OnlyNewest'
  <2>1. threads'[Parent] = threads[Parent] /\ pc'[Parent] = pc[Parent]
    BY <1>0, <1>7 DEF MainStep, Start, EndChild, Exit, Goes, startUDPrecv, pthread_cancel
  <2> QED BY <1>1, <2>1
<1>8. ASSUME NEW c \in Clients, Accept(c) PROVE OnlyNewest'
  BY <1>0, <1>1, <1>8 DEF Accept, Goes
<1>9. ASSUME NEW c \in Clients, ClientLeaves(c) \/ Answer(c) PROVE OnlyNewest'
  BY <1>1, <1>9 DEF ClientLeaves, Answer
<1>10. ASSUME NEW i \in Handlers, SigchldTaken(i) \/ sigchld_handler(i)
       PROVE  OnlyNewest'
  BY <1>1, <1>10 DEF SigchldTaken, sigchld_handler
<1>11. CASE UNCHANGED vars
  BY <1>1, <1>11 DEF vars
<1>12. ASSUME MainStep(Parent) PROVE OnlyNewest'
  BY <1>4, <1>5, <1>6, <1>12, Roles DEF MainStep
<1> QED BY <1>2, <1>3, <1>7, <1>8, <1>9, <1>10, <1>11, <1>12 DEF Next

-----------------------------------------------------------------------------
(* The theorems.                                                           *)

Inductive == Inv /\ SignalsOK /\ OnlyNewest

\* The invariant holds in every state.
LEMMA Invariance == Spec => []Inductive
<1>1. Init => SignalsOK
  BY DEF Init, SignalsOK
<1>2. Init => OnlyNewest
  <2>1. Init => threads[Parent] = <<NewThread>> /\ pc[Parent] = "accept"
    BY Roles DEF Init
  <2>2. \A i \in DOMAIN <<NewThread>> : ~(i < Len(<<NewThread>>))
    <3> HIDE DEF NewThread
    <3> QED OBVIOUS
  <2> QED BY <2>1, <2>2 DEF OnlyNewest
<1>3. Init => Inductive
  BY <1>1, <1>2, InitInv DEF Inductive
<1>4. Inductive /\ [Next]_vars => Inductive'
  BY StepInv, SignalsStep, NewestStep DEF Inductive
<1> QED BY <1>3, <1>4, PTL DEF Spec

\* No thread, whichever of them a cancellation or a fork leaves running, reads
\* or writes gport_stat out of bounds (udpaf), or receives from a socket no thread
\* of its process has opened, and nobody waits for a process that has not ended.
THEOREM TypeCorrect == Spec => []TypeOK
<1>1. Inductive => TypeOK
  BY DEF Inductive, Inv, TypeOK
<1> QED BY <1>1, Invariance, PTL

\* Only the thread created last goes on receiving, however the handler, the
\* parent's main function and its threads overtake one another: pthread_cancel
\* has reached every other one.
THEOREM OneReceiverThm == Spec => []OneReceiver
<1>1. ASSUME Inductive PROVE OneReceiver
  <2>1. \A c \in Clients : \A i \in DOMAIN threads[c] : ~(i < Len(threads[c]))
    <3> TAKE c \in Clients
    <3>1. /\ threads[c] \in Seq(ThreadRecords) /\ Len(threads[c]) <= 1
      BY <1>1, Roles DEF Inductive, Inv, ServerOK
    <3>2. DOMAIN threads[c] = 1 .. Len(threads[c]) /\ Len(threads[c]) \in Nat
      BY <3>1
    <3> QED BY <3>1, <3>2
  <2>2. \A i \in DOMAIN threads[Parent] : i < Len(threads[Parent]) =>
            threads[Parent][i].cancelled \/ threads[Parent][i].at = "dead"
    BY <1>1 DEF Inductive, OnlyNewest, Over
  <2> QED BY <2>1, <2>2, Roles DEF OneReceiver
<1> QED BY <1>1, Invariance, PTL

\* Whatever half-written copy of the statuses a child has from its parent, once
\* its thread has heard of a change and nothing more waits for it, the child
\* holds the statuses ser2net sent last.
THEOREM ChildCurrentThm == Spec => []ChildCurrent
<1>1. ASSUME Inv, NEW c \in Clients, Heard(c), threads[c][1].at = "recv",
             threads[c][1].queue = <<>>
      PROVE  stat[c] = Of(truth)
  BY <1>1 DEF Inv, Told, Informed, Knows, Heard
<1>2. Inv => ChildCurrent
  BY <1>1 DEF ChildCurrent
<1>3. Inductive => ChildCurrent
  BY <1>2 DEF Inductive
<1> QED BY <1>3, Invariance, PTL

=============================================================================
