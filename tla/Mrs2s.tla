------------------------------- MODULE Mrs2s -------------------------------
(***************************************************************************)
(* The status server (src/unixsocket/mrs2s.c, mrs2lib.c).  ser2net sends   *)
(* the status of its ports to the local broadcast address whenever one     *)
(* changes.  The server's main loop accepts clients and forks a process    *)
(* for each; in every process a thread receives the broadcasts on a socket *)
(* of its own, keeps a copy of the statuses and passes them on to the      *)
(* process's client.  Before it forks, the parent cancels its thread, and  *)
(* starts another one afterwards.  Dead processes are cleaned up in the    *)
(* handler of SIGCHLD.                                                     *)
(*                                                                         *)
(* Thread and main loop interleave between any two accesses to what they   *)
(* share: new_fd, gUDPfd and gport_stat.  A status is the number of the    *)
(* broadcast it is from.  The frames and their checksums, the settings of  *)
(* a port and the change of the IP address are left out; fork,             *)
(* pthread_create and the UDP socket calls always succeed.                 *)
(***************************************************************************)
EXTENDS Naturals, Sequences

CONSTANTS
    MaxClients, \* bound: clients that connect in all
    MaxChanges, \* bound: broadcasts of ser2net
    NPorts      \* entries of gport_stat

ASSUME Mrs2sAssumption ==
    MaxClients \in Nat \ {0} /\ MaxChanges \in Nat /\ NPorts \in Nat \ {0}

Parent == 0
Clients == 1 .. MaxClients      \* as they come; also their processes
Procs == 0 .. MaxClients
None == 0                       \* new_fd when it is -1

VARIABLES
    truth,      \* broadcasts so far
    conn,       \* each client's connection
    seen,       \* history: the last broadcast whose statuses a client received
    since,      \* history: the broadcasts before a client's process listened
    pc,         \* where the main function of each process is
    new_fd,     \* the client whose socket new_fd is
    stat,       \* gport_stat[].stat
    gUDPfd,     \* the thread that opened the socket gUDPfd is
    threads,    \* of each process, in the order of their creation
    sigchld,    \* SIGCHLD waits for the parent
    reaping,    \* the parent's main function and threads that are in the handler
    zombies     \* processes that have ended and nobody has waited for

vars == <<truth, conn, seen, since, pc, new_fd, stat, gUDPfd, threads, sigchld,
          reaping, zombies>>

signals == <<sigchld, reaping, zombies>>

Alive(p) == pc[p] \notin {"none", "exited", "killed"}

\* Who is in the handler does nothing else.
Main == 0
Runs(p, i) == p = Parent => i \notin reaping

Of(n) == [i \in 1 .. NPorts |-> n]     \* the statuses of a broadcast

\* A thread, with the socket it opens.
NewThread == [at |-> "init", cancelled |-> FALSE, sock |-> 0, dgram |-> 0,
              port |-> 1, out |-> Of(0),
              bound |-> FALSE, queue |-> <<>>]

\* A dead thread, of which only the socket is left.
Remains(t) == [NewThread EXCEPT !.at = "dead", !.bound = t.bound, !.queue = t.queue]

\* A thread reads from thread i's socket, or may come to.
InUse(p, i) ==
    \/ gUDPfd[p] = i
    \/ \E j \in DOMAIN threads[p] :
            threads[p][j].sock = i /\ ~threads[p][j].cancelled

SeesAll(c, statuses) ==
    seen' = [seen EXCEPT ![c] = IF statuses = Of(statuses[1]) /\ statuses[1] > @
                                THEN statuses[1] ELSE @]

Init ==
    /\ truth = 0
    /\ conn = [c \in Clients |-> "none"]
    /\ seen = [c \in Clients |-> 0] /\ since = [c \in Clients |-> 0]
    /\ pc = [p \in Procs |-> IF p = Parent THEN "accept" ELSE "none"]
    /\ new_fd = [p \in Procs |-> None]
    /\ stat = [p \in Procs |-> [i \in 1 .. NPorts |-> 0]]
    /\ gUDPfd = [p \in Procs |-> 0]
    /\ threads = [p \in Procs |-> IF p = Parent THEN <<NewThread>> ELSE <<>>]
    /\ sigchld = FALSE /\ reaping = {} /\ zombies = {}

-----------------------------------------------------------------------------
(* The surroundings: ser2net and the clients.                              *)

\* Sockets nobody reads any more are left out.
udp_af20 ==
    /\ truth < MaxChanges
    /\ truth' = truth + 1
    /\ threads' = [p \in Procs |-> [i \in DOMAIN threads[p] |->
                    IF threads[p][i].bound /\ InUse(p, i)
                    THEN [threads[p][i] EXCEPT !.queue = Append(@, truth + 1)]
                    ELSE threads[p][i]]]
    /\ UNCHANGED <<conn, seen, since, pc, new_fd, stat, gUDPfd, signals>>

ClientLeaves(c) ==
    /\ conn[c] = "open"
    /\ conn' = [conn EXCEPT ![c] = "left"]
    /\ UNCHANGED <<truth, seen, since, pc, new_fd, stat, gUDPfd, threads, signals>>

-----------------------------------------------------------------------------
(* The main function of the parent.                                        *)

Goes(p, from, to) == Runs(p, Main) /\ pc[p] = from /\ pc' = [pc EXCEPT ![p] = to]

\* pthread_cancel(tid[0]).  The thread is not waited for: threadErr, tested
\* before stopUDPrecv, is 0 when it was created.
MutOldest(p) == threads' = [threads EXCEPT ![p][1].cancelled = TRUE]
pthread_cancel(p) ==
    threads' = [threads EXCEPT ![p][Len(threads[p])].cancelled = TRUE]

startUDPrecv(p) == threads' = [threads EXCEPT ![p] = Append(@, NewThread)]

Accept(c) ==
    /\ Goes(Parent, "accept", "cancel")
    /\ conn[c] = "none" /\ \A d \in Clients : d < c => conn[d] # "none"
    /\ conn' = [conn EXCEPT ![c] = "open"]
    /\ new_fd' = [new_fd EXCEPT ![Parent] = c]
    /\ UNCHANGED <<truth, seen, since, stat, gUDPfd, threads, signals>>

Cancel ==
    /\ Goes(Parent, "cancel", "fork")
    /\ pthread_cancel(Parent)
    /\ UNCHANGED <<truth, conn, seen, since, new_fd, stat, gUDPfd, signals>>

\* The child has a copy of all variables but only the forking thread.
MutUnset(c) == None
Inherited(c) == new_fd[Parent]
Fork ==
    LET c == new_fd[Parent] IN
    /\ Runs(Parent, Main) /\ pc[Parent] = "fork"
    /\ pc' = [pc EXCEPT ![Parent] = "restart", ![c] = "start"]
    /\ new_fd' = [new_fd EXCEPT ![c] = Inherited(c)]
    /\ stat' = [stat EXCEPT ![c] = stat[Parent]]
    /\ UNCHANGED <<truth, conn, seen, since, gUDPfd, threads, signals>>

Restart ==
    /\ Goes(Parent, "restart", "close")
    /\ startUDPrecv(Parent)
    /\ UNCHANGED <<truth, conn, seen, since, new_fd, stat, gUDPfd, signals>>

\* close(new_fd)
Close ==
    /\ Goes(Parent, "close", "closed")
    /\ UNCHANGED <<truth, conn, seen, since, new_fd, stat, gUDPfd, threads, signals>>

\* new_fd=-1
Forget ==
    /\ Goes(Parent, "closed", "accept")
    /\ new_fd' = [new_fd EXCEPT ![Parent] = None]
    /\ UNCHANGED <<truth, conn, seen, since, stat, gUDPfd, threads, signals>>

-----------------------------------------------------------------------------
(* SIGCHLD.                                                                *)

\* The process of client c ends.
Ends(c) == sigchld' = TRUE /\ zombies' = zombies \cup {c}

\* The kernel gives the signal to the main function, unless that is in the
\* handler, where the signal is blocked for it, but not for the threads.
SigchldTaken(i) ==
    /\ sigchld /\ Alive(Parent)
    /\ i \notin reaping
    /\ \/ i = Main
       \/ /\ Main \in reaping /\ i \in DOMAIN threads[Parent]
          /\ threads[Parent][i].at # "dead"
    /\ sigchld' = FALSE
    /\ reaping' = reaping \cup {i}
    /\ UNCHANGED <<truth, conn, seen, since, pc, new_fd, stat, gUDPfd, threads,
                   zombies>>

\* while(wait(NULL) > 0);  As long as any process of a client lives, wait waits
\* for it to end.
MutOnce(i) == reaping \ {i}
Again(i) == reaping
sigchld_handler(i) ==
    /\ i \in reaping /\ Alive(Parent)
    /\ IF zombies # {}
       THEN /\ \E c \in zombies : zombies' = zombies \ {c}
            /\ reaping' = Again(i)
       ELSE /\ \A c \in Clients : ~Alive(c)
            /\ reaping' = reaping \ {i}
            /\ UNCHANGED zombies
    /\ UNCHANGED <<truth, conn, seen, since, pc, new_fd, stat, gUDPfd, threads,
                   sigchld>>

-----------------------------------------------------------------------------
(* The main function of a child.                                           *)

Start(c) ==
    /\ Goes(c, "start", "serve")
    /\ startUDPrecv(c)
    /\ UNCHANGED <<truth, conn, seen, since, new_fd, stat, gUDPfd, signals>>

\* A request is answered.  The first answer to a client that has left goes
\* nowhere and makes its end reset the connection.
Answer(c) ==
    /\ pc[c] = "serve" /\ conn[c] \in {"open", "left"}
    /\ IF conn[c] = "open"
       THEN SeesAll(c, stat[c]) /\ UNCHANGED conn
       ELSE conn' = [conn EXCEPT ![c] = "reset"] /\ UNCHANGED seen
    /\ UNCHANGED <<truth, since, pc, new_fd, stat, gUDPfd, threads, signals>>

\* The end of the connection is read, or an error.
MutContinue(c) == conn[c] = "left"
ReadEnds(c) == conn[c] \in {"left", "reset"}
EndChild(c) ==
    /\ ReadEnds(c)
    /\ Goes(c, "serve", "close")
    /\ pthread_cancel(c)
    /\ UNCHANGED <<truth, conn, seen, since, new_fd, stat, gUDPfd, signals>>

\* close(new_fd) and return 0: its thread ends with the process.
Exit(c) ==
    /\ Goes(c, "close", "exited")
    /\ new_fd' = [new_fd EXCEPT ![c] = None]
    /\ threads' = [threads EXCEPT ![c] = <<>>]
    /\ Ends(c)
    /\ UNCHANGED <<truth, conn, seen, since, stat, gUDPfd, reaping>>

-----------------------------------------------------------------------------
(* Thread i of process p.                                                  *)

At(p, i, where) ==
    Alive(p) /\ Runs(p, i) /\ i \in DOMAIN threads[p] /\ threads[p][i].at = where

Becomes(p, i, t) == threads' = [threads EXCEPT ![p][i] = t]

\* recvfrom(gUDPfd, ...) is called.
Receiving(p, t) == [t EXCEPT !.at = "recv", !.sock = gUDPfd[p], !.out = Of(0)]

\* The new socket takes the place of any older one, which stays open.
udp_broadcast_init(p, i) ==
    /\ At(p, i, "init")
    /\ gUDPfd' = [gUDPfd EXCEPT ![p] = i]
    /\ Becomes(p, i, [threads[p][i] EXCEPT !.bound = TRUE, !.at = "recv", !.sock = i])
    /\ since' = IF p = Parent THEN since ELSE [since EXCEPT ![p] = truth]
    /\ UNCHANGED <<truth, conn, seen, pc, new_fd, stat, signals>>

\* recvfrom, send and the handler's wait are certain to act on a cancellation;
\* the printfs before the statuses are copied may.
Dies(p, i) ==
    /\ Alive(p) /\ i \in DOMAIN threads[p]
    /\ \/ ~Runs(p, i)
       \/ threads[p][i].at \in {"recv", "send"}
       \/ threads[p][i].at = "copy" /\ threads[p][i].port = 1
    /\ threads[p][i].cancelled
    /\ Becomes(p, i, Remains(threads[p][i]))
    /\ reaping' = IF p = Parent THEN reaping \ {i} ELSE reaping
    /\ UNCHANGED <<truth, conn, seen, since, pc, new_fd, stat, gUDPfd, sigchld,
                   zombies>>

recvfrom(p, i) ==
    LET s == threads[p][i].sock IN
    /\ At(p, i, "recv") /\ ~threads[p][i].cancelled
    /\ threads[p][s].queue # <<>>
    /\ threads' = [threads EXCEPT
                     ![p][s].queue = Tail(@),
                     ![p][i].dgram = Head(threads[p][s].queue),
                     ![p][i].at = "copy"]
    /\ UNCHANGED <<truth, conn, seen, since, pc, new_fd, stat, gUDPfd, signals>>

\* The loop of udpaf, one status a step; then udp2send prepares the message.
MutFirstOnly(n) == TRUE
Last(n) == n = NPorts
udpaf(p, i) ==
    LET t == threads[p][i] IN
    /\ At(p, i, "copy")
    /\ stat' = [stat EXCEPT ![p][t.port] = t.dgram]
    /\ Becomes(p, i, IF Last(t.port)
                     THEN [t EXCEPT !.at = "check", !.out = stat'[p],
                                !.port = 1, !.dgram = 0]
                     ELSE [t EXCEPT !.port = @ + 1])
    /\ UNCHANGED <<truth, conn, seen, since, pc, new_fd, gUDPfd, signals>>

\* if(new_fd==-1)continue;
Check(p, i) ==
    /\ At(p, i, "check")
    /\ Becomes(p, i, IF new_fd[p] = None THEN Receiving(p, threads[p][i])
                     ELSE [threads[p][i] EXCEPT !.at = "send"])
    /\ UNCHANGED <<truth, conn, seen, since, pc, new_fd, stat, gUDPfd, signals>>

\* send(new_fd, ...), whatever new_fd is by now; an error is only printed, but
\* SIGPIPE ends the process.
Send(p, i) ==
    LET t == threads[p][i]
        c == new_fd[p]
        closed == c = None \/ pc[p] = "closed"
    IN  /\ At(p, i, "send") /\ ~t.cancelled
        /\ IF ~closed /\ conn[c] = "open"
           THEN SeesAll(c, t.out) ELSE UNCHANGED seen
        /\ IF ~closed /\ conn[c] = "left"
           THEN conn' = [conn EXCEPT ![c] = "reset"] ELSE UNCHANGED conn
        /\ IF ~closed /\ conn[c] = "reset"
           THEN /\ pc' = [pc EXCEPT ![p] = "killed"]
                /\ IF p # Parent THEN Ends(p) ELSE UNCHANGED <<sigchld, zombies>>
           ELSE UNCHANGED <<pc, sigchld, zombies>>
        /\ Becomes(p, i, Receiving(p, t))
        /\ UNCHANGED <<truth, since, new_fd, stat, gUDPfd, reaping>>

ThreadStep(p, i) ==
    \/ udp_broadcast_init(p, i) \/ Dies(p, i) \/ recvfrom(p, i)
    \/ udpaf(p, i) \/ Check(p, i) \/ Send(p, i)

MainStep(p) ==
    \/ p = Parent /\ (Cancel \/ Fork \/ Restart \/ Close \/ Forget)
    \/ p # Parent /\ (Start(p) \/ EndChild(p) \/ Exit(p))

Handlers == 0 .. MaxClients + 1

Next ==
    \/ udp_af20
    \/ \E c \in Clients : ClientLeaves(c) \/ Accept(c) \/ Answer(c)
    \/ \E p \in Procs : MainStep(p)
    \/ \E i \in Handlers : SigchldTaken(i) \/ sigchld_handler(i)
    \/ \E p \in Procs : \E i \in DOMAIN threads[p] : ThreadStep(p, i)

Spec == Init /\ [][Next]_vars

\* The kernel schedules every process, some thread of it that can go on, and the
\* handler; nobody has to connect, ask, leave or change a status.  A step of the
\* main function changes pc, one of a thread threads, one of the handler signals.
Fairness ==
    /\ \A p \in Procs :
        /\ WF_pc(MainStep(p))
        /\ WF_threads(\E i \in DOMAIN threads[p] : ThreadStep(p, i))
    /\ WF_signals(\E i \in Handlers : SigchldTaken(i) \/ sigchld_handler(i))
FairSpec == Spec /\ Fairness

-----------------------------------------------------------------------------
(* Properties.                                                             *)

Statuses == [1 .. NPorts -> 0 .. MaxChanges]

ThreadRecords ==
    [at : {"init", "recv", "copy", "check", "send", "dead"}, cancelled : BOOLEAN,
     sock : 0 .. MaxClients + 1, dgram : 0 .. MaxChanges, port : 1 .. NPorts,
     out : Statuses, bound : BOOLEAN, queue : Seq(1 .. MaxChanges)]

ServerOK ==
    /\ truth \in 0 .. MaxChanges
    /\ conn \in [Clients -> {"none", "open", "left", "reset"}]
    /\ seen \in [Clients -> 0 .. MaxChanges] /\ since \in [Clients -> 0 .. truth]
    /\ pc \in [Procs -> {"none", "accept", "cancel", "fork", "restart", "start",
                         "serve", "close", "closed", "exited", "killed"}]
    /\ new_fd \in [Procs -> Procs]
    /\ stat \in [Procs -> Statuses]
    /\ gUDPfd \in [Procs -> 0 .. MaxClients + 1]
    /\ threads \in [Procs -> Seq(ThreadRecords)]
    /\ \A p \in Procs :
        Len(threads[p]) <= IF p = Parent THEN MaxClients + 1 ELSE 1

SignalsOK ==
    /\ sigchld \in BOOLEAN /\ reaping \subseteq Handlers
    /\ zombies \subseteq {c \in Clients : pc[c] \in {"exited", "killed"}}

\* Every variable has its type: no thread indexes gport_stat out of bounds, and
\* only processes that have ended are waited for.
TypeOK == ServerOK /\ SignalsOK

\* However the parent's threads, its main function and the handler overtake one
\* another, only the thread created last goes on receiving: pthread_cancel has
\* reached every other one.
OneReceiver ==
    \A p \in Procs : \A i \in DOMAIN threads[p] :
        i < Len(threads[p]) => threads[p][i].cancelled \/ threads[p][i].at = "dead"

\* A child starts with whatever copy the fork caught its parent's thread in,
\* but once its own thread has heard of a change and nothing more waits for it,
\* all its statuses are those ser2net sent last.
Heard(c) ==
    /\ pc[c] = "serve" /\ threads[c] # <<>>
    /\ threads[c][1].bound /\ since[c] < truth
ChildCurrent ==
    \A c \in Clients :
        Heard(c) /\ threads[c][1].at = "recv" /\ threads[c][1].queue = <<>>
            => stat[c] = Of(truth)

\* A change ser2net makes after a client's process listens reaches the client,
\* if it stays: when some clients are behind, a time comes when none is.
Behind(c) == Heard(c) /\ conn[c] = "open" /\ seen[c] # truth
PushArrives == (\E c \in Clients : Behind(c)) ~> (\A c \in Clients : ~Behind(c))

\* A client that leaves takes its process with it, whichever of the main
\* function and the thread notices: again and again no process is left of all the
\* clients that have gone.  Only if it is accepted and has no process yet can
\* another client that stays prevent that: once the process of a third one has
\* ended, wait holds the parent's main function in the handler until all have.
HasLeft(c) == conn[c] \in {"left", "reset"}
Ended(c) == pc[c] \in {"exited", "killed"}
Blocked(c) ==
    /\ pc[c] = "none" /\ Main \in reaping
    /\ \E d \in Clients : pc[d] = "serve" /\ conn[d] = "open"
ChildEnds ==
    []<>(\/ pc[Parent] = "killed"
         \/ \A c \in Clients : HasLeft(c) => Ended(c) \/ Blocked(c))

\* "clean all the dead processes" (main): the handler waits for every process that
\* ends, though several signals that come while one waits are only one.
DeadAreReaped == zombies # {} ~> zombies = {} \/ pc[Parent] = "killed"

=============================================================================
