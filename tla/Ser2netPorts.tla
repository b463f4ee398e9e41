--------------------------- MODULE Ser2netPorts ---------------------------
(***************************************************************************)
(* The table of ports of ser2net (src/unixsocket/s2n291/dataxfer.c): which *)
(* ports exist, which listen for clients, which have a session, and what   *)
(* the control port, a new reading of the configuration and the shutdown   *)
(* of the program do to them.  What happens inside a session is the        *)
(* subject of Ser2netPort; here it is open, closing (its close string is   *)
(* being written) or over.                                                 *)
(*                                                                         *)
(* Descriptors are numbers the kernel hands out again after a close, as    *)
(* the lowest one free: a number a port keeps too long becomes another     *)
(* port's descriptor.  For each open number, fds says what it is and whose *)
(* handlers the selector calls for it.                                     *)
(***************************************************************************)
EXTENDS Integers

CONSTANTS
    Names,      \* TCP port names of the configuration files
    Devices,
    States,     \* what the state field of a line may say: "off" and others
    Lines,      \* configuration lines: [name, enabled, dev, close]
    Fds,        \* descriptor numbers of the process
    Slots,      \* entries of gport_stat
    Slot,       \* the entry a port reports its status in
    MaxStrays   \* bound: acts of the operator after a record strayed

ASSUME LinesAssumption ==
    Lines \subseteq [name : Names, enabled : States, dev : Devices,
                     close : BOOLEAN]
ASSUME OffAssumption == "off" \in States
ASSUME FdsAssumption == Fds \subseteq Nat
ASSUME SlotsAssumption == Slot \in [Names -> Slots]
ASSUME MaxStraysAssumption == MaxStrays \in Nat
\* What calls says of a descriptor that is no port's accept socket.
ASSUME HandlersAssumption == "data" \notin Names /\ "freed" \notin Names

\* A descriptor field that holds none; 0 is a descriptor.
None == -1

VARIABLES
    port,       \* the list ports: a partial function of Names
    fds,        \* the open descriptors and their handlers
    stat,       \* gport_stat[].stat # 0
    reading,    \* the configuration file is being read
    exiting,    \* shutdown_ports has been called
    crashed,    \* the process died of using a freed port or string
    strays      \* history: 0 until some accept socket is out of step with its
                \* record (see OutOfStep), then the operator's acts, from 1;
                \* also 1 once the program's end has closed a stale number

vars == <<port, fds, stat, reading, exiting, crashed, strays>>

ConfigNums == {"current", "old", "delete"}  \* of this reading, before it, -1

Connected(p) == port[p].state # "unconnected"

Init ==
    /\ port = [p \in {} |-> {}]
    /\ fds = [f \in {} |-> {}]
    /\ stat = [s \in Slots |-> FALSE]
    /\ reading = TRUE
    /\ exiting = FALSE /\ crashed = FALSE /\ strays = 0

-----------------------------------------------------------------------------
(* Descriptors.                                                            *)

Free(k)  == Fds \ DOMAIN k
NewFd(k) == CHOOSE f \in Free(k) : \A g \in Free(k) : f <= g

Opened(k, f, what, name, calls) ==
    [g \in DOMAIN k \cup {f} |->
        IF g = f THEN [what |-> what, of |-> name, calls |-> calls] ELSE k[g]]

\* sel_clear_fd_handlers and close of every number of F.  Nothing tells whose
\* a number is by now.
Closed(k, F) == [f \in DOMAIN k \ F |-> k[f]]

\* sel_set_fd_handlers for the accept socket f of p's record.
Accepts(k, f, p) ==
    IF f \in DOMAIN k THEN [k EXCEPT ![f].calls = p] ELSE k

\* What the handlers of the records freed point to.
Freed(k, P) ==
    [f \in DOMAIN k |->
        IF k[f].calls \in P THEN [k[f] EXCEPT !.calls = "freed"] ELSE k[f]]

Listens(k, p) == \E f \in DOMAIN k : k[f].what = "listen" /\ k[f].of = p

\* A record that will mislead: it is off but holds an accept socket, or its
\* accept socket is not one.
OutOfStep(r, k, p) ==
    \/ r.acceptfd # None /\ r.enabled = "off"
    \/ /\ r.acceptfd # None
       /\ ~ (r.acceptfd \in DOMAIN k /\ k[r.acceptfd] =
                [what |-> "listen", of |-> p, calls |-> p])
Remember(acts) ==
    strays' = IF strays > 0 THEN strays + acts
              ELSE IF \E p \in DOMAIN port' : OutOfStep(port'[p], fds', p)
                   THEN 1 ELSE 0

-----------------------------------------------------------------------------
(* Starting and stopping to listen.                                        *)

\* startup_port: the socket cannot be created; it cannot be set up, and its
\* number stays in acceptfd when it has been closed; or the port listens.
\* Only one socket of a TCP port can.
startup_port(k, p) ==
    {[acceptfd |-> None, fds |-> k]} \cup
    (IF Free(k) = {} THEN {} ELSE
        LET f == NewFd(k) IN
        {[acceptfd |-> f, fds |-> k]} \cup
        (IF Listens(k, p) THEN {} ELSE
            {[acceptfd |-> f, fds |-> Opened(k, f, "listen", p, p)]}))

Started(s, k) == s.acceptfd \in DOMAIN s.fds \ DOMAIN k

\* change_port_state of record r of port p, with its possible outcomes.  The
\* new state is stored whether or not the port could be started.
change_port_state(r, state, k, p) ==
    IF r.enabled = state
    THEN {[port |-> r, fds |-> k]}
    ELSE IF state = "off"
    THEN {[port |-> [r EXCEPT !.enabled = state, !.acceptfd = None],
           fds |-> Closed(k, {r.acceptfd})]}
    ELSE IF r.enabled = "off"
    THEN {[port |-> [r EXCEPT !.enabled = state, !.acceptfd = s.acceptfd],
           fds |-> s.fds] : s \in startup_port(k, p)}
    ELSE {[port |-> [r EXCEPT !.enabled = state], fds |-> k]}

\* The control port's setportenable, also in the middle of a session.
setportenable(p, state) ==
    /\ ~reading /\ ~exiting /\ ~crashed /\ strays <= MaxStrays
    /\ p \in DOMAIN port
    /\ \E c \in change_port_state(port[p], state, fds, p) :
            port' = [port EXCEPT ![p] = c.port] /\ fds' = c.fds
    /\ Remember(1)
    /\ UNCHANGED <<stat, reading, exiting, crashed>>

-----------------------------------------------------------------------------
(* The configuration.                                                      *)

\* What a line makes of a fresh record.
NewPort(l, enabled, acceptfd, num) ==
    [enabled |-> enabled, acceptfd |-> acceptfd, dev |-> l.dev,
     close |-> l.close, state |-> "unconnected", tcpfd |-> None,
     devfd |-> None, closestr |-> "null", config_num |-> num,
     new_config |-> {}]

\* The file is read again (SIGHUP); between the sessions' steps, not during.
ReadConfig ==
    /\ ~reading /\ ~exiting /\ ~crashed /\ strays <= MaxStrays
    /\ reading' = TRUE
    /\ port' = [p \in DOMAIN port |->
                    [port[p] EXCEPT !.config_num =
                        IF @ = "current" THEN "old" ELSE @]]
    /\ UNCHANGED <<fds, stat, exiting, crashed>>
    /\ Remember(1)

\* A line of a port that does not exist: it is added unless it cannot be
\* started.
AddPort(l) ==
    IF l.enabled = "off"
    THEN /\ port' = [p \in DOMAIN port \cup {l.name} |->
                        IF p = l.name THEN NewPort(l, "off", None, "current")
                                      ELSE port[p]]
         /\ UNCHANGED fds
    ELSE \E s \in startup_port(fds, l.name) :
            /\ Started(s, fds)
            /\ port' = [p \in DOMAIN port \cup {l.name} |->
                            IF p = l.name
                            THEN NewPort(l, l.enabled, s.acceptfd, "current")
                            ELSE port[p]]
            /\ fds' = s.fds

\* A line of an unconnected port: a new record takes over the accept socket,
\* then the state changes.
ReplacePort(l) ==
    LET old == port[l.name]
        new == NewPort(l, old.enabled, old.acceptfd, "current")
        k   == Accepts(Freed(fds, {l.name}), old.acceptfd, l.name)
    IN  \E c \in change_port_state(new, l.enabled, k, l.name) :
            port' = [port EXCEPT ![l.name] = c.port] /\ fds' = c.fds

\* A line of a port with a session: kept for its end.  A second such line
\* before that switches the running port's record off.
SetAside(l) ==
    /\ port' = [port EXCEPT
                  ![l.name].enabled = IF port[l.name].new_config # {}
                                      THEN "off" ELSE @,
                  ![l.name].config_num = "current",
                  ![l.name].new_config = {l}]
    /\ UNCHANGED fds

portconfig(l) ==
    /\ reading /\ ~crashed
    /\ \/ l.name \notin DOMAIN port /\ AddPort(l)
       \/ l.name \in DOMAIN port /\ ~Connected(l.name) /\ ReplacePort(l)
       \/ l.name \in DOMAIN port /\ Connected(l.name) /\ SetAside(l)
    /\ Remember(0)
    /\ UNCHANGED <<stat, reading, exiting, crashed>>

\* The accept socket of a record that is deleted: change_port_state closes
\* it, but only if the record is not off already.
MutNoClose(r) == {}
ClosesWith(r) == IF r.enabled # "off" THEN {r.acceptfd} ELSE {}

\* After the last line: ports no line named go, those with a session when it
\* ends.
MutOnlyMarks(P) == {}
MutAll(P) == P
Leaving(P) == {p \in P : ~Connected(p)}
clear_old_port_config ==
    LET Unnamed == {p \in DOMAIN port : port[p].config_num # "current"}
        Gone    == Leaving(Unnamed)
    IN  /\ reading /\ ~crashed
        /\ reading' = FALSE
        /\ port' = [p \in DOMAIN port \ Gone |->
                        IF p \in Unnamed
                        THEN [port[p] EXCEPT !.config_num = "delete"]
                        ELSE port[p]]
        /\ fds' = Freed(Closed(fds, UNION {ClosesWith(port[p]) : p \in Gone}),
                        Gone)
        /\ Remember(0)
        /\ UNCHANGED <<stat, exiting, crashed>>

-----------------------------------------------------------------------------
(* Sessions.                                                               *)

\* myChangeStat, or myinit_gd.  The mutant never clears a status.
MutReport(p, on) == stat' = IF on THEN [stat EXCEPT ![Slot[p]] = on] ELSE stat
Report(p, on) == stat' = [stat EXCEPT ![Slot[p]] = on]

MutOpenOnly(p) ==
    \E q \in DOMAIN port \ {p} :
        port[q].dev = port[p].dev /\ port[q].state = "open"
is_device_already_inuse(p) ==
    \E q \in DOMAIN port \ {p} : port[q].dev = port[p].dev /\ Connected(q)

\* The ports whose accept handler the selector may call.
Callable == {fds[f].calls : f \in DOMAIN fds} \cap DOMAIN port

\* A client is accepted and its session set up; every other client is told why
\* not and nothing changes.
handle_accept_port_read(p) ==
    LET tcp == NewFd(fds)
        k   == Opened(fds, tcp, "conn", p, "data")
        dev == NewFd(k)
    IN  /\ ~reading /\ ~exiting /\ ~crashed
        /\ p \in Callable
        /\ \E f \in DOMAIN fds : fds[f].calls = p /\ fds[f].what = "listen"
        /\ ~Connected(p) /\ ~is_device_already_inuse(p)
        /\ Free(fds) # {} /\ Free(k) # {}
        /\ port' = [port EXCEPT ![p].state = "open", ![p].tcpfd = tcp,
                                ![p].devfd = dev,
                                ![p].closestr = IF port[p].close THEN "copy"
                                                                 ELSE "null"]
        /\ fds' = Opened(k, dev, "device", p, "data")
        /\ Report(p, TRUE)
        /\ Remember(0)
        /\ UNCHANGED <<reading, exiting, crashed>>

\* The same when something fails; the client's socket, if there was one, is
\* closed.  Its number stays in tcpfd when SO_KEEPALIVE could not be set, and
\* does not when the accept failed or setup_tcp_port did: before myinit_gd has
\* cleared the status, or, opening the device, after.
AcceptFails(p) ==
    /\ ~reading /\ ~exiting /\ ~crashed
    /\ p \in Callable
    /\ ~Connected(p) /\ ~is_device_already_inuse(p)
    /\ \/ port' = [port EXCEPT ![p].tcpfd = None] /\ UNCHANGED stat
       \/ port' = [port EXCEPT ![p].tcpfd = None] /\ Report(p, FALSE)
       \/ /\ Free(fds) # {}
          /\ port' = [port EXCEPT ![p].tcpfd = NewFd(fds)] /\ UNCHANGED stat
    /\ UNCHANGED <<fds, reading, exiting, crashed, strays>>

\* The accept handler of a record that was freed.
AcceptFreed ==
    /\ ~crashed /\ ~exiting /\ ~reading
    /\ \E f \in DOMAIN fds : fds[f].calls = "freed"
    /\ crashed' = TRUE
    /\ UNCHANGED <<port, fds, stat, reading, exiting, strays>>

\* finish_shutdown_port of record r of port p: the record is deleted, replaced
\* by the configuration set aside, or ready for the next client.
Finished(r, k, p) ==
    IF r.new_config # {}
    THEN LET l == CHOOSE l \in r.new_config : TRUE IN
         [port |-> NewPort(l, l.enabled, r.acceptfd, r.config_num),
          fds  |-> Accepts(Freed(Closed(k, {r.devfd}), {p}), r.acceptfd, p)]
    ELSE [port |-> [r EXCEPT !.state = "unconnected", !.devfd = None,
                             !.closestr = IF @ = "copy" THEN "freed" ELSE @],
          fds  |-> Closed(k, {r.devfd})]

finish_shutdown_port(r, k, p) ==
    /\ IF r.config_num = "delete"
       THEN /\ port' = [q \in DOMAIN port \ {p} |-> port[q]]
            /\ fds' = Freed(Closed(k, {r.devfd} \cup ClosesWith(r)), {p})
       ELSE LET done == Finished(r, k, p)
            IN  port' = [port EXCEPT ![p] = done.port] /\ fds' = done.fds
    /\ Report(p, FALSE)

\* shutdown_port, from whichever handler (see Ser2netPort), the timer or the
\* control port's disconnect.
Lingers(r) == r.closestr = "copy" /\ r.devfd # None
shutdown_port(p) ==
    LET r == [port[p] EXCEPT !.tcpfd = None]
        k == Closed(fds, {port[p].tcpfd})
    IN  /\ ~reading /\ ~crashed
        /\ p \in DOMAIN port /\ port[p].state = "open"
        /\ IF Lingers(r)
           THEN /\ port' = [port EXCEPT ![p] = [r EXCEPT !.state = "closing"]]
                /\ fds' = k
                /\ UNCHANGED stat
           ELSE finish_shutdown_port(r, k, p)
        /\ Remember(0)
        /\ UNCHANGED <<reading, exiting, crashed>>

\* A write error ends the session in the middle of a handler that goes on with
\* its string or record, and the process dies of what shutdown_port freed.
HandlerUsesFreed(p) ==
    /\ ~reading /\ ~crashed
    /\ p \in DOMAIN port /\ port[p].state = "open"
    /\ crashed' = TRUE
    /\ UNCHANGED <<port, fds, stat, reading, exiting, strays>>

\* The close string is written, if the device's handlers are still there.
handle_dev_fd_close_write(p) ==
    /\ ~reading /\ ~crashed
    /\ p \in DOMAIN port /\ port[p].state = "closing"
    /\ port[p].devfd \in DOMAIN fds
    /\ fds[port[p].devfd] = [what |-> "device", of |-> p, calls |-> "data"]
    /\ finish_shutdown_port(port[p], fds, p)
    /\ Remember(0)
    /\ UNCHANGED <<reading, exiting, crashed>>

\* The program ends: every port is shut down and deleted, at once or after its
\* close string.  A close string freed at the end of a session is freed again,
\* which no allocator survives.  The link to the next port is read from the
\* record just freed: it is still there, or the process dies.  A number left
\* in an unconnected port is closed like a client's socket.
MutLeavesIdle == {p \in DOMAIN port : Connected(p) /\ ~Lingers(port[p])}
Ending == {p \in DOMAIN port : ~Lingers(port[p])}
StaleSocket == \E p \in DOMAIN port : ~Connected(p) /\ port[p].tcpfd # None
FreedTwice == \E p \in DOMAIN port : port[p].closestr = "freed"
shutdown_ports ==
    /\ ~reading /\ ~exiting /\ ~crashed
    /\ exiting' = TRUE
    /\ \/ /\ FreedTwice \/ Ending # {}
          /\ crashed' = TRUE /\ UNCHANGED <<port, fds, stat>>
       \/ /\ ~FreedTwice
          /\ port' = [p \in DOMAIN port \ Ending |->
                      [port[p] EXCEPT !.config_num = "delete",
                                      !.state = "closing", !.tcpfd = None]]
          /\ fds' = Freed(Closed(fds,
                             {port[p].tcpfd : p \in DOMAIN port}
                             \cup {port[p].devfd : p \in Ending}
                             \cup UNION {ClosesWith(port[p]) : p \in Ending}),
                          Ending)
          /\ stat' = [s \in Slots |->
                          stat[s] /\ s \notin {Slot[p] : p \in Ending}]
          /\ UNCHANGED crashed
    /\ IF StaleSocket THEN strays' = strays + 1 ELSE Remember(0)
    /\ UNCHANGED reading

Next ==
    \/ ReadConfig \/ clear_old_port_config \/ AcceptFreed \/ shutdown_ports
    \/ \E l \in Lines : portconfig(l)
    \/ \E p \in Names :
        \/ \E state \in States : setportenable(p, state)
        \/ handle_accept_port_read(p) \/ AcceptFails(p)
        \/ shutdown_port(p) \/ HandlerUsesFreed(p)
        \/ handle_dev_fd_close_write(p)

Spec == Init /\ [][Next]_vars

\* Devices take the close strings they are sent.
FairSpec == Spec /\ \A p \in Names : WF_vars(handle_dev_fd_close_write(p))

-----------------------------------------------------------------------------
(* Properties.                                                             *)

PortRecords ==
    [enabled : States, acceptfd : Fds \cup {-1}, dev : Devices,
     close : BOOLEAN, state : {"unconnected", "open", "closing"},
     tcpfd : Fds \cup {-1}, devfd : Fds \cup {-1},
     closestr : {"null", "copy", "freed"}, config_num : ConfigNums,
     new_config : SUBSET Lines]

FdRecords ==
    [what : {"listen", "conn", "device"}, of : Names,
     calls : Names \cup {"data", "freed"}]

FdTable(k) == DOMAIN k \subseteq Fds /\ k \in [DOMAIN k -> FdRecords]

\* Every variable has its type; a descriptor field holds -1 or a number.
TypeOK ==
    /\ DOMAIN port \subseteq Names /\ port \in [DOMAIN port -> PortRecords]
    /\ FdTable(fds)
    /\ stat \in [Slots -> BOOLEAN]
    /\ reading \in BOOLEAN /\ exiting \in BOOLEAN /\ crashed \in BOOLEAN
    /\ strays \in Nat

\* A serial device serves one client at a time, whatever is reconfigured or
\* switched while sessions run or write their close strings: the check before
\* an accept looks at ports whose records come, go and are replaced.
DeviceExclusive ==
    \A p, q \in DOMAIN port :
        p # q /\ Connected(p) /\ Connected(q) => port[p].dev # port[q].dev

\* While the process lives, every open descriptor is held by exactly the port
\* and field it was opened for, and nothing a port holds has been closed: no
\* failing accept, session end, reading or switch leaks a descriptor or closes
\* another's.  The number a failed SO_KEEPALIVE leaves in an unconnected port
\* is not held, and does no harm until the program's end.  Nothing is claimed
\* once strays counts: after a failed start has left a number in acceptfd, or
\* the running record of a session was switched off (see OutOfStep), or the
\* program's end has closed a stale number, which may be anyone's by then.
Client(r) == IF r.state = "unconnected" THEN None ELSE r.tcpfd
Holds(p) == {port[p].acceptfd, Client(port[p]), port[p].devfd} \ {None}
OneHolder ==
    strays = 0 /\ ~crashed =>
        /\ DOMAIN fds = UNION {Holds(p) : p \in DOMAIN port}
        /\ \A p \in DOMAIN port : \A f \in Holds(p) :
            /\ fds[f].of = p
            /\ fds[f].what = CASE f = port[p].acceptfd     -> "listen"
                               [] f = Client(port[p])     -> "conn"
                               [] OTHER                   -> "device"

\* The descriptors of a session are those its state needs.
SessionFds ==
    \A p \in DOMAIN port :
        /\ Connected(p) <=> port[p].devfd # None
        /\ port[p].state = "open" => port[p].tcpfd # None
        /\ port[p].state = "closing" => port[p].closestr = "copy"

\* Outside a reading, a port the configuration no longer names is there only to
\* finish its session, and so is a configuration set aside.
GoneUnlessBusy ==
    ~reading => \A p \in DOMAIN port :
        ~Connected(p) => port[p].config_num = "current"
                         /\ port[p].new_config = {}

\* The status broadcast shows no port as connected that is not; and, for a
\* port that shares its slot with no other, the reverse.
StatFollows ==
    ~crashed =>
    \A s \in Slots :
        LET Of == {p \in DOMAIN port : Slot[p] = s} IN
        /\ stat[s] => \E p \in Of : Connected(p)
        /\ (\A p, q \in Names : Slot[p] = s /\ Slot[q] = s => p = q) =>
                \A p \in Of : Connected(p) => stat[s]

\* A session in progress is not touched by a new reading of the configuration:
\* its port stays, with the device, the descriptors and the state it has, and
\* is neither freed, nor restarted, nor moved to the device of the new line.
\* Its enabled field is another matter: a second line for it, see SetAside, turns
\* that off.
SessionKeepsDevice ==
    [][reading =>
        \A p \in DOMAIN port :
            Connected(p) =>
                /\ p \in DOMAIN port'
                /\ port'[p].dev = port[p].dev /\ port'[p].state = port[p].state
                /\ port'[p].tcpfd = port[p].tcpfd
                /\ port'[p].devfd = port[p].devfd]_vars

\* When the program ends, all ports go, those that write a close string too,
\* or the process dies of what it uses after freeing it; a stray or stale
\* number closed at the end may have been the device a close string waits for.
ExitCompletes == exiting ~> DOMAIN port = {} \/ crashed \/ strays > 0

-----------------------------------------------------------------------------
(* What comments say, and the code does not do.                            *)

\* "If PORT_DISABLED, the port is disabled and the TCP accept port is not
\* operational."  Also when no session keeps a new configuration waiting.
DisabledNotAccepting ==
    ~crashed => \A p \in DOMAIN port :
        ~Connected(p) /\ port[p].enabled = "off" => ~Listens(fds, p)

=============================================================================
