------------------------ MODULE Ser2netPortsProofs ------------------------
(***************************************************************************)
(* Proofs about the table of ports, for every set of configuration lines,  *)
(* any number of ports, devices and descriptors.                           *)
(***************************************************************************)
EXTENDS Ser2netPorts, WellFoundedInduction, TLAPS

-----------------------------------------------------------------------------
(* The helpers keep the tables well typed.                                 *)

\* Every set of numbers but the empty one has a least element.
LEMMA LeastNumber ==
    ASSUME NEW F, F \subseteq Nat, F # {}
    PROVE  \E f \in F : \A g \in F : f <= g
<1>1. PICK f \in F : \A g \in F : <<g, f>> \notin OpToRel(<, Nat)
  BY WFMin, NatLessThanWellFounded
<1>2. \A g \in F : ~ (g < f)
  BY <1>1 DEF OpToRel
<1> QED BY <1>2, SMT

\* The number the kernel hands out is a free one.
LEMMA NewFdType ==
    ASSUME NEW k, Free(k) # {}
    PROVE  NewFd(k) \in Fds \ DOMAIN k
<1>1. Free(k) \subseteq Nat
  BY FdsAssumption DEF Free
<1>2. \E f \in Free(k) : \A g \in Free(k) : f <= g
  BY <1>1, LeastNumber
<1>3. NewFd(k) \in Free(k)
  BY <1>2 DEF NewFd
<1> QED BY <1>3 DEF Free

\* Opening a descriptor keeps the table of descriptors well typed.
LEMMA OpenedType ==
    ASSUME NEW k, FdTable(k), NEW f \in Fds, NEW p \in Names,
           NEW what \in {"listen", "conn", "device"},
           NEW calls \in Names \cup {"data", "freed"}
    PROVE  FdTable(Opened(k, f, what, p, calls))
BY DEF FdTable, FdRecords, Opened

\* As OpenedType, for close.
LEMMA ClosedType ==
    ASSUME NEW k, FdTable(k), NEW F PROVE FdTable(Closed(k, F))
BY DEF FdTable, Closed

\* As OpenedType, for the accept handler.
LEMMA AcceptsType ==
    ASSUME NEW k, FdTable(k), NEW f, NEW p \in Names
    PROVE  FdTable(Accepts(k, f, p))
BY DEF FdTable, FdRecords, Accepts

\* As OpenedType, for the handlers of freed records.
LEMMA FreedType ==
    ASSUME NEW k, FdTable(k), NEW P PROVE FdTable(Freed(k, P))
BY DEF FdTable, FdRecords, Freed

\* However it ends, startup_port stores a number or -1.
LEMMA StartupType ==
    ASSUME NEW k, FdTable(k), NEW p \in Names, NEW s \in startup_port(k, p)
    PROVE  s.acceptfd \in Fds \cup {-1} /\ FdTable(s.fds)
<1>1. CASE Free(k) = {}
  BY <1>1 DEF startup_port, None
<1>2. CASE Free(k) # {}
  <2>1. NewFd(k) \in Fds
    BY <1>2, NewFdType
  <2>2. FdTable(Opened(k, NewFd(k), "listen", p, p))
    BY <2>1, OpenedType
  <2> QED BY <1>2, <2>1, <2>2 DEF startup_port, None
<1> QED BY <1>1, <1>2

\* What changes of a record when its state does, and what never does.
LEMMA ChangeState ==
    ASSUME NEW r \in PortRecords, NEW state \in States, NEW p \in Names,
           NEW k, FdTable(k), NEW c \in change_port_state(r, state, k, p)
    PROVE  /\ c.port \in PortRecords /\ FdTable(c.fds)
           /\ c.port.dev = r.dev /\ c.port.state = r.state
           /\ c.port.tcpfd = r.tcpfd /\ c.port.devfd = r.devfd
           /\ c.port.closestr = r.closestr /\ c.port.config_num = r.config_num
           /\ c.port.new_config = r.new_config
<1>1. CASE r.enabled = state
  BY <1>1 DEF change_port_state
<1>2. CASE r.enabled # state /\ state = "off"
  <2>1. c = [port |-> [r EXCEPT !.enabled = state, !.acceptfd = None],
             fds  |-> Closed(k, {r.acceptfd})]
    BY <1>2 DEF change_port_state
  <2>2. FdTable(c.fds)
    BY <2>1, ClosedType
  <2> QED BY <2>1, <2>2 DEF PortRecords, None
<1>3. CASE r.enabled # state /\ state # "off" /\ r.enabled = "off"
  <2>1. PICK s \in startup_port(k, p) :
            c = [port |-> [r EXCEPT !.enabled = state, !.acceptfd = s.acceptfd],
                 fds |-> s.fds]
    BY <1>3 DEF change_port_state
  <2> QED BY <2>1, StartupType DEF PortRecords
<1>4. CASE r.enabled # state /\ state # "off" /\ r.enabled # "off"
  BY <1>4 DEF change_port_state, PortRecords
<1> QED BY <1>1, <1>2, <1>3, <1>4

\* A line makes a record.
LEMMA NewPortType ==
    ASSUME NEW l \in Lines, NEW enabled \in States,
           NEW acceptfd \in Fds \cup {-1}, NEW num \in ConfigNums
    PROVE  NewPort(l, enabled, acceptfd, num) \in PortRecords
BY LinesAssumption DEF NewPort, PortRecords, None

-----------------------------------------------------------------------------
(* The invariant.                                                          *)

\* Only a session keeps a configuration waiting for its end.
Waiting == \A p \in DOMAIN port : ~Connected(p) => port[p].new_config = {}

\* Between readings no record is left from the one before.
Settled ==
    ~reading => \A p \in DOMAIN port :
        /\ port[p].config_num # "old"
        /\ ~Connected(p) => port[p].config_num = "current"

\* StatFollows, its two halves apart.
StatOn ==
    \A s \in Slots :
        stat[s] => \E p \in DOMAIN port : Slot[p] = s /\ Connected(p)
Sole(p) == \A q \in Names : Slot[q] = Slot[p] => q = p
StatOff == \A p \in DOMAIN port : Connected(p) /\ Sole(p) => stat[Slot[p]]

Inv == /\ TypeOK /\ SessionFds /\ DeviceExclusive
       /\ Waiting /\ Settled /\ StatOn /\ StatOff

\* Inv holds of the empty table.
LEMMA InitInv == Init => Inv
<1> SUFFICES ASSUME Init PROVE Inv
  OBVIOUS
<1>1. DOMAIN port = {} /\ DOMAIN fds = {} /\ reading
  BY DEF Init
<1>2. port \in [DOMAIN port -> PortRecords] /\ fds \in [DOMAIN fds -> FdRecords]
  BY <1>1 DEF Init
<1>3. TypeOK
  BY <1>1, <1>2 DEF Init, TypeOK, FdTable
<1>4. SessionFds /\ DeviceExclusive /\ Waiting /\ Settled /\ StatOff
  BY <1>1 DEF SessionFds, DeviceExclusive, Waiting, Settled, StatOff
<1>5. StatOn
  BY DEF Init, StatOn
<1> QED BY <1>3, <1>4, <1>5 DEF Inv

\* A reading that begins only marks the ports.
LEMMA ReadConfigInv == Inv /\ ReadConfig => Inv'
<1> SUFFICES ASSUME Inv, ReadConfig PROVE Inv'
  OBVIOUS
<1> USE DEF Inv, ReadConfig, Connected
<1>1. /\ DOMAIN port' = DOMAIN port
      /\ \A p \in DOMAIN port :
            /\ port'[p] \in PortRecords
            /\ port'[p].state = port[p].state /\ port'[p].dev = port[p].dev
            /\ port'[p].devfd = port[p].devfd /\ port'[p].tcpfd = port[p].tcpfd
            /\ port'[p].closestr = port[p].closestr
            /\ port'[p].new_config = port[p].new_config
  BY DEF TypeOK, PortRecords, ConfigNums
<1>2. TypeOK'
  BY <1>1 DEF TypeOK, Remember, FdTable
<1>3. SessionFds' /\ DeviceExclusive' /\ Waiting' /\ Settled'
  BY <1>1 DEF SessionFds, DeviceExclusive, Waiting, Settled
<1>4. StatOn' /\ StatOff'
  BY <1>1 DEF StatOn, StatOff, Sole
<1> QED BY <1>2, <1>3, <1>4

\* setportenable changes no port's session.
LEMMA SetPortEnableInv ==
    ASSUME Inv, NEW p \in Names, NEW state \in States, setportenable(p, state)
    PROVE  Inv'
<1> USE DEF Inv, setportenable, Connected
<1>1. PICK c \in change_port_state(port[p], state, fds, p) :
            port' = [port EXCEPT ![p] = c.port] /\ fds' = c.fds
  OBVIOUS
<1>2. p \in DOMAIN port /\ port[p] \in PortRecords /\ FdTable(fds)
  BY DEF TypeOK
<1>3. /\ c.port \in PortRecords /\ FdTable(c.fds)
      /\ c.port.dev = port[p].dev /\ c.port.state = port[p].state
      /\ c.port.tcpfd = port[p].tcpfd /\ c.port.devfd = port[p].devfd
      /\ c.port.closestr = port[p].closestr
      /\ c.port.config_num = port[p].config_num
      /\ c.port.new_config = port[p].new_config
  BY <1>2, ChangeState
<1>4. TypeOK'
  BY <1>1, <1>2, <1>3 DEF TypeOK, Remember
<1>5. SessionFds' /\ DeviceExclusive' /\ Waiting' /\ Settled'
  BY <1>1, <1>2, <1>3 DEF SessionFds, DeviceExclusive, Waiting, Settled, TypeOK
<1>6. StatOn' /\ StatOff'
  BY <1>1, <1>2, <1>3 DEF StatOn, StatOff, Sole, TypeOK
<1> QED BY <1>4, <1>5, <1>6

\* An accepted client finds its device with no other port.
LEMMA AcceptInv ==
    ASSUME Inv, NEW p \in Names, handle_accept_port_read(p)
    PROVE  Inv'
<1> DEFINE tcp == NewFd(fds)
           k   == Opened(fds, tcp, "conn", p, "data")
           dev == NewFd(k)
<1> USE DEF Inv, Connected
<1>1. p \in DOMAIN port /\ ~Connected(p) /\ ~is_device_already_inuse(p)
  BY DEF handle_accept_port_read, Callable
<1>2. tcp \in Fds /\ dev \in Fds /\ FdTable(k)
  BY NewFdType, OpenedType DEF TypeOK, handle_accept_port_read
<1>3. /\ port' = [port EXCEPT ![p].state = "open", ![p].tcpfd = tcp,
                              ![p].devfd = dev,
                              ![p].closestr = IF port[p].close THEN "copy"
                                                               ELSE "null"]
      /\ fds' = Opened(k, dev, "device", p, "data")
      /\ stat' = [stat EXCEPT ![Slot[p]] = TRUE]
      /\ UNCHANGED <<reading, exiting, crashed>>
  BY DEF handle_accept_port_read, Report
<1>4. /\ DOMAIN port' = DOMAIN port /\ port' \in [DOMAIN port -> PortRecords]
      /\ port'[p].state = "open" /\ port'[p].dev = port[p].dev
      /\ port'[p].tcpfd # None /\ port'[p].devfd # None
      /\ port'[p].config_num = port[p].config_num
      /\ \A q \in DOMAIN port \ {p} : port'[q] = port[q]
  BY <1>1, <1>2, <1>3, FdsAssumption DEF TypeOK, PortRecords, None
<1>5. FdTable(fds')
  BY <1>2, <1>3, OpenedType
<1>6. TypeOK'
  BY <1>3, <1>4, <1>5, SlotsAssumption
  DEF TypeOK, handle_accept_port_read, Remember
<1>7. SessionFds' /\ Waiting' /\ Settled'
  BY <1>1, <1>3, <1>4 DEF SessionFds, Waiting, Settled
<1>8. DeviceExclusive'
  BY <1>1, <1>4 DEF DeviceExclusive, is_device_already_inuse
<1>9. StatOn' /\ StatOff'
  BY <1>1, <1>3, <1>4, SlotsAssumption DEF StatOn, StatOff, Sole, TypeOK
<1> QED BY <1>6, <1>7, <1>8, <1>9

\* An accept that fails leaves at most a number in an unconnected port.
LEMMA AcceptFailsPort ==
    ASSUME Inv, NEW p \in Names, AcceptFails(p)
    PROVE  /\ p \in DOMAIN port /\ ~Connected(p)
           /\ \E n \in Fds \cup {-1} : port' = [port EXCEPT ![p].tcpfd = n]
           /\ UNCHANGED stat \/ stat' = [stat EXCEPT ![Slot[p]] = FALSE]
           /\ UNCHANGED <<fds, reading, exiting, crashed, strays>>
<1>1. Free(fds) # {} => NewFd(fds) \in Fds
  BY NewFdType
<1> QED BY <1>1 DEF AcceptFails, Callable, Report, None

\* As AcceptFailsPort, of every port's record.
LEMMA AcceptFailsRecords ==
    ASSUME Inv, NEW p \in Names, AcceptFails(p)
    PROVE  /\ DOMAIN port' = DOMAIN port
           /\ \A q \in DOMAIN port :
                /\ port'[q] \in PortRecords
                /\ q # p => port'[q] = port[q]
                /\ port'[q].state = port[q].state /\ port'[q].dev = port[q].dev
                /\ port'[q].acceptfd = port[q].acceptfd
                /\ port'[q].enabled = port[q].enabled
                /\ port'[q].devfd = port[q].devfd
                /\ port'[q].closestr = port[q].closestr
                /\ port'[q].config_num = port[q].config_num
                /\ port'[q].new_config = port[q].new_config
<1>1. PICK n \in Fds \cup {-1} : port' = [port EXCEPT ![p].tcpfd = n]
  BY AcceptFailsPort
<1> QED BY <1>1 DEF Inv, TypeOK, PortRecords

LEMMA AcceptFailsInv ==
    ASSUME Inv, NEW p \in Names, AcceptFails(p)
    PROVE  Inv'
<1>1. /\ p \in DOMAIN port /\ ~Connected(p)
      /\ UNCHANGED stat \/ stat' = [stat EXCEPT ![Slot[p]] = FALSE]
      /\ UNCHANGED <<fds, reading, exiting, crashed, strays>>
      /\ port' \in [DOMAIN port -> PortRecords]
  <2>1. PICK n \in Fds \cup {-1} : port' = [port EXCEPT ![p].tcpfd = n]
    BY AcceptFailsPort
  <2>2. port' \in [DOMAIN port -> PortRecords]
    <3>1. \A q \in DOMAIN port : port'[q] \in PortRecords
      BY AcceptFailsRecords
    <3> QED BY <2>1, <3>1
  <2>3. UNCHANGED stat \/ stat' = [stat EXCEPT ![Slot[p]] = FALSE]
    BY DEF AcceptFails, Report
  <2>4. /\ p \in DOMAIN port /\ ~Connected(p)
        /\ UNCHANGED <<fds, reading, exiting, crashed, strays>>
    BY DEF AcceptFails, Callable
  <2> QED BY <2>2, <2>3, <2>4
<1>2. /\ DOMAIN port' = DOMAIN port
      /\ \A q \in DOMAIN port :
                /\ q # p => port'[q] = port[q]
                /\ port'[q].state = port[q].state /\ port'[q].dev = port[q].dev
                /\ port'[q].devfd = port[q].devfd
                /\ port'[q].closestr = port[q].closestr
                /\ port'[q].config_num = port[q].config_num
                /\ port'[q].new_config = port[q].new_config
  BY AcceptFailsRecords
<1> USE DEF Inv, Connected
<1>3. TypeOK'
  BY <1>1, <1>2 DEF TypeOK
<1>4. SessionFds' /\ DeviceExclusive' /\ Waiting' /\ Settled'
  BY <1>1, <1>2 DEF SessionFds, DeviceExclusive, Waiting, Settled
<1>5. StatOn'
  BY <1>1, <1>2, SlotsAssumption DEF StatOn, TypeOK
<1>6. StatOff'
  BY <1>1, <1>2, SlotsAssumption DEF StatOff, Sole, TypeOK
<1> QED BY <1>3, <1>4, <1>5, <1>6

\* A crash changes no table.
LEMMA AcceptFreedInv == Inv /\ AcceptFreed => Inv'
BY DEF Inv, AcceptFreed, TypeOK, SessionFds, DeviceExclusive, Waiting, Settled,
       StatOn, StatOff, Connected

LEMMA HandlerUsesFreedInv ==
    ASSUME Inv, NEW p \in Names, HandlerUsesFreed(p) PROVE Inv'
BY DEF Inv, HandlerUsesFreed, TypeOK, SessionFds, DeviceExclusive, Waiting,
       Settled, StatOn, StatOff, Connected

\* The end of a session: r is the record of p, but for what shutdown_port has
\* cleared of it.
LEMMA FinishInv ==
    ASSUME Inv, NEW p \in Names, p \in DOMAIN port, Connected(p), ~reading,
           NEW STATE r, r \in PortRecords, NEW STATE k, FdTable(k),
           r.config_num = port[p].config_num,
           finish_shutdown_port(r, k, p), Remember(0),
           UNCHANGED <<reading, exiting, crashed>>
    PROVE  Inv'
<1> USE DEF Inv, Connected
<1>0. port[p] \in PortRecords /\ Slot[p] \in Slots
  BY SlotsAssumption DEF TypeOK
<1>1. stat' = [stat EXCEPT ![Slot[p]] = FALSE] /\ stat' \in [Slots -> BOOLEAN]
  BY DEF finish_shutdown_port, Report, TypeOK
<1>2. /\ DOMAIN port' \subseteq DOMAIN port
      /\ port' \in [DOMAIN port' -> PortRecords] /\ FdTable(fds')
      /\ \A q \in DOMAIN port' \ {p} : port'[q] = port[q]
      /\ DOMAIN port \ {p} \subseteq DOMAIN port'
      /\ p \in DOMAIN port' =>
            /\ port'[p].state = "unconnected" /\ port'[p].devfd = None
            /\ port'[p].new_config = {}
            /\ port'[p].config_num = r.config_num
            /\ r.config_num # "delete"
  <2>1. CASE r.config_num = "delete"
    <3>1. FdTable(fds')
      BY <2>1, ClosedType, FreedType DEF finish_shutdown_port
    <3> QED BY <2>1, <3>1 DEF finish_shutdown_port, TypeOK
  <2>2. CASE r.config_num # "delete" /\ r.new_config # {}
    <3> DEFINE l == CHOOSE l \in r.new_config : TRUE
               new == NewPort(l, l.enabled, r.acceptfd, r.config_num)
    <3>1. l \in Lines /\ l.enabled \in States
      BY <2>2, LinesAssumption DEF PortRecords
    <3>2. new \in PortRecords /\ new.state = "unconnected" /\ new.devfd = None
          /\ new.new_config = {} /\ new.config_num = r.config_num
      <4>1. new \in PortRecords
        BY <3>1, NewPortType DEF PortRecords
      <4> QED BY <4>1 DEF NewPort
    <3>3. port' = [port EXCEPT ![p] = new]
      BY <2>2 DEF finish_shutdown_port, Finished
    <3>4. FdTable(fds')
      BY <2>2, ClosedType, FreedType, AcceptsType
      DEF finish_shutdown_port, Finished
    <3> HIDE DEF new
    <3> QED BY <2>2, <3>2, <3>3, <3>4 DEF TypeOK
  <2>3. CASE r.config_num # "delete" /\ r.new_config = {}
    <3> DEFINE new == [r EXCEPT !.state = "unconnected", !.devfd = None,
                            !.closestr = IF @ = "copy" THEN "freed" ELSE @]
    <3>1. new \in PortRecords /\ new.state = "unconnected" /\ new.devfd = None
          /\ new.new_config = {} /\ new.config_num = r.config_num
      BY <2>3 DEF PortRecords, None
    <3>2. port' = [port EXCEPT ![p] = new] /\ fds' = Closed(k, {r.devfd})
      BY <2>3 DEF finish_shutdown_port, Finished
    <3>3. FdTable(fds')
      BY <3>2, ClosedType
    <3> HIDE DEF new
    <3> QED BY <2>3, <3>1, <3>2, <3>3 DEF TypeOK
  <2> QED BY <2>1, <2>2, <2>3
<1>3. TypeOK'
  BY <1>1, <1>2 DEF TypeOK, Remember
<1>4. SessionFds' /\ DeviceExclusive' /\ Waiting'
  BY <1>2 DEF SessionFds, DeviceExclusive, Waiting
<1>5. Settled'
  BY <1>0, <1>2 DEF Settled, PortRecords, ConfigNums
<1>6. StatOn'
  <2> SUFFICES ASSUME NEW s \in Slots, stat'[s]
               PROVE  \E q \in DOMAIN port' : Slot[q] = s /\ port'[q].state # "unconnected"
    BY DEF StatOn
  <2>1. s # Slot[p] /\ stat[s]
    BY <1>0, <1>1 DEF TypeOK
  <2> QED BY <1>2, <2>1 DEF StatOn
<1>7. StatOff'
  <2> SUFFICES ASSUME NEW q \in DOMAIN port', port'[q].state # "unconnected",
                      Sole(q)
               PROVE  stat'[Slot[q]]
    BY DEF StatOff, Sole
  <2>1. q # p /\ q \in DOMAIN port /\ Slot[p] # Slot[q]
    BY <1>2 DEF Sole
  <2>2. stat[Slot[q]] /\ Slot[q] \in Slots
    BY <1>2, <2>1, SlotsAssumption DEF StatOff, TypeOK
  <2> QED BY <1>1, <2>1, <2>2 DEF TypeOK
<1> QED BY <1>3, <1>4, <1>5, <1>6, <1>7

\* A session is shut down, at once or by way of its close string.
LEMMA ShutdownPortInv ==
    ASSUME Inv, NEW p \in Names, shutdown_port(p) PROVE Inv'
<1> DEFINE r == [port[p] EXCEPT !.tcpfd = None]
           k == Closed(fds, {port[p].tcpfd})
<1>1. /\ p \in DOMAIN port /\ port[p].state = "open" /\ Connected(p) /\ ~reading
      /\ Remember(0) /\ UNCHANGED <<reading, exiting, crashed>>
  BY DEF shutdown_port, Connected
<1>2. /\ r \in PortRecords /\ FdTable(k) /\ r.tcpfd = None
      /\ r.config_num = port[p].config_num
      /\ r.state = "open" /\ r.devfd = port[p].devfd
      /\ r.closestr = port[p].closestr
  BY <1>1, ClosedType DEF Inv, TypeOK, PortRecords, None
<1>3. CASE Lingers(r)
  <2>1. port' = [port EXCEPT ![p] = [r EXCEPT !.state = "closing"]]
        /\ fds' = k /\ UNCHANGED stat
    BY <1>3 DEF shutdown_port
  <2>2. /\ DOMAIN port' = DOMAIN port /\ port' \in [DOMAIN port -> PortRecords]
        /\ port'[p].state = "closing" /\ port'[p].dev = port[p].dev
        /\ port'[p].devfd = port[p].devfd /\ port'[p].devfd # None
        /\ port'[p].closestr = "copy"
        /\ port'[p].config_num = port[p].config_num
        /\ \A q \in DOMAIN port \ {p} : port'[q] = port[q]
    BY <1>1, <1>2, <1>3, <2>1 DEF Inv, TypeOK, PortRecords, Lingers
  <2> HIDE DEF r, k
  <2>3. TypeOK'
    BY <1>1, <1>2, <2>1, <2>2 DEF Inv, TypeOK, Remember
  <2>4. SessionFds'
    BY <2>2 DEF Inv, SessionFds, Connected
  <2>5. DeviceExclusive'
    BY <1>1, <2>2 DEF Inv, DeviceExclusive, Connected
  <2>6. Waiting' /\ Settled'
    BY <1>1, <2>2 DEF Inv, Waiting, Settled, Connected
  <2>7. StatOn' /\ StatOff'
    BY <1>1, <2>1, <2>2 DEF Inv, StatOn, StatOff, Sole, Connected
  <2> QED BY <2>3, <2>4, <2>5, <2>6, <2>7 DEF Inv
<1>4. CASE ~Lingers(r)
  <2>1. finish_shutdown_port(r, k, p)
    BY <1>4 DEF shutdown_port
  <2> HIDE DEF r, k
  <2> QED BY <1>1, <1>2, <2>1, FinishInv
<1> QED BY <1>3, <1>4

\* The close string is written and the session over.
LEMMA CloseWriteInv ==
    ASSUME Inv, NEW p \in Names, handle_dev_fd_close_write(p) PROVE Inv'
<1>1. /\ p \in DOMAIN port /\ port[p].state = "closing" /\ ~reading
      /\ finish_shutdown_port(port[p], fds, p)
      /\ Remember(0) /\ UNCHANGED <<reading, exiting, crashed>>
  BY DEF handle_dev_fd_close_write
<1>2. port[p] \in PortRecords /\ FdTable(fds) /\ Connected(p)
  BY <1>1 DEF Inv, TypeOK, Connected
<1> QED BY <1>1, <1>2, FinishInv

\* A configuration line: the record of a port without a session is new or
\* replaced by an unconnected one; that of a session keeps all it works with.
LEMMA PortConfigInv ==
    ASSUME Inv, NEW l \in Lines, portconfig(l) PROVE Inv'
<1> DEFINE n == l.name
<1>0. /\ n \in Names /\ l.enabled \in States
      /\ reading /\ Remember(0)
      /\ UNCHANGED <<stat, reading, exiting, crashed>>
  BY LinesAssumption DEF portconfig
<1>1. /\ DOMAIN port' = DOMAIN port \cup {n}
      /\ port' \in [DOMAIN port' -> PortRecords] /\ FdTable(fds')
      /\ \A q \in DOMAIN port \ {n} : port'[q] = port[q]
      /\ n \in DOMAIN port /\ Connected(n) =>
            /\ port'[n].state = port[n].state /\ port'[n].dev = port[n].dev
            /\ port'[n].devfd = port[n].devfd /\ port'[n].tcpfd = port[n].tcpfd
            /\ port'[n].closestr = port[n].closestr
      /\ n \notin DOMAIN port \/ ~Connected(n) =>
            /\ port'[n].state = "unconnected" /\ port'[n].devfd = None
            /\ port'[n].new_config = {}
  <2>1. CASE n \notin DOMAIN port
    <3>1. AddPort(l)
      BY <2>1 DEF portconfig
    <3>2. \E a \in Fds \cup {-1} : \E e \in States :
            /\ port' = [p \in DOMAIN port \cup {n} |->
                            IF p = n THEN NewPort(l, e, a, "current")
                                     ELSE port[p]]
            /\ FdTable(fds')
      <4>1. CASE l.enabled = "off"
        BY <1>0, <3>1, <4>1 DEF AddPort, Inv, TypeOK, None
      <4>2. CASE l.enabled # "off"
        <5>1. PICK s \in startup_port(fds, n) :
                /\ port' = [p \in DOMAIN port \cup {n} |->
                              IF p = n
                              THEN NewPort(l, l.enabled, s.acceptfd, "current")
                              ELSE port[p]]
                /\ fds' = s.fds
          BY <3>1, <4>2 DEF AddPort
        <5>2. s.acceptfd \in Fds \cup {-1} /\ FdTable(s.fds)
          BY <1>0, StartupType DEF Inv, TypeOK
        <5> QED BY <1>0, <5>1, <5>2
      <4> QED BY <4>1, <4>2
    <3>3. PICK a \in Fds \cup {-1}, e \in States :
            /\ port' = [p \in DOMAIN port \cup {n} |->
                            IF p = n THEN NewPort(l, e, a, "current")
                                     ELSE port[p]]
            /\ FdTable(fds')
      BY <3>2
    <3> DEFINE new == NewPort(l, e, a, "current")
    <3>4. new \in PortRecords /\ new.state = "unconnected"
          /\ new.devfd = None /\ new.new_config = {}
      <4>1. new \in PortRecords
        BY NewPortType DEF ConfigNums
      <4> QED BY <4>1 DEF NewPort
    <3>5. port' = [p \in DOMAIN port \cup {n} |->
                        IF p = n THEN new ELSE port[p]]
      BY <3>3
    <3> HIDE DEF new
    <3> QED BY <2>1, <3>3, <3>4, <3>5 DEF Inv, TypeOK
  <2>2. CASE n \in DOMAIN port /\ ~Connected(n)
    <3> DEFINE old == port[n]
               new == NewPort(l, old.enabled, old.acceptfd, "current")
               k   == Accepts(Freed(fds, {n}), old.acceptfd, n)
    <3>1. PICK c \in change_port_state(new, l.enabled, k, n) :
                port' = [port EXCEPT ![n] = c.port] /\ fds' = c.fds
      BY <2>2 DEF portconfig, ReplacePort
    <3>2. new \in PortRecords /\ FdTable(k)
      <4>1. old.enabled \in States /\ old.acceptfd \in Fds \cup {-1}
        BY <2>2 DEF Inv, TypeOK, PortRecords
      <4> QED BY <1>0, <4>1, NewPortType, AcceptsType, FreedType
              DEF ConfigNums, Inv, TypeOK
    <3>3. new.state = "unconnected" /\ new.devfd = None /\ new.new_config = {}
      BY DEF NewPort
    <3> HIDE DEF new, k
    <3>4. /\ c.port \in PortRecords /\ FdTable(c.fds)
          /\ c.port.state = "unconnected" /\ c.port.devfd = None
          /\ c.port.new_config = {}
      BY <1>0, <3>2, <3>3, ChangeState
    <3> QED BY <2>2, <3>1, <3>4 DEF Inv, TypeOK
  <2>3. CASE n \in DOMAIN port /\ Connected(n)
    <3>1. SetAside(l)
      BY <2>3 DEF portconfig
    <3>2. \E e \in States :
            port' = [port EXCEPT ![n].enabled = e,
                                 ![n].config_num = "current",
                                 ![n].new_config = {l}]
      <4>1. CASE port[n].new_config = {}
        BY <2>3, <3>1, <4>1 DEF SetAside, Inv, TypeOK, PortRecords
      <4>2. CASE port[n].new_config # {}
        BY <2>3, <3>1, <4>2, OffAssumption DEF SetAside
      <4> QED BY <4>1, <4>2
    <3>3. PICK e \in States :
            port' = [port EXCEPT ![n].enabled = e,
                                 ![n].config_num = "current",
                                 ![n].new_config = {l}]
      BY <3>2
    <3> DEFINE new == [port[n] EXCEPT !.enabled = e,
                                      !.config_num = "current",
                                      !.new_config = {l}]
    <3>4. port' = [port EXCEPT ![n] = new]
      BY <2>3, <3>3 DEF Inv, TypeOK
    <3>5. /\ new \in PortRecords
          /\ new.state = port[n].state /\ new.dev = port[n].dev
          /\ new.devfd = port[n].devfd /\ new.tcpfd = port[n].tcpfd
          /\ new.closestr = port[n].closestr
      <4>1. port[n] \in PortRecords
        BY <2>3 DEF Inv, TypeOK
      <4>2. {l} \in SUBSET Lines /\ "current" \in ConfigNums
        BY <1>0 DEF ConfigNums
      <4> QED BY <3>3, <4>1, <4>2 DEF PortRecords
    <3>6. FdTable(fds')
      BY <3>1 DEF SetAside, Inv, TypeOK
    <3> HIDE DEF new
    <3> QED BY <2>3, <3>4, <3>5, <3>6 DEF Inv, TypeOK
  <2> QED BY <2>1, <2>2, <2>3
<1> HIDE DEF n
<1>2. TypeOK'
  BY <1>0, <1>1 DEF Inv, TypeOK, Remember
<1>3. SessionFds'
  BY <1>0, <1>1 DEF Inv, SessionFds, Connected
<1>4. DeviceExclusive'
  BY <1>0, <1>1 DEF Inv, DeviceExclusive, Connected
<1>5. Waiting' /\ Settled'
  BY <1>0, <1>1 DEF Inv, Waiting, Settled, Connected
<1>6. StatOn' /\ StatOff'
  BY <1>0, <1>1 DEF Inv, StatOn, StatOff, Sole, Connected
<1> QED BY <1>2, <1>3, <1>4, <1>5, <1>6 DEF Inv

\* The end of a reading deletes the ports no line named, or marks them.
LEMMA ClearOldInv == Inv /\ clear_old_port_config => Inv'
<1> SUFFICES ASSUME Inv, clear_old_port_config PROVE Inv'
  OBVIOUS
<1>1. /\ reading' = FALSE /\ UNCHANGED <<stat, exiting, crashed>> /\ Remember(0)
      /\ FdTable(fds')
  BY ClosedType, FreedType DEF clear_old_port_config, Inv, TypeOK
<1>2. /\ DOMAIN port' \subseteq DOMAIN port
      /\ port' \in [DOMAIN port' -> PortRecords]
      /\ \A p \in DOMAIN port : Connected(p) => p \in DOMAIN port'
      /\ \A p \in DOMAIN port' :
            /\ port'[p].state = port[p].state /\ port'[p].dev = port[p].dev
            /\ port'[p].devfd = port[p].devfd /\ port'[p].tcpfd = port[p].tcpfd
            /\ port'[p].closestr = port[p].closestr
            /\ port'[p].new_config = port[p].new_config
            /\ port'[p].config_num \in {"current", "delete"}
            /\ ~Connected(p) => port'[p].config_num = "current"
  BY DEF clear_old_port_config, Leaving, Inv, TypeOK, PortRecords, ConfigNums
<1>3. TypeOK'
  <2>1. strays' \in Nat
    BY <1>1 DEF Inv, TypeOK, Remember
  <2> QED BY <1>1, <1>2, <2>1 DEF Inv, TypeOK
<1>4. SessionFds'
  BY <1>2 DEF Inv, SessionFds, Connected
<1>5. DeviceExclusive'
  BY <1>2 DEF Inv, DeviceExclusive, Connected
<1>6. Waiting' /\ Settled'
  BY <1>1, <1>2 DEF Inv, Waiting, Settled, Connected
<1>7. StatOn' /\ StatOff'
  BY <1>1, <1>2 DEF Inv, StatOn, StatOff, Sole, Connected
<1> QED BY <1>3, <1>4, <1>5, <1>6, <1>7 DEF Inv

\* The program's end leaves only ports that write their close strings.
LEMMA ShutdownPortsInv == Inv /\ shutdown_ports => Inv'
<1> SUFFICES ASSUME Inv, shutdown_ports PROVE Inv'
  OBVIOUS
<1>0. ~reading /\ UNCHANGED reading /\ exiting' = TRUE /\ strays' \in Nat
  <2>1. /\ ~reading /\ UNCHANGED reading /\ exiting' = TRUE
        /\ strays' = strays + 1 \/ Remember(0)
    BY DEF shutdown_ports
  <2>2. strays \in Nat
    BY DEF Inv, TypeOK
  <2> QED BY <2>1, <2>2 DEF Remember
<1>1. CASE UNCHANGED <<port, fds, stat>> /\ crashed' = TRUE
  <2>2. TypeOK'
    BY <1>0, <1>1 DEF Inv, TypeOK
  <2> QED BY <1>0, <1>1, <2>2
          DEF Inv, SessionFds, DeviceExclusive, Waiting, Settled, StatOn,
              StatOff, Connected
<1>2. CASE ~ (UNCHANGED <<port, fds, stat>> /\ crashed' = TRUE)
  <2>1. /\ DOMAIN port' = DOMAIN port \ Ending
        /\ port' = [p \in DOMAIN port \ Ending |->
                        [port[p] EXCEPT !.config_num = "delete",
                                        !.state = "closing", !.tcpfd = None]]
        /\ stat' = [s \in Slots |->
                        stat[s] /\ s \notin {Slot[p] : p \in Ending}]
        /\ UNCHANGED crashed
    BY <1>2 DEF shutdown_ports
  <2>2. FdTable(fds')
    <3> DEFINE F == {port[p].tcpfd : p \in DOMAIN port}
                    \cup {port[p].devfd : p \in Ending}
                    \cup UNION {ClosesWith(port[p]) : p \in Ending}
    <3>1. fds' = Freed(Closed(fds, F), Ending)
      BY <1>2 DEF shutdown_ports
    <3> HIDE DEF F
    <3> QED BY <3>1, ClosedType, FreedType DEF Inv, TypeOK
  <2>3. \A p \in DOMAIN port \ Ending :
            /\ port'[p] \in PortRecords
            /\ port'[p].state = "closing" /\ port'[p].dev = port[p].dev
            /\ port'[p].devfd = port[p].devfd /\ port'[p].devfd # None
            /\ port'[p].closestr = "copy" /\ Connected(p)
            /\ port'[p].config_num = "delete"
    <3> SUFFICES ASSUME NEW p \in DOMAIN port \ Ending
                 PROVE  /\ port'[p] \in PortRecords
                        /\ port'[p].state = "closing"
                        /\ port'[p].dev = port[p].dev
                        /\ port'[p].devfd = port[p].devfd
                        /\ port'[p].devfd # None
                        /\ port'[p].closestr = "copy" /\ Connected(p)
                        /\ port'[p].config_num = "delete"
      OBVIOUS
    <3>1. port[p] \in PortRecords
      BY DEF Inv, TypeOK
    <3>2. port'[p] = [port[p] EXCEPT !.config_num = "delete",
                                     !.state = "closing", !.tcpfd = None]
      BY <2>1
    <3>3. port[p].closestr = "copy" /\ port[p].devfd # None /\ Connected(p)
      BY DEF Ending, Lingers, Inv, SessionFds
    <3>4. port'[p] \in PortRecords
      BY <3>1, <3>2 DEF PortRecords, ConfigNums, None
    <3> QED BY <3>1, <3>2, <3>3, <3>4 DEF PortRecords
  <2>4. TypeOK'
    <3>1. stat' \in [Slots -> BOOLEAN]
      BY <2>1 DEF Inv, TypeOK
    <3>3. DOMAIN port' \subseteq Names /\ port' \in [DOMAIN port' -> PortRecords]
      BY <2>1, <2>3 DEF Inv, TypeOK
    <3> QED BY <1>0, <2>1, <2>2, <3>1, <3>3 DEF Inv, TypeOK
  <2>5. SessionFds'
    BY <2>1, <2>3 DEF SessionFds, Connected
  <2>6. DeviceExclusive'
    <3> SUFFICES ASSUME NEW p \in DOMAIN port', NEW q \in DOMAIN port', p # q
                 PROVE  port'[p].dev # port'[q].dev
      BY DEF DeviceExclusive, Connected
    <3>1. p \in DOMAIN port \ Ending /\ q \in DOMAIN port \ Ending
      BY <2>1
    <3> QED BY <2>3, <3>1 DEF Inv, DeviceExclusive
  <2>7. Waiting' /\ Settled'
    BY <2>1, <2>3 DEF Waiting, Settled, Connected
  <2>8. StatOn'
    <3> SUFFICES ASSUME NEW s \in Slots, stat'[s]
                 PROVE  \E q \in DOMAIN port' :
                            Slot[q] = s /\ port'[q].state # "unconnected"
      BY DEF StatOn, Connected
    <3>1. stat[s] /\ \A p \in Ending : Slot[p] # s
      BY <2>1
    <3>2. PICK q \in DOMAIN port : Slot[q] = s
      BY <3>1 DEF Inv, StatOn
    <3>3. q \in DOMAIN port \ Ending
      BY <3>1, <3>2
    <3> QED BY <2>1, <2>3, <3>2, <3>3
  <2>9. StatOff'
    <3> SUFFICES ASSUME NEW q \in DOMAIN port', Sole(q) PROVE stat'[Slot[q]]
      BY DEF StatOff, Sole
    <3>1. q \in DOMAIN port \ Ending /\ Connected(q) /\ q \in Names
      BY <2>1, <2>3 DEF Inv, TypeOK
    <3>2. \A p \in Ending : Slot[p] # Slot[q]
      BY <3>1 DEF Sole, Ending, Inv, TypeOK
    <3>3. stat[Slot[q]] /\ Slot[q] \in Slots
      BY <3>1, SlotsAssumption DEF Inv, StatOff
    <3> QED BY <2>1, <3>2, <3>3
  <2> QED BY <2>4, <2>5, <2>6, <2>7, <2>8, <2>9 DEF Inv
<1> QED BY <1>1, <1>2

-----------------------------------------------------------------------------
(* Descriptors and their holders, until a record strays.                   *)

\* What the fields of a record hold.
Hold(r) == {r.acceptfd, Client(r), r.devfd} \ {None}

\* Record r holds exactly the descriptors of port p in table k, each open and
\* in the field it was opened for.
Mine(r, k, p) ==
    /\ ~OutOfStep(r, k, p)
    /\ Client(r) # None =>
        /\ Client(r) \in DOMAIN k
        /\ k[Client(r)] = [what |-> "conn", of |-> p, calls |-> "data"]
    /\ r.devfd # None =>
        /\ r.devfd \in DOMAIN k
        /\ k[r.devfd] = [what |-> "device", of |-> p, calls |-> "data"]
    /\ r.state # "open" => Client(r) = None
    /\ \A f \in DOMAIN k : k[f].of = p => f \in Hold(r)

\* A record in no session holds no client's socket, whatever its field says.
LEMMA ClientOf ==
    ASSUME NEW r
    PROVE  /\ r.state = "unconnected" => Client(r) = None
           /\ r.state # "unconnected" => Client(r) = r.tcpfd
           /\ r.tcpfd = None => Client(r) = None
BY DEF Client

\* OneHolder, strengthened by the handlers, by accept sockets held only by
\* ports that are not off, and by clients only in open sessions.
Link == /\ \A p \in DOMAIN port : Mine(port[p], fds, p)
        /\ \A f \in DOMAIN fds : fds[f].of \in DOMAIN port
Linked == strays = 0 /\ ~crashed => Link

InStep == \A p \in DOMAIN port : ~OutOfStep(port[p], fds, p)

\* A step leaves no trace in strays only if every record is in step after it.
LEMMA NotStrayed ==
    ASSUME Inv, NEW acts \in Nat, Remember(acts), strays' = 0
    PROVE  strays = 0 /\ InStep'
BY DEF Inv, TypeOK, Remember, InStep

\* A descriptor of a port is in the field that tells what it is.
LEMMA EntryOf ==
    ASSUME NEW r, NEW k, NEW p, Mine(r, k, p),
           NEW f \in DOMAIN k, k[f].of = p
    PROVE  \/ f = r.acceptfd /\ r.enabled # "off"
              /\ k[f] = [what |-> "listen", of |-> p, calls |-> p]
           \/ f = Client(r) /\ r.state = "open"
              /\ k[f] = [what |-> "conn", of |-> p, calls |-> "data"]
           \/ f = r.devfd
              /\ k[f] = [what |-> "device", of |-> p, calls |-> "data"]
<1>1. f \in Hold(r)
  BY DEF Mine
<1>2. CASE f = r.acceptfd
  BY <1>1, <1>2 DEF Hold, OutOfStep, Mine
<1>3. CASE f = Client(r)
  BY <1>1, <1>3 DEF Hold, Mine
<1>4. CASE f = r.devfd
  BY <1>1, <1>4 DEF Hold, Mine
<1> QED BY <1>1, <1>2, <1>3, <1>4 DEF Hold

\* Table k2 is table k but for the descriptors of port p.
Others(k, p) == {f \in DOMAIN k : k[f].of # p}
ButFor(k, k2, p) ==
    /\ Others(k2, p) = Others(k, p)
    /\ \A f \in Others(k, p) : k2[f] = k[f]

LEMMA ButForTwice ==
    ASSUME NEW k, NEW k2, NEW k3, NEW p, ButFor(k, k2, p), ButFor(k2, k3, p)
    PROVE  ButFor(k, k3, p)
BY DEF ButFor

\* A number no descriptor has may be opened, and p's own closed.
LEMMA ButForOpened ==
    ASSUME NEW k, NEW f, f \notin DOMAIN k, NEW p, NEW what, NEW calls
    PROVE  ButFor(k, Opened(k, f, what, p, calls), p)
BY DEF ButFor, Others, Opened

LEMMA ButForClosed ==
    ASSUME NEW k, NEW p, NEW F, \A f \in F \cap DOMAIN k : k[f].of = p
    PROVE  ButFor(k, Closed(k, F), p)
BY DEF ButFor, Others, Closed

\* What a port holds is not disturbed by a step of another.
LEMMA StillMine ==
    ASSUME NEW r, NEW k, NEW k2, NEW p, NEW q, p # q, ButFor(k, k2, p),
           Mine(r, k, q)
    PROVE  Mine(r, k2, q)
<1>1. \A f \in DOMAIN k : k[f].of = q => f \in DOMAIN k2 /\ k2[f] = k[f]
  BY DEF ButFor, Others
<1>2. \A f \in DOMAIN k2 : k2[f].of = q => f \in DOMAIN k /\ k2[f] = k[f]
  BY DEF ButFor, Others
<1> QED BY <1>1, <1>2 DEF Mine, OutOfStep

\* The step of one port: it holds what it should, or is gone and holds nothing.
LEMMA LinkStep ==
    ASSUME Link, NEW p, ButFor(fds, fds', p),
           DOMAIN port' \ {p} = DOMAIN port \ {p},
           \A q \in DOMAIN port \ {p} : port'[q] = port[q],
           p \in DOMAIN port' => Mine(port'[p], fds', p),
           p \notin DOMAIN port' => \A f \in DOMAIN fds' : fds'[f].of # p
    PROVE  Link'
<1>1. ASSUME NEW q \in DOMAIN port', q # p PROVE Mine(port'[q], fds', q)
  BY <1>1, StillMine DEF Link
<1>2. ASSUME NEW f \in DOMAIN fds', fds'[f].of # p
      PROVE  fds'[f].of \in DOMAIN port'
  BY <1>2 DEF Link, ButFor, Others
<1> QED BY <1>1, <1>2 DEF Link

\* A record that only differs in what its port is configured to be.
LEMMA SameMine ==
    ASSUME NEW r, NEW r2, NEW k, NEW p, Mine(r, k, p), ~OutOfStep(r2, k, p),
           r2.acceptfd = r.acceptfd, Client(r2) = Client(r), r2.devfd = r.devfd,
           r2.state = r.state \/ Client(r2) = None
    PROVE  Mine(r2, k, p)
BY DEF Mine, Hold

\* -1 is no descriptor.
LEMMA NoneClosed ==
    ASSUME NEW k, FdTable(k) PROVE None \notin DOMAIN k
BY FdsAssumption DEF FdTable, None

\* A port switched on or off holds what its new record says, unless the socket
\* was opened in vain.
LEMMA ChangeMine ==
    ASSUME NEW r \in PortRecords, NEW state \in States, NEW p \in Names,
           NEW k, FdTable(k), NEW c \in change_port_state(r, state, k, p),
           Mine(r, k, p), ~OutOfStep(c.port, c.fds, p)
    PROVE  ButFor(k, c.fds, p) /\ Mine(c.port, c.fds, p)
<1>0. ButFor(k, k, p) /\ None \notin DOMAIN k
  BY NoneClosed DEF ButFor
<1>1. CASE r.enabled = state
  BY <1>0, <1>1 DEF change_port_state
<1>2. CASE r.enabled # state /\ state = "off"
  <2>0. c = [port |-> [r EXCEPT !.enabled = state, !.acceptfd = None],
             fds  |-> Closed(k, {r.acceptfd})]
    BY <1>2 DEF change_port_state
  <2>1. /\ c.fds = Closed(k, {r.acceptfd})
        /\ c.port.acceptfd = None /\ Client(c.port) = Client(r)
        /\ c.port.devfd = r.devfd /\ c.port.state = r.state
    BY <2>0 DEF PortRecords, Client
  <2>2. r.acceptfd \in DOMAIN k =>
            k[r.acceptfd] = [what |-> "listen", of |-> p, calls |-> p]
    BY <1>0 DEF Mine, OutOfStep
  <2>3. ButFor(k, c.fds, p)
    BY <2>1, <2>2, ButForClosed
  <2>4. /\ DOMAIN c.fds = DOMAIN k \ {r.acceptfd}
        /\ \A f \in DOMAIN c.fds : c.fds[f] = k[f]
    BY <2>1 DEF Closed
  <2>5. Client(c.port) # None =>
            /\ Client(c.port) \in DOMAIN c.fds
            /\ c.fds[Client(c.port)] = [what |-> "conn", of |-> p, calls |-> "data"]
    <3> SUFFICES ASSUME Client(r) # None
                 PROVE  /\ Client(r) \in DOMAIN c.fds
                        /\ c.fds[Client(r)] =
                                [what |-> "conn", of |-> p, calls |-> "data"]
      BY <2>1
    <3>1. Client(r) \in DOMAIN k
          /\ k[Client(r)] = [what |-> "conn", of |-> p, calls |-> "data"]
      BY DEF Mine
    <3>2. Client(r) # r.acceptfd
      BY <2>2, <3>1
    <3> QED BY <2>4, <3>1, <3>2
  <2>6. c.port.devfd # None =>
            /\ c.port.devfd \in DOMAIN c.fds
            /\ c.fds[c.port.devfd] =
                    [what |-> "device", of |-> p, calls |-> "data"]
    <3> SUFFICES ASSUME r.devfd # None
                 PROVE  /\ r.devfd \in DOMAIN c.fds
                        /\ c.fds[r.devfd] =
                                [what |-> "device", of |-> p, calls |-> "data"]
      BY <2>1
    <3>1. r.devfd \in DOMAIN k
          /\ k[r.devfd] = [what |-> "device", of |-> p, calls |-> "data"]
      BY DEF Mine
    <3>2. r.devfd # r.acceptfd
      BY <2>2, <3>1
    <3> QED BY <2>4, <3>1, <3>2
  <2>7. \A f \in DOMAIN c.fds : c.fds[f].of = p => f \in Hold(c.port)
    BY <2>1, <2>4 DEF Mine, Hold
  <2> QED BY <2>1, <2>3, <2>5, <2>6, <2>7 DEF Mine
<1>3. CASE r.enabled # state /\ state # "off" /\ r.enabled = "off"
  <2>1. r.acceptfd = None
    BY <1>3 DEF Mine, OutOfStep
  <2>2. PICK s \in startup_port(k, p) :
            c = [port |-> [r EXCEPT !.enabled = state, !.acceptfd = s.acceptfd],
                 fds |-> s.fds]
    BY <1>3 DEF change_port_state
  <2>3. /\ c.fds = s.fds /\ c.port.acceptfd = s.acceptfd
        /\ c.port.enabled = state /\ Client(c.port) = Client(r)
        /\ c.port.devfd = r.devfd /\ c.port.state = r.state
    BY <2>2 DEF PortRecords, Client
  <2>4. CASE s = [acceptfd |-> None, fds |-> k]
    BY <1>0, <2>1, <2>3, <2>4, SameMine
  <2>5. CASE Free(k) # {}
             /\ s = [acceptfd |-> NewFd(k), fds |-> k]
    <3>1. s.acceptfd \in Fds \ DOMAIN k
      BY <2>5, NewFdType
    <3> QED BY <2>3, <2>5, <3>1, FdsAssumption DEF OutOfStep, None
  <2>6. CASE Free(k) # {}
             /\ s = [acceptfd |-> NewFd(k),
                     fds |-> Opened(k, NewFd(k), "listen", p, p)]
    <3>1. NewFd(k) \in Fds \ DOMAIN k
      BY <2>6, NewFdType
    <3>2. ButFor(k, c.fds, p)
      BY <2>3, <2>6, <3>1, ButForOpened
    <3>3. /\ DOMAIN c.fds = DOMAIN k \cup {c.port.acceptfd}
          /\ \A f \in DOMAIN k : c.fds[f] = k[f]
          /\ c.port.acceptfd # None
      BY <2>3, <2>6, <3>1, FdsAssumption DEF Opened, None
    <3> QED BY <2>1, <2>3, <3>2, <3>3 DEF Mine, Hold
  <2> QED BY <2>4, <2>5, <2>6 DEF startup_port
<1>4. CASE r.enabled # state /\ state # "off" /\ r.enabled # "off"
  BY <1>0, <1>4, SameMine DEF change_port_state, PortRecords, Client
<1> QED BY <1>1, <1>2, <1>3, <1>4

\* Handlers are those of the descriptor's own record, none that was freed.
Calling(k) ==
    \A f \in DOMAIN k : /\ k[f].calls # "freed"
                        /\ k[f].calls \in Names => k[f].calls = k[f].of

LEMMA LinkCalling ==
    ASSUME Inv, Link PROVE Calling(fds)
<1> SUFFICES ASSUME NEW f \in DOMAIN fds
             PROVE  /\ fds[f].calls # "freed"
                    /\ fds[f].calls \in Names => fds[f].calls = fds[f].of
  BY DEF Calling
<1>1. fds[f].of \in DOMAIN port /\ fds[f].of \in Names
  BY DEF Link, Inv, TypeOK
<1>2. Mine(port[fds[f].of], fds, fds[f].of)
  BY <1>1 DEF Link
<1> QED BY <1>1, <1>2, EntryOf, HandlersAssumption

\* A record freed leaves its handlers behind only on its own accept socket,
LEMMA FreedButFor ==
    ASSUME NEW k, Calling(k), NEW p \in Names PROVE ButFor(k, Freed(k, {p}), p)
BY DEF ButFor, Others, Freed, Calling

\* and the record that takes its place takes that socket over.
LEMMA TakenOver ==
    ASSUME NEW r, NEW k, NEW p \in Names, Calling(k), FdTable(k), Mine(r, k, p)
    PROVE  Accepts(Freed(k, {p}), r.acceptfd, p) = k
<1> DEFINE a == Accepts(Freed(k, {p}), r.acceptfd, p)
<1>0. k = [f \in DOMAIN k |-> k[f]] /\ \A f \in DOMAIN k : k[f] \in FdRecords
  BY DEF FdTable
<1>1. a = [f \in DOMAIN k |-> a[f]] /\ DOMAIN a = DOMAIN k
  BY DEF Accepts, Freed
<1>2. ASSUME NEW f \in DOMAIN k PROVE a[f] = k[f]
  <2>1. CASE f = r.acceptfd
    <3>1. k[f] = [what |-> "listen", of |-> p, calls |-> p]
      BY <2>1, NoneClosed DEF Mine, OutOfStep
    <3>2. Freed(k, {p})[f] = [k[f] EXCEPT !.calls = "freed"]
      BY <3>1 DEF Freed
    <3>3. a[f] = [Freed(k, {p})[f] EXCEPT !.calls = p]
      BY <2>1 DEF Accepts, Freed
    <3> QED BY <3>1, <3>2, <3>3
  <2>2. CASE f # r.acceptfd
    <3>1. a[f] = Freed(k, {p})[f]
      BY <2>2 DEF Accepts, Freed
    <3>2. k[f].calls # p
      <4> SUFFICES ASSUME k[f].of = p PROVE k[f].calls # p
        BY DEF Calling
      <4> QED BY <2>2, EntryOf, HandlersAssumption
    <3> QED BY <3>1, <3>2 DEF Freed
  <2> QED BY <2>1, <2>2
<1> HIDE DEF a
<1>3. a = k
  BY <1>0, <1>1, <1>2
<1> QED BY <1>3 DEF a

\* A reading that begins changes nobody's descriptors.
LEMMA ReadConfigLink ==
    ASSUME Inv, Link, ReadConfig, InStep' PROVE Link'
<1>1. /\ DOMAIN port' = DOMAIN port /\ fds' = fds
      /\ \A p \in DOMAIN port :
            /\ port'[p].acceptfd = port[p].acceptfd
            /\ port'[p].tcpfd = port[p].tcpfd
            /\ port'[p].devfd = port[p].devfd
            /\ port'[p].state = port[p].state
  BY DEF ReadConfig, Inv, TypeOK, PortRecords
<1>2. ASSUME NEW p \in DOMAIN port' PROVE Mine(port'[p], fds', p)
  <2>1. Client(port'[p]) = Client(port[p])
    BY <1>1 DEF Client
  <2> QED BY <1>1, <2>1, SameMine DEF Link, InStep
<1> QED BY <1>1, <1>2 DEF Link

\* The number left by a failed accept is not held.
LEMMA AcceptFailsLink ==
    ASSUME Inv, Link, NEW p \in Names, AcceptFails(p) PROVE Link'
<1>1. p \in DOMAIN port /\ ~Connected(p) /\ fds' = fds
  BY AcceptFailsPort
<1>2. /\ DOMAIN port' = DOMAIN port
      /\ \A q \in DOMAIN port :
                /\ q # p => port'[q] = port[q]
                /\ port'[q].state = port[q].state
                /\ port'[q].acceptfd = port[q].acceptfd
                /\ port'[q].enabled = port[q].enabled
                /\ port'[q].devfd = port[q].devfd
  BY AcceptFailsRecords
<1>3. ASSUME NEW q \in DOMAIN port' PROVE Mine(port'[q], fds', q)
  <2>1. q \in DOMAIN port /\ Mine(port[q], fds, q)
    BY <1>2 DEF Link
  <2>2. Client(port'[q]) = Client(port[q])
    BY <1>1, <1>2, <2>1 DEF Client, Connected
  <2>3. ~OutOfStep(port'[q], fds, q)
    BY <1>2, <2>1 DEF Mine, OutOfStep
  <2> QED BY <1>1, <1>2, <2>1, <2>2, <2>3, SameMine
<1> QED BY <1>1, <1>2, <1>3 DEF Link

LEMMA SetPortEnableLink ==
    ASSUME Inv, Link, NEW p \in Names, NEW state \in States,
           setportenable(p, state), InStep'
    PROVE  Link'
<1>1. p \in DOMAIN port
  BY DEF setportenable
<1>2. PICK c \in change_port_state(port[p], state, fds, p) :
            port' = [port EXCEPT ![p] = c.port] /\ fds' = c.fds
  BY DEF setportenable
<1>3. ~OutOfStep(c.port, c.fds, p)
  BY <1>1, <1>2 DEF InStep, Inv, TypeOK
<1>4. ButFor(fds, c.fds, p) /\ Mine(c.port, c.fds, p)
  BY <1>1, <1>3, ChangeMine DEF Link, Inv, TypeOK
<1>5. /\ DOMAIN port' = DOMAIN port /\ port'[p] = c.port
      /\ \A q \in DOMAIN port \ {p} : port'[q] = port[q]
  BY <1>1, <1>2 DEF Inv, TypeOK
<1> QED BY <1>1, <1>2, <1>4, <1>5, LinkStep

\* The descriptors of a new session are new numbers.
LEMMA AcceptLink ==
    ASSUME Inv, Link, NEW p \in Names, handle_accept_port_read(p), InStep'
    PROVE  Link'
<1> DEFINE tcp == NewFd(fds)
           k   == Opened(fds, tcp, "conn", p, "data")
           dev == NewFd(k)
<1>1. p \in DOMAIN port /\ ~Connected(p)
  BY DEF handle_accept_port_read, Callable
<1>2. tcp \in Fds \ DOMAIN fds /\ dev \in Fds \ DOMAIN k
  BY NewFdType DEF handle_accept_port_read
<1>3. tcp # None /\ dev # None /\ dev # tcp /\ dev \notin DOMAIN fds
  BY <1>2, FdsAssumption DEF None, Opened
<1>4. /\ DOMAIN port' = DOMAIN port
      /\ port'[p].state = "open" /\ port'[p].tcpfd = tcp
      /\ port'[p].devfd = dev /\ port'[p].acceptfd = port[p].acceptfd
      /\ \A q \in DOMAIN port \ {p} : port'[q] = port[q]
      /\ fds' = Opened(k, dev, "device", p, "data")
  BY <1>1 DEF handle_accept_port_read, Inv, TypeOK, PortRecords
<1>5. ButFor(fds, fds', p)
  BY <1>2, <1>4, ButForOpened, ButForTwice
<1>6. /\ DOMAIN fds' = DOMAIN fds \cup {tcp, dev}
      /\ fds'[tcp] = [what |-> "conn", of |-> p, calls |-> "data"]
      /\ fds'[dev] = [what |-> "device", of |-> p, calls |-> "data"]
      /\ \A f \in DOMAIN fds : fds'[f] = fds[f]
  BY <1>2, <1>3, <1>4 DEF Opened
<1>7. \A f \in DOMAIN fds : fds[f].of = p => f = port[p].acceptfd
                                             /\ f # None
  <2>1. port[p].devfd = None /\ Client(port[p]) = None
    BY <1>1 DEF Inv, SessionFds, Client, Connected
  <2> QED BY <1>1, <2>1 DEF Link, Mine, Hold
<1>10. Client(port'[p]) = tcp
  BY <1>4 DEF Client
<1> HIDE DEF tcp, dev, k
<1>8. \A f \in DOMAIN fds' : fds'[f].of = p => f \in Hold(port'[p])
  BY <1>3, <1>4, <1>6, <1>7, <1>10 DEF Hold
<1>9. Mine(port'[p], fds', p)
  BY <1>1, <1>4, <1>6, <1>8, <1>10 DEF Mine, InStep
<1> QED BY <1>1, <1>4, <1>5, <1>9, LinkStep

\* A descriptor of a session closed, and forgotten by its record.
LEMMA ClientClosed ==
    ASSUME NEW r \in PortRecords, NEW k, FdTable(k), NEW p, Mine(r, k, p),
           r.state = "open", NEW r2, r2 = [r EXCEPT !.tcpfd = None],
           NEW k2, k2 = Closed(k, {r.tcpfd})
    PROVE  ButFor(k, k2, p) /\ Mine(r2, k2, p)
<1>1. /\ r2.acceptfd = r.acceptfd /\ r2.devfd = r.devfd
      /\ r2.enabled = r.enabled /\ Client(r2) = None /\ Client(r) = r.tcpfd
  BY DEF PortRecords, Client
<1>2. /\ DOMAIN k2 = DOMAIN k \ {r.tcpfd} /\ \A f \in DOMAIN k2 : k2[f] = k[f]
  BY DEF Closed
<1>3. r.tcpfd \in DOMAIN k =>
            k[r.tcpfd] = [what |-> "conn", of |-> p, calls |-> "data"]
  BY <1>1, NoneClosed DEF Mine
<1>4. ButFor(k, k2, p)
  BY <1>3, ButForClosed
<1>5. ~OutOfStep(r2, k2, p)
  <2>1. ~OutOfStep(r, k, p)
    BY DEF Mine
  <2>2. r.acceptfd # None => r.acceptfd # r.tcpfd
    BY <1>3, <2>1 DEF OutOfStep
  <2> QED BY <1>1, <1>2, <2>1, <2>2 DEF OutOfStep
<1>6. r2.devfd # None =>
            /\ r2.devfd \in DOMAIN k2
            /\ k2[r2.devfd] = [what |-> "device", of |-> p, calls |-> "data"]
  <2> SUFFICES ASSUME r.devfd # None
               PROVE  /\ r.devfd \in DOMAIN k2
                      /\ k2[r.devfd] =
                            [what |-> "device", of |-> p, calls |-> "data"]
    BY <1>1
  <2>1. /\ r.devfd \in DOMAIN k
        /\ k[r.devfd] = [what |-> "device", of |-> p, calls |-> "data"]
    BY DEF Mine
  <2>2. r.devfd # r.tcpfd
    BY <1>3, <2>1
  <2> QED BY <1>2, <2>1, <2>2
<1>7. \A f \in DOMAIN k2 : k2[f].of = p => f \in Hold(r2)
  BY <1>1, <1>2 DEF Mine, Hold
<1> QED BY <1>1, <1>4, <1>5, <1>6, <1>7 DEF Mine

LEMMA DeviceClosed ==
    ASSUME NEW r \in PortRecords, NEW k, FdTable(k), NEW p, Mine(r, k, p),
           NEW r2, r2 = [r EXCEPT !.devfd = None],
           NEW k2, k2 = Closed(k, {r.devfd})
    PROVE  ButFor(k, k2, p) /\ Mine(r2, k2, p)
<1>1. /\ r2.acceptfd = r.acceptfd /\ Client(r2) = Client(r) /\ r2.devfd = None
      /\ r2.enabled = r.enabled /\ r2.state = r.state
  BY DEF PortRecords, Client
<1>2. /\ DOMAIN k2 = DOMAIN k \ {r.devfd} /\ \A f \in DOMAIN k2 : k2[f] = k[f]
  BY DEF Closed
<1>3. r.devfd \in DOMAIN k =>
            k[r.devfd] = [what |-> "device", of |-> p, calls |-> "data"]
  BY NoneClosed DEF Mine
<1>4. ButFor(k, k2, p)
  BY <1>3, ButForClosed
<1>5. ~OutOfStep(r2, k2, p)
  <2>1. ~OutOfStep(r, k, p)
    BY DEF Mine
  <2>2. r.acceptfd # None => r.acceptfd # r.devfd
    BY <1>3, <2>1 DEF OutOfStep
  <2> QED BY <1>1, <1>2, <2>1, <2>2 DEF OutOfStep
<1>6. Client(r2) # None =>
            /\ Client(r2) \in DOMAIN k2
            /\ k2[Client(r2)] = [what |-> "conn", of |-> p, calls |-> "data"]
  <2> SUFFICES ASSUME Client(r) # None
               PROVE  /\ Client(r) \in DOMAIN k2
                      /\ k2[Client(r)] =
                            [what |-> "conn", of |-> p, calls |-> "data"]
    BY <1>1
  <2>1. /\ Client(r) \in DOMAIN k
        /\ k[Client(r)] = [what |-> "conn", of |-> p, calls |-> "data"]
    BY DEF Mine
  <2>2. Client(r) # r.devfd
    BY <1>3, <2>1
  <2> QED BY <1>2, <2>1, <2>2
<1>7. \A f \in DOMAIN k2 : k2[f].of = p => f \in Hold(r2)
  BY <1>1, <1>2 DEF Mine, Hold
<1>8. r2.state # "open" => Client(r2) = None
  BY <1>1 DEF Mine
<1> QED BY <1>1, <1>4, <1>5, <1>6, <1>7, <1>8 DEF Mine

LEMMA CallingClosed ==
    ASSUME NEW k, Calling(k), NEW F PROVE Calling(Closed(k, F))
BY DEF Calling, Closed

\* The end of a session of port p, whose client is closed already in record r
\* and table k.
LEMMA FinishLink ==
    ASSUME Inv, Link, NEW p \in Names, p \in DOMAIN port,
           NEW STATE r, r \in PortRecords, NEW STATE k, FdTable(k), Calling(k),
           ButFor(fds, k, p), Mine(r, k, p), r.tcpfd = None,
           finish_shutdown_port(r, k, p), InStep'
    PROVE  Link'
<1> DEFINE r2 == [r EXCEPT !.devfd = None]
           k2 == Closed(k, {r.devfd})
<1>1. ButFor(k, k2, p) /\ Mine(r2, k2, p)
  BY DeviceClosed
<1>2. /\ r2.acceptfd = r.acceptfd /\ r2.devfd = None
      /\ Client(r2) = None /\ Client(r) = None
  BY DEF PortRecords, Client
<1>3. ButFor(fds, k2, p) /\ FdTable(k2) /\ Calling(k2)
  BY <1>1, ButForTwice, ClosedType, CallingClosed
<1>4. CASE r.config_num = "delete"
  <2> DEFINE F == {r.devfd} \cup ClosesWith(r)
             k3 == Closed(k, F)
  <2>1. DOMAIN port' = DOMAIN port \ {p} /\ fds' = Freed(k3, {p})
        /\ \A q \in DOMAIN port \ {p} : port'[q] = port[q]
    BY <1>4 DEF finish_shutdown_port
  <2>2. \A f \in DOMAIN k : k[f].of = p => f \in F
    <3> SUFFICES ASSUME NEW f \in DOMAIN k, k[f].of = p PROVE f \in F
      OBVIOUS
    <3>1. f # None /\ f \in {r.acceptfd, r.devfd}
      BY <1>2, NoneClosed DEF Mine, Hold
    <3>2. f = r.acceptfd => r.enabled # "off"
      BY <3>1 DEF Mine, OutOfStep
    <3> QED BY <3>1, <3>2 DEF ClosesWith
  <2>3. \A f \in F \cap DOMAIN k : k[f].of = p
    <3>1. r.devfd \in DOMAIN k => k[r.devfd].of = p
      BY NoneClosed DEF Mine
    <3>2. r.acceptfd \in DOMAIN k => k[r.acceptfd].of = p
      BY NoneClosed DEF Mine, OutOfStep
    <3> QED BY <3>1, <3>2 DEF ClosesWith
  <2> HIDE DEF F
  <2>4. ButFor(k, k3, p) /\ Calling(k3)
    BY <2>3, ButForClosed, CallingClosed
  <2>5. ButFor(fds, k3, p)
    BY <2>4, ButForTwice
  <2>6. ButFor(fds, fds', p)
    BY <2>1, <2>4, <2>5, FreedButFor, ButForTwice
  <2>7. \A f \in DOMAIN k3 : k3[f].of # p
    BY <2>2 DEF Closed
  <2>8. \A f \in DOMAIN fds' : fds'[f].of # p
    <3>1. DOMAIN fds' = DOMAIN k3
      BY <2>1 DEF Freed
    <3>2. ASSUME NEW f \in DOMAIN fds' PROVE f \in Others(fds', p)
      BY <2>4, <2>7, <3>1, <3>2, FreedButFor, <2>1 DEF ButFor, Others
    <3> QED BY <3>2 DEF Others
  <2> QED BY <2>1, <2>6, <2>8, LinkStep
<1>5. CASE r.config_num # "delete"
  <2>1. /\ port' = [port EXCEPT ![p] = Finished(r, k, p).port]
        /\ fds' = Finished(r, k, p).fds
    BY <1>5 DEF finish_shutdown_port
  <2>2. /\ Finished(r, k, p).fds = k2
        /\ Finished(r, k, p).port.acceptfd = r.acceptfd
        /\ Client(Finished(r, k, p).port) = None
        /\ Finished(r, k, p).port.devfd = None
    <3>1. CASE r.new_config # {}
      <4>1. Accepts(Freed(k2, {p}), r2.acceptfd, p) = k2
        BY <1>1, <1>3, TakenOver
      <4> HIDE DEF k2, r2
      <4> QED BY <1>2, <3>1, <4>1 DEF Finished, NewPort, Client, k2
    <3>2. CASE r.new_config = {}
      BY <3>2 DEF Finished, PortRecords, Client
    <3> QED BY <3>1, <3>2
  <2>3. /\ DOMAIN port' = DOMAIN port
        /\ port'[p] = Finished(r, k, p).port
        /\ \A q \in DOMAIN port \ {p} : port'[q] = port[q]
    BY <2>1 DEF Inv, TypeOK
  <2> HIDE DEF r2, k2
  <2>4. Mine(port'[p], fds', p)
    BY <1>1, <1>2, <2>1, <2>2, <2>3, SameMine DEF InStep
  <2> QED BY <1>3, <2>1, <2>2, <2>3, <2>4, LinkStep
<1> QED BY <1>4, <1>5

LEMMA ShutdownPortLink ==
    ASSUME Inv, Link, NEW p \in Names, shutdown_port(p), InStep' PROVE Link'
<1> DEFINE r == [port[p] EXCEPT !.tcpfd = None]
           k == Closed(fds, {port[p].tcpfd})
<1>1. p \in DOMAIN port /\ port[p] \in PortRecords /\ FdTable(fds)
      /\ Mine(port[p], fds, p) /\ Calling(fds)
  BY LinkCalling DEF shutdown_port, Link, Inv, TypeOK
<1>2. ButFor(fds, k, p) /\ Mine(r, k, p)
  <2>1. port[p].state = "open"
    BY DEF shutdown_port
  <2> QED BY <1>1, <2>1, ClientClosed
<1>3. FdTable(k) /\ Calling(k)
  BY <1>1, ClosedType, CallingClosed
<1>4. r.tcpfd = None /\ r \in PortRecords
  BY <1>1 DEF PortRecords, None
<1>5. CASE Lingers(r)
  <2>1. port' = [port EXCEPT ![p] = [r EXCEPT !.state = "closing"]]
        /\ fds' = k
    BY <1>5 DEF shutdown_port
  <2>2. /\ DOMAIN port' = DOMAIN port
        /\ port'[p].acceptfd = r.acceptfd
        /\ Client(port'[p]) = None /\ Client(r) = None
        /\ port'[p].devfd = r.devfd
        /\ \A q \in DOMAIN port \ {p} : port'[q] = port[q]
    BY <1>1, <1>4, <2>1 DEF Inv, TypeOK, PortRecords, Client
  <2> HIDE DEF r, k
  <2>3. Mine(port'[p], fds', p)
    BY <1>1, <1>2, <1>4, <2>1, <2>2, SameMine DEF InStep
  <2> QED BY <1>1, <1>2, <2>1, <2>2, <2>3, LinkStep
<1>6. CASE ~Lingers(r)
  <2>1. finish_shutdown_port(r, k, p)
    BY <1>6 DEF shutdown_port
  <2> HIDE DEF r, k
  <2> QED BY <1>1, <1>2, <1>3, <1>4, <2>1, FinishLink
<1> QED BY <1>5, <1>6

LEMMA CloseWriteLink ==
    ASSUME Inv, Link, NEW p \in Names, handle_dev_fd_close_write(p), InStep'
    PROVE  Link'
<1>1. /\ p \in DOMAIN port /\ port[p].state = "closing"
      /\ finish_shutdown_port(port[p], fds, p)
  BY DEF handle_dev_fd_close_write
<1>2. /\ port[p] \in PortRecords /\ FdTable(fds) /\ Calling(fds)
      /\ Mine(port[p], fds, p) /\ ButFor(fds, fds, p)
  BY <1>1, LinkCalling DEF Link, Inv, TypeOK, ButFor
<1>3. port[p].tcpfd = None
  BY <1>1, <1>2 DEF Mine, Client
<1> QED BY <1>1, <1>2, <1>3, FinishLink

\* A line of a port without a session hands its accept socket to the record
\* that replaces it; that of a port with one touches no descriptor.
LEMMA PortConfigLink ==
    ASSUME Inv, Link, NEW l \in Lines, portconfig(l), InStep' PROVE Link'
<1> DEFINE n == l.name
<1>0. n \in Names /\ l.enabled \in States /\ FdTable(fds)
  BY LinesAssumption DEF Inv, TypeOK
<1>1. CASE n \notin DOMAIN port
  <2>0. \A f \in DOMAIN fds : fds[f].of # n
    BY <1>1 DEF Link
  <2>1. AddPort(l)
    BY <1>1 DEF portconfig
  <2>2. CASE l.enabled = "off"
    <3>1. /\ DOMAIN port' = DOMAIN port \cup {n} /\ fds' = fds
          /\ port'[n] = NewPort(l, "off", None, "current")
          /\ \A q \in DOMAIN port : port'[q] = port[q]
      BY <1>1, <2>1, <2>2 DEF AddPort
    <3>2. Mine(port'[n], fds', n)
      BY <2>0, <3>1 DEF Mine, OutOfStep, NewPort, Client
    <3>3. ButFor(fds, fds', n)
      BY <3>1 DEF ButFor
    <3> QED BY <1>1, <3>1, <3>2, <3>3, LinkStep
  <2>3. CASE l.enabled # "off"
    <3>1. PICK s \in startup_port(fds, n) :
            /\ Started(s, fds)
            /\ port' = [p \in DOMAIN port \cup {n} |->
                            IF p = n
                            THEN NewPort(l, l.enabled, s.acceptfd, "current")
                            ELSE port[p]]
            /\ fds' = s.fds
      BY <2>1, <2>3 DEF AddPort
    <3>2. /\ Free(fds) # {} /\ s.acceptfd = NewFd(fds)
          /\ s.fds = Opened(fds, NewFd(fds), "listen", n, n)
      BY <3>1 DEF Started, startup_port
    <3>3. NewFd(fds) \in Fds \ DOMAIN fds /\ NewFd(fds) # None
      BY <3>2, NewFdType, FdsAssumption DEF None
    <3>4. ButFor(fds, fds', n)
      BY <3>1, <3>2, <3>3, ButForOpened
    <3>5. /\ DOMAIN port' = DOMAIN port \cup {n}
          /\ port'[n].acceptfd = NewFd(fds) /\ Client(port'[n]) = None
          /\ port'[n].devfd = None /\ n \in DOMAIN port'
          /\ \A q \in DOMAIN port : port'[q] = port[q]
      BY <1>1, <3>1, <3>2 DEF NewPort, Client
    <3>6. \A f \in DOMAIN fds' : fds'[f].of = n => f = NewFd(fds)
      BY <2>0, <3>1, <3>2 DEF Opened
    <3>7. Mine(port'[n], fds', n)
      BY <3>3, <3>5, <3>6 DEF Mine, InStep, Hold
    <3> QED BY <1>1, <3>4, <3>5, <3>7, LinkStep
  <2> QED BY <2>2, <2>3
<1>2. CASE n \in DOMAIN port /\ ~Connected(n)
  <2> DEFINE old == port[n]
             new == NewPort(l, old.enabled, old.acceptfd, "current")
  <2>1. /\ Mine(old, fds, n) /\ Calling(fds)
        /\ old.devfd = None /\ Client(old) = None
        /\ old.enabled \in States /\ old.acceptfd \in Fds \cup {-1}
    <3>1. Mine(old, fds, n) /\ old \in PortRecords /\ old.state # "open"
      BY <1>2 DEF Link, Inv, TypeOK, Connected
    <3>2. old.devfd = None /\ Client(old) = None
      BY <1>2 DEF Client, Connected, Inv, SessionFds
    <3> QED BY <3>1, <3>2, LinkCalling DEF PortRecords
  <2>2. Accepts(Freed(fds, {n}), old.acceptfd, n) = fds
    BY <1>0, <2>1, TakenOver
  <2>3. PICK c \in change_port_state(new, l.enabled, fds, n) :
            port' = [port EXCEPT ![n] = c.port] /\ fds' = c.fds
    BY <1>2, <2>2 DEF portconfig, ReplacePort
  <2>4. new \in PortRecords
    BY <2>1, NewPortType DEF ConfigNums
  <2>5. Mine(new, fds, n)
    <3>1. /\ new.enabled = old.enabled /\ new.acceptfd = old.acceptfd
          /\ Client(new) = None /\ new.devfd = None
      BY DEF NewPort, Client
    <3>2. ~OutOfStep(new, fds, n)
      BY <2>1, <3>1 DEF OutOfStep, Mine
    <3> HIDE DEF new, old
    <3> QED BY <2>1, <3>1, <3>2, SameMine
  <2>6. /\ DOMAIN port' = DOMAIN port /\ port'[n] = c.port
        /\ \A q \in DOMAIN port \ {n} : port'[q] = port[q]
    BY <1>2, <2>3 DEF Inv, TypeOK
  <2>7. ~OutOfStep(c.port, c.fds, n)
    BY <1>2, <2>3, <2>6 DEF InStep
  <2> HIDE DEF new
  <2>8. ButFor(fds, c.fds, n) /\ Mine(c.port, c.fds, n)
    BY <1>0, <2>3, <2>4, <2>5, <2>7, ChangeMine
  <2> QED BY <1>2, <2>3, <2>6, <2>8, LinkStep
<1>3. CASE n \in DOMAIN port /\ Connected(n)
  <2>1. SetAside(l)
    BY <1>3 DEF portconfig
  <2>2. /\ DOMAIN port' = DOMAIN port /\ fds' = fds
        /\ port'[n].acceptfd = port[n].acceptfd
        /\ Client(port'[n]) = Client(port[n])
        /\ port'[n].devfd = port[n].devfd /\ port'[n].state = port[n].state
        /\ \A q \in DOMAIN port \ {n} : port'[q] = port[q]
    <3> DEFINE r == [port[n] EXCEPT
                        !.enabled = IF port[n].new_config # {} THEN "off" ELSE @,
                        !.config_num = "current", !.new_config = {l}]
    <3>1. port' = [port EXCEPT ![n] = r] /\ fds' = fds
      BY <1>3, <2>1 DEF SetAside
    <3>2. /\ r.acceptfd = port[n].acceptfd /\ Client(r) = Client(port[n])
          /\ r.devfd = port[n].devfd /\ r.state = port[n].state
      BY <1>3 DEF Inv, TypeOK, PortRecords, Client
    <3> HIDE DEF r
    <3> QED BY <1>3, <3>1, <3>2
  <2>3. Mine(port'[n], fds', n)
    BY <1>3, <2>2, SameMine DEF Link, InStep
  <2> QED BY <1>3, <2>2, <2>3, LinkStep DEF ButFor
<1> QED BY <1>1, <1>2, <1>3

\* A step that closes descriptors F, among them all of the ports P that go, and
\* otherwise only clients its records forget.
LEMMA LinkMany ==
    ASSUME Inv, Link, InStep', NEW P, NEW F,
           DOMAIN port' = DOMAIN port \ P,
           fds' = Freed(Closed(fds, F), P),
           \A f \in F \cap DOMAIN fds :
                \/ fds[f].of \in P
                \/ fds[f].what = "conn" /\ Client(port'[fds[f].of]) = None,
           \A f \in DOMAIN fds \ F :
                fds[f].of \notin P /\ f \in Hold(port'[fds[f].of]),
           \A p \in DOMAIN port' :
                /\ port'[p].acceptfd = port[p].acceptfd
                /\ port'[p].devfd = port[p].devfd
                /\ \/ Client(port'[p]) = None
                   \/ /\ Client(port'[p]) = Client(port[p])
                      /\ port'[p].state = port[p].state,
           P \subseteq Names
    PROVE  Link'
<1>0. Calling(fds)
  BY LinkCalling
<1>1. DOMAIN fds' = DOMAIN fds \ F /\ \A f \in DOMAIN fds' : fds'[f] = fds[f]
  <2>1. DOMAIN fds' = DOMAIN fds \ F
    BY DEF Freed, Closed
  <2> QED BY <1>0, <2>1 DEF Freed, Closed, Calling
<1>2. \A f \in DOMAIN fds' : fds'[f].of \in DOMAIN port'
  BY <1>1 DEF Link
<1>3. ASSUME NEW p \in DOMAIN port' PROVE Mine(port'[p], fds', p)
  <2>0. p \in DOMAIN port \ P /\ Mine(port[p], fds, p)
    BY DEF Link
  <2>1. port'[p].devfd # None =>
            /\ port'[p].devfd \in DOMAIN fds'
            /\ fds'[port'[p].devfd] =
                    [what |-> "device", of |-> p, calls |-> "data"]
    <3> SUFFICES ASSUME port[p].devfd # None
                 PROVE  /\ port[p].devfd \in DOMAIN fds'
                        /\ fds'[port[p].devfd] =
                                [what |-> "device", of |-> p, calls |-> "data"]
      OBVIOUS
    <3>1. /\ port[p].devfd \in DOMAIN fds
          /\ fds[port[p].devfd] =
                    [what |-> "device", of |-> p, calls |-> "data"]
      BY <2>0 DEF Mine
    <3>2. port[p].devfd \notin F
      BY <2>0, <3>1
    <3> QED BY <1>1, <3>1, <3>2
  <2>2. Client(port'[p]) # None =>
            /\ Client(port'[p]) \in DOMAIN fds'
            /\ fds'[Client(port'[p])] =
                    [what |-> "conn", of |-> p, calls |-> "data"]
    <3> SUFFICES ASSUME Client(port'[p]) # None, Client(port'[p]) = Client(port[p])
                 PROVE  /\ Client(port[p]) \in DOMAIN fds'
                        /\ fds'[Client(port[p])] =
                                [what |-> "conn", of |-> p, calls |-> "data"]
      OBVIOUS
    <3>1. /\ Client(port[p]) \in DOMAIN fds
          /\ fds[Client(port[p])] =
                    [what |-> "conn", of |-> p, calls |-> "data"]
      BY <2>0 DEF Mine
    <3>2. Client(port[p]) \notin F
      BY <2>0, <3>1
    <3> QED BY <1>1, <3>1, <3>2
  <2>3. port'[p].state # "open" => Client(port'[p]) = None
    BY <2>0 DEF Mine
  <2>4. \A f \in DOMAIN fds' : fds'[f].of = p => f \in Hold(port'[p])
    BY <1>1
  <2> QED BY <2>1, <2>2, <2>3, <2>4 DEF Mine, InStep
<1> QED BY <1>2, <1>3 DEF Link

LEMMA ClearOldLink ==
    ASSUME Inv, Link, clear_old_port_config, InStep' PROVE Link'
<1> DEFINE Unnamed == {p \in DOMAIN port : port[p].config_num # "current"}
           Gone    == Leaving(Unnamed)
           F       == UNION {ClosesWith(port[p]) : p \in Gone}
<1>1. /\ DOMAIN port' = DOMAIN port \ Gone
      /\ fds' = Freed(Closed(fds, F), Gone)
  BY DEF clear_old_port_config
<1>2. Gone \subseteq DOMAIN port /\ Gone \subseteq Names
      /\ \A p \in Gone : ~Connected(p)
  BY DEF Leaving, Inv, TypeOK
<1>3. \A p \in DOMAIN port' :
            /\ port'[p].acceptfd = port[p].acceptfd
            /\ port'[p].devfd = port[p].devfd
            /\ Client(port'[p]) = Client(port[p]) /\ port'[p].state = port[p].state
  BY DEF clear_old_port_config, Inv, TypeOK, PortRecords, Client
<1> HIDE DEF Gone
<1>4. ASSUME NEW p \in Gone, NEW f \in DOMAIN fds, fds[f].of = p
      PROVE  f \in F
  <2>1. port[p].devfd = None /\ Client(port[p]) = None /\ Mine(port[p], fds, p)
    BY <1>2 DEF Link, Inv, SessionFds, Client, Connected
  <2>2. f = port[p].acceptfd /\ port[p].enabled # "off"
    BY <1>4, <2>1, EntryOf, NoneClosed DEF Inv, TypeOK
  <2> QED BY <2>2 DEF ClosesWith
<1>5. ASSUME NEW f \in F \cap DOMAIN fds PROVE fds[f].of \in Gone
  <2>1. PICK p \in Gone : f = port[p].acceptfd
    BY DEF ClosesWith
  <2>2. Mine(port[p], fds, p) /\ f # None
    BY <1>2, NoneClosed DEF Link, Inv, TypeOK
  <2> QED BY <2>1, <2>2 DEF Mine, OutOfStep
<1> HIDE DEF F
<1>6. ASSUME NEW f \in DOMAIN fds \ F
      PROVE  fds[f].of \notin Gone /\ f \in Hold(port'[fds[f].of])
  <2>1. fds[f].of \in DOMAIN port \ Gone
    BY <1>4 DEF Link
  <2> QED BY <1>1, <1>3, <2>1 DEF Link, Mine, Hold
<1> QED BY <1>1, <1>2, <1>3, <1>5, <1>6, LinkMany

\* The end of the program closes what the ports that go hold, and every client.
LEMMA ShutdownPortsLink ==
    ASSUME Inv, Link, shutdown_ports, ~crashed', ~StaleSocket, InStep'
    PROVE  Link'
<1> DEFINE F == {port[p].tcpfd : p \in DOMAIN port}
                \cup {port[p].devfd : p \in Ending}
                \cup UNION {ClosesWith(port[p]) : p \in Ending}
<1>1. /\ port' = [p \in DOMAIN port \ Ending |->
                        [port[p] EXCEPT !.config_num = "delete",
                                        !.state = "closing", !.tcpfd = None]]
      /\ fds' = Freed(Closed(fds, F), Ending)
  BY DEF shutdown_ports
<1>2. Ending \subseteq DOMAIN port /\ Ending \subseteq Names
  BY DEF Ending, Inv, TypeOK
<1>3. DOMAIN port' = DOMAIN port \ Ending
      /\ \A p \in DOMAIN port' :
            /\ port'[p].acceptfd = port[p].acceptfd
            /\ port'[p].devfd = port[p].devfd /\ Client(port'[p]) = None
  BY <1>1 DEF Inv, TypeOK, PortRecords, Client
<1>4. ASSUME NEW p \in Ending, NEW f \in DOMAIN fds, fds[f].of = p
      PROVE  f \in F
  <2>0. Client(port[p]) \in {port[p].tcpfd, None}
    BY DEF Client
  <2>1. p \in DOMAIN port /\ Mine(port[p], fds, p) /\ f # None
    BY <1>2, NoneClosed DEF Link, Inv, TypeOK
  <2> QED BY <1>4, <2>0, <2>1, EntryOf DEF ClosesWith
<1>5. ASSUME NEW f \in F \cap DOMAIN fds
      PROVE  \/ fds[f].of \in Ending
             \/ fds[f].what = "conn" /\ Client(port'[fds[f].of]) = None
  <2>0. f # None
    BY NoneClosed DEF Inv, TypeOK
  <2>1. ASSUME NEW p \in DOMAIN port, f = port[p].tcpfd
        PROVE  fds[f].of = p /\ fds[f].what = "conn"
    <3>1. Mine(port[p], fds, p)
      BY DEF Link
    <3>2. Client(port[p]) = f
      BY <2>0, <2>1 DEF StaleSocket, Connected, Client
    <3> QED BY <2>0, <3>1, <3>2 DEF Mine
  <2>2. ASSUME NEW p \in Ending, f = port[p].devfd PROVE fds[f].of \in Ending
    <3>1. Mine(port[p], fds, p)
      BY <1>2 DEF Link
    <3> QED BY <2>0, <2>2, <3>1 DEF Mine
  <2>3. ASSUME NEW p \in Ending, f \in ClosesWith(port[p])
        PROVE  fds[f].of \in Ending
    <3>1. f = port[p].acceptfd /\ Mine(port[p], fds, p)
      BY <1>2, <2>3 DEF ClosesWith, Link
    <3> QED BY <2>0, <3>1 DEF Mine, OutOfStep
  <2> QED BY <1>3, <2>1, <2>2, <2>3
<1>6. ASSUME NEW f \in DOMAIN fds \ F
      PROVE  fds[f].of \notin Ending /\ f \in Hold(port'[fds[f].of])
  <2>1. fds[f].of \in DOMAIN port \ Ending
    BY <1>4 DEF Link
  <2>2. f \in Hold(port[fds[f].of]) /\ f # Client(port[fds[f].of])
    <3>1. Mine(port[fds[f].of], fds, fds[f].of)
      BY <2>1 DEF Link
    <3>2. f # None /\ Client(port[fds[f].of]) \in {None, port[fds[f].of].tcpfd}
      BY NoneClosed DEF Client, Inv, TypeOK
    <3>3. f # port[fds[f].of].tcpfd
      BY <2>1
    <3> QED BY <3>1, <3>2, <3>3 DEF Mine
  <2> QED BY <1>3, <2>1, <2>2 DEF Hold
<1> HIDE DEF F
<1> QED BY <1>1, <1>2, <1>3, <1>5, <1>6, LinkMany

\* The strengthened OneHolder is inductive, given the invariant.
LEMMA LinkedStep == Inv /\ Linked /\ [Next]_vars => Linked'
<1> SUFFICES ASSUME Inv, Linked, [Next]_vars, strays' = 0, ~crashed'
             PROVE  Link'
  BY DEF Linked
<1>1. CASE UNCHANGED vars
  BY <1>1 DEF vars, Linked, Link, Mine, OutOfStep, Client
<1>2. CASE AcceptFreed
  BY <1>2 DEF AcceptFreed
<1>3. ASSUME NEW p \in Names, AcceptFails(p) PROVE Link'
  <2>1. UNCHANGED <<crashed, strays>>
    BY <1>3, AcceptFailsPort
  <2> QED BY <1>3, <2>1, AcceptFailsLink DEF Linked
<1>4. CASE shutdown_ports
  <2>0. /\ ~crashed
        /\ StaleSocket => strays' = strays + 1
        /\ strays \in Nat
    BY <1>4 DEF shutdown_ports, Inv, TypeOK
  <2>1. ~StaleSocket /\ ~crashed
    BY <2>0
  <2>2. strays = 0 /\ InStep'
    BY <1>4, <2>1, NotStrayed DEF shutdown_ports
  <2> QED BY <1>4, <2>1, <2>2, ShutdownPortsLink DEF Linked
<1>5. CASE ReadConfig
  <2>1. strays = 0 /\ InStep' /\ ~crashed
    BY <1>5, NotStrayed DEF ReadConfig
  <2> QED BY <1>5, <2>1, ReadConfigLink DEF Linked
<1>6. CASE clear_old_port_config
  <2>1. strays = 0 /\ InStep' /\ ~crashed
    BY <1>6, NotStrayed DEF clear_old_port_config
  <2> QED BY <1>6, <2>1, ClearOldLink DEF Linked
<1>7. ASSUME NEW l \in Lines, portconfig(l) PROVE Link'
  <2>1. strays = 0 /\ InStep' /\ ~crashed
    BY <1>7, NotStrayed DEF portconfig
  <2> QED BY <1>7, <2>1, PortConfigLink DEF Linked
<1>8. ASSUME NEW p \in Names, NEW state \in States, setportenable(p, state) PROVE Link'
  <2>1. strays = 0 /\ InStep' /\ ~crashed
    BY <1>8, NotStrayed DEF setportenable
  <2> QED BY <1>8, <2>1, SetPortEnableLink DEF Linked
<1>9. ASSUME NEW p \in Names, handle_accept_port_read(p) PROVE Link'
  <2>1. strays = 0 /\ InStep' /\ ~crashed
    BY <1>9, NotStrayed DEF handle_accept_port_read
  <2> QED BY <1>9, <2>1, AcceptLink DEF Linked
<1>10. ASSUME NEW p \in Names, shutdown_port(p) PROVE Link'
  <2>1. strays = 0 /\ InStep' /\ ~crashed
    BY <1>10, NotStrayed DEF shutdown_port
  <2> QED BY <1>10, <2>1, ShutdownPortLink DEF Linked
<1>11. ASSUME NEW p \in Names, handle_dev_fd_close_write(p) PROVE Link'
  <2>1. strays = 0 /\ InStep' /\ ~crashed
    BY <1>11, NotStrayed DEF handle_dev_fd_close_write
  <2> QED BY <1>11, <2>1, CloseWriteLink DEF Linked
<1>12. ASSUME NEW p \in Names, HandlerUsesFreed(p) PROVE Link'
  BY <1>12 DEF HandlerUsesFreed
<1> QED BY <1>1, <1>2, <1>3, <1>4, <1>5, <1>6, <1>7, <1>8, <1>9, <1>10,
           <1>11, <1>12 DEF Next

-----------------------------------------------------------------------------
(* The theorems.                                                           *)

\* The inductive invariant holds of every reachable state of the port table.
THEOREM Invariance == Spec => []Inv
<1>1. Inv /\ [Next]_vars => Inv'
  <2> SUFFICES ASSUME Inv, [Next]_vars PROVE Inv'
    OBVIOUS
  <2>1. CASE UNCHANGED vars
    BY <2>1 DEF vars, Inv, TypeOK, SessionFds, DeviceExclusive, Waiting,
        Settled, StatOn, StatOff, Connected
  <2>2. CASE Next
    BY <2>2, ReadConfigInv, ClearOldInv, AcceptFreedInv, ShutdownPortsInv,
       PortConfigInv, SetPortEnableInv, AcceptInv, AcceptFailsInv,
       ShutdownPortInv, CloseWriteInv, HandlerUsesFreedInv DEF Next
  <2> QED BY <2>1, <2>2
<1> QED BY InitInv, <1>1, PTL DEF Spec

\* Every variable of the port table has its type in every behaviour.
THEOREM TypeCorrect == Spec => []TypeOK
BY Invariance, PTL DEF Inv

\* No serial device ever serves two clients, whatever the configuration files
\* say and whenever they are read, and whatever the operator switches.
THEOREM DeviceExclusiveThm == Spec => []DeviceExclusive
BY Invariance, PTL DEF Inv

\* The descriptors of a session are those its state needs.
THEOREM SessionFdsThm == Spec => []SessionFds
BY Invariance, PTL DEF Inv

\* Between readings of the configuration, a port it no longer names is there
\* only to finish its session, and so is a configuration set aside.
THEOREM GoneUnlessBusyThm == Spec => []GoneUnlessBusy
<1>1. Inv => GoneUnlessBusy
  BY DEF Inv, Waiting, Settled, GoneUnlessBusy
<1> QED BY Invariance, <1>1, PTL

\* The status broadcast never shows a port as connected when none of its slot
\* is, and always shows the only port of a slot.
THEOREM StatFollowsThm == Spec => []StatFollows
<1>1. Inv => StatFollows
  <2> SUFFICES ASSUME Inv, NEW s \in Slots
               PROVE  LET Of == {p \in DOMAIN port : Slot[p] = s} IN
                      /\ stat[s] => \E p \in Of : Connected(p)
                      /\ (\A p, q \in Names : Slot[p] = s /\ Slot[q] = s => p = q)
                            => \A p \in Of : Connected(p) => stat[s]
    BY DEF StatFollows
  <2> QED BY DEF Inv, TypeOK, StatOn, StatOff, Sole
<1> QED BY Invariance, <1>1, PTL

\* While the process lives and no accept socket is out of step with its record,
\* every open descriptor is held by exactly the port and field it was opened
\* for, and nothing a port holds has been closed: whichever accepts fail, at
\* whichever of their calls, and however the sessions, the readings and the
\* operator's switches interleave, until the program's end closes a number that
\* a failed SO_KEEPALIVE has left behind.
THEOREM OneHolderThm == Spec => []OneHolder
<1>1. Init => Linked
  BY DEF Init, Linked, Link
<1>2. Inv /\ Linked => OneHolder
  <2> SUFFICES ASSUME Inv, Link
               PROVE  /\ DOMAIN fds = UNION {Holds(p) : p \in DOMAIN port}
                      /\ \A p \in DOMAIN port : \A f \in Holds(p) :
                          /\ fds[f].of = p
                          /\ fds[f].what =
                                CASE f = port[p].acceptfd     -> "listen"
                                  [] f = Client(port[p])     -> "conn"
                                  [] OTHER                   -> "device"
    BY DEF Linked, OneHolder
  <2>1. ASSUME NEW p \in DOMAIN port, NEW f \in Holds(p)
        PROVE  /\ f \in DOMAIN fds /\ fds[f].of = p
               /\ fds[f].what = CASE f = port[p].acceptfd     -> "listen"
                                  [] f = Client(port[p])     -> "conn"
                                  [] OTHER                   -> "device"
    <3>1. Mine(port[p], fds, p) /\ f # None
      BY DEF Link, Holds
    <3>2. f = port[p].acceptfd => f \in DOMAIN fds /\ fds[f].of = p
                                  /\ fds[f].what = "listen"
      BY <3>1 DEF Mine, OutOfStep
    <3>3. f = Client(port[p]) => f \in DOMAIN fds /\ fds[f].of = p
                               /\ fds[f].what = "conn"
      BY <3>1 DEF Mine
    <3>4. f = port[p].devfd => f \in DOMAIN fds /\ fds[f].of = p
                               /\ fds[f].what = "device"
      BY <3>1 DEF Mine
    <3> QED BY <3>2, <3>3, <3>4 DEF Holds
  <2>2. ASSUME NEW f \in DOMAIN fds
        PROVE  fds[f].of \in DOMAIN port /\ f \in Holds(fds[f].of)
    BY DEF Link, Mine, Hold, Holds
  <2>3. UNION {Holds(p) : p \in DOMAIN port} \subseteq DOMAIN fds
    BY <2>1
  <2>4. DOMAIN fds \subseteq UNION {Holds(p) : p \in DOMAIN port}
    BY <2>2
  <2> QED BY <2>1, <2>3, <2>4
<1> QED BY Invariance, LinkedStep, <1>1, <1>2, PTL DEF Spec

\* A session in progress keeps its device, its descriptors and its state while
\* the configuration is read again, whatever the new lines say of its port.
THEOREM SessionKeepsDeviceThm == Spec => SessionKeepsDevice
<1> DEFINE Keeps == reading =>
        \A p \in DOMAIN port :
            Connected(p) =>
                /\ p \in DOMAIN port'
                /\ port'[p].dev = port[p].dev /\ port'[p].state = port[p].state
                /\ port'[p].tcpfd = port[p].tcpfd
                /\ port'[p].devfd = port[p].devfd
<1>1. Inv /\ [Next]_vars => [Keeps]_vars
  <2> SUFFICES ASSUME Inv, Next, reading, NEW p \in DOMAIN port, Connected(p)
               PROVE  /\ p \in DOMAIN port'
                      /\ port'[p].dev = port[p].dev
                      /\ port'[p].state = port[p].state
                      /\ port'[p].tcpfd = port[p].tcpfd
                      /\ port'[p].devfd = port[p].devfd
    OBVIOUS
  <2>0. port[p] \in PortRecords
    BY DEF Inv, TypeOK
  <2>1. CASE clear_old_port_config
    BY <2>0, <2>1 DEF clear_old_port_config, Leaving, PortRecords
  <2>2. ASSUME NEW l \in Lines, portconfig(l), l.name # p
        PROVE  p \in DOMAIN port' /\ port'[p] = port[p]
    BY <2>2 DEF portconfig, AddPort, ReplacePort, SetAside, Inv, TypeOK
  <2>3. ASSUME NEW l \in Lines, portconfig(l), l.name = p
        PROVE  /\ p \in DOMAIN port'
               /\ port'[p].dev = port[p].dev /\ port'[p].state = port[p].state
               /\ port'[p].tcpfd = port[p].tcpfd
               /\ port'[p].devfd = port[p].devfd
    <3>1. SetAside(l)
      BY <2>3 DEF portconfig
    <3> QED BY <2>0, <2>3, <3>1 DEF SetAside, Inv, TypeOK, PortRecords
  <2>4. clear_old_port_config \/ \E l \in Lines : portconfig(l)
    BY DEF Next, ReadConfig, AcceptFreed, shutdown_ports, setportenable,
           handle_accept_port_read, AcceptFails, shutdown_port,
           handle_dev_fd_close_write, HandlerUsesFreed
  <2> QED BY <2>1, <2>2, <2>3, <2>4
<1> QED BY Invariance, <1>1, PTL DEF Spec, SessionKeepsDevice

=============================================================================
