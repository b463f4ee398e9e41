---------------------------- MODULE Ser2netPort ----------------------------
(***************************************************************************)
(* One port of ser2net (src/unixsocket/s2n291/dataxfer.c): a TCP client    *)
(* is accepted, the serial device is opened, and the handlers the select   *)
(* loop calls copy data between the two until the session is shut down.    *)
(* Every handler runs to completion in the one thread of the program, so   *)
(* every handler is one action; what interleaves is the order in which the *)
(* loop finds descriptors readable, writable or in error, and the timer.   *)
(*                                                                         *)
(* Data is counted, not spelled: a buffer is its cursize, a string is its  *)
(* length (0: NULL).  What the operating system answers to a read or a     *)
(* write is chosen with \E: an error, end of file, or any short count.     *)
(* Monitors, traces and the text of errors are left out.                   *)
(***************************************************************************)
EXTENDS Integers

CONSTANTS
    Configs,    \* configuration lines: [enabled, banner, openstr, closestr, remctl]
    Timeouts,   \* values of the timeout field; 0 means none
    BufSize,    \* PORT_BUFSIZE
    CmdSize,    \* commands the telnet output buffer holds
    MaxBytes    \* bound: data units a session reads in each direction

Modes == {"raw", "rawlp", "telnet"}

ASSUME ConfigsAssumption ==
    Configs \subseteq [enabled : Modes, banner : Nat, openstr : Nat,
                       closestr : Nat, remctl : BOOLEAN]
ASSUME TimeoutsAssumption == Timeouts \subseteq Nat
ASSUME SizesAssumption ==
    BufSize \in Nat \ {0} /\ CmdSize \in Nat \ {0} /\ MaxBytes \in Nat

VARIABLES
    cfg,                \* the port's configuration line
    tcpfd, devfd,       \* whether each descriptor is open (not -1)
    tcp_to_dev_state, dev_to_tcp_state,
    tcp_to_dev, dev_to_tcp,     \* cursize of the two transfer buffers
    banner, devstr,     \* what is left of the outgoing strings; 0 is NULL
    out_telnet_cmd,     \* telnet commands waiting for the TCP port
    tn_error, is_2217,
    watched,            \* what the selector waits for
    tcpHandler, devHandler,     \* write handler of each descriptor
    timer, timeout, timeout_left,
    dev_bytes_received, dev_bytes_sent, tcp_bytes_sent,
    stat,               \* gport_stat[].stat of this port
    crashed,            \* the process dereferenced a freed string
    \* History, per session: units taken from one side, given to the other.
    fromTcp, toDevice, fromDev, toTcp

dataVars  == <<tcp_to_dev, dev_to_tcp, out_telnet_cmd, tcp_bytes_sent,
               dev_bytes_sent, dev_bytes_received, stat,
               fromTcp, toDevice, fromDev, toTcp>>
stateVars == <<tcp_to_dev_state, dev_to_tcp_state>>
strVars   == <<banner, devstr>>
fdVars    == <<tcpfd, devfd>>
tnVars    == <<tn_error, is_2217>>
timerVars == <<timer, timeout, timeout_left>>
selVars   == <<watched, tcpHandler, devHandler>>
handlers  == <<tcpHandler, devHandler>>
vars == <<cfg, fdVars, stateVars, dataVars, strVars, tnVars, selVars, timerVars,
          crashed>>

States == {"unconnected", "input", "output_clear", "closing"}

NoStat   == 0       \* 0x00, not connected
ConnStat == 16      \* 0x10, connected, no data
DataStat == 17      \* 0x11, connected, data > 0

\* A session is open to its client from setup_tcp_port to shutdown_port.
Live == tcp_to_dev_state \in {"input", "output_clear"}

Interests == {"tcpRead", "tcpWrite", "devRead", "devWrite"}

Min2(a, b) == IF a <= b THEN a ELSE b

Init ==
    /\ cfg \in Configs
    /\ timeout \in Timeouts
    /\ tcpfd = FALSE /\ devfd = FALSE
    /\ tcp_to_dev_state = "unconnected" /\ dev_to_tcp_state = "unconnected"
    /\ tcp_to_dev = 0 /\ dev_to_tcp = 0 /\ out_telnet_cmd = 0
    /\ banner = 0 /\ devstr = 0
    /\ tn_error = FALSE /\ is_2217 = FALSE
    /\ watched = {} /\ tcpHandler = "none" /\ devHandler = "none"
    /\ timer = FALSE /\ timeout_left = 0
    /\ dev_bytes_received = 0 /\ dev_bytes_sent = 0 /\ tcp_bytes_sent = 0
    /\ stat = NoStat
    /\ crashed = FALSE
    /\ fromTcp = 0 /\ toDevice = 0 /\ fromDev = 0 /\ toTcp = 0

-----------------------------------------------------------------------------
(* Steps the handlers share.                                               *)

\* Names with a leading Mut are mutants: plausible bugs of the definition
\* that follows them, which some property must notice.
reset_timer == timeout_left' = timeout

MutNoStop == UNCHANGED timer
sel_stop_timer == timer' = FALSE

\* Only connections and data are reported, not the end of a session.
MutNoDisconnect(s) == stat' = IF s = NoStat THEN stat ELSE s
myChangeStat(s) == stat' = s

\* A reader is stopped when the other side cannot take what was read, and the
\* writer of that side started, until everything is written.
MutDevReaderStays(s, on) ==
    IF on THEN s \ {"tcpWrite"} ELSE s \cup {"tcpWrite"}
DevReader(s, on) ==
    IF on THEN (s \ {"tcpWrite"}) \cup {"devRead"}
          ELSE (s \ {"devRead"}) \cup {"tcpWrite"}

MutTcpReaderStays(s, on) ==
    IF on THEN s \ {"devWrite"} ELSE s \cup {"devWrite"}
MutNoDevWriter(s, on) == IF on THEN s \cup {"tcpRead"} ELSE s \ {"tcpRead"}
TcpReader(s, on) ==
    IF on THEN (s \ {"devWrite"}) \cup {"tcpRead"}
          ELSE (s \ {"tcpRead"}) \cup {"devWrite"}

\* cursize after w of n units were written.
MutRewrite(n, w) == IF w < n THEN n ELSE 0
Rest(n, w) == n - w

FinishShutdown ==
    /\ devfd' = FALSE
    /\ tcp_to_dev_state' = "unconnected" /\ dev_to_tcp_state' = "unconnected"
    /\ tcp_to_dev' = 0 /\ dev_to_tcp' = 0
    /\ banner' = 0 /\ devstr' = 0
    /\ tcp_bytes_sent' = 0 /\ dev_bytes_received' = 0 /\ dev_bytes_sent' = 0
    /\ myChangeStat(NoStat)
    /\ watched' = {} /\ tcpHandler' = "none" /\ devHandler' = "none"
    /\ fromTcp' = 0 /\ toDevice' = 0 /\ fromDev' = 0 /\ toTcp' = 0
    /\ UNCHANGED <<cfg, out_telnet_cmd, tnVars, timeout, timeout_left>>

\* What is watched while the close string is written.
MutNoCloseWriter == {}
ClosingWatch     == {"devWrite"}

\* The status the first data of a session changes to.
FirstDataStat ==
    IF dev_bytes_sent = 0 /\ dev_bytes_received = 0 THEN DataStat ELSE stat

\* shutdown_port.  Keep says what the caller had left in dataVars; it
\* matters only when a close string keeps the port for a while, and then only
\* for what is still reported, since no handler looks at the transfer buffers
\* of a closing port again.
Shutdown(Keep) ==
    /\ tcpfd' = FALSE
    /\ sel_stop_timer
    /\ IF cfg.closestr # 0 /\ devfd
       THEN /\ devstr' = cfg.closestr
            /\ tcp_to_dev_state' = "closing"
            /\ watched' = ClosingWatch
            /\ tcpHandler' = "none" /\ devHandler' = "close"
            /\ Keep
            /\ UNCHANGED <<cfg, devfd, dev_to_tcp_state, banner, tnVars,
                           timeout, timeout_left>>
       ELSE FinishShutdown

ShutdownAsIs == Shutdown(UNCHANGED dataVars) /\ UNCHANGED crashed

-----------------------------------------------------------------------------
(* A session begins.                                                       *)

\* handle_accept_port_read when accept, the socket options or the device
\* fail: nothing is left behind but the number of a closed tcpfd when it was
\* the SO_KEEPALIVE option that failed.
AcceptFails ==
    /\ tcp_to_dev_state = "unconnected"
    /\ ~crashed
    /\ tcpfd' \in BOOLEAN
    /\ UNCHANGED <<cfg, devfd, stateVars, dataVars, strVars, tnVars, selVars,
                   timerVars, crashed>>

\* handle_accept_port_read and setup_tcp_port.  A telnet port queues its
\* initial negotiation, which stops the device reader until it is written;
\* any other port starts the device reader even when there is a banner.
setup_tcp_port ==
    LET tn == cfg.enabled = "telnet" IN
    /\ tcp_to_dev_state = "unconnected"
    /\ ~crashed
    /\ tcpfd' = TRUE /\ devfd' = TRUE
    /\ banner' = cfg.banner /\ devstr' = cfg.openstr
    /\ tcp_to_dev_state' = "input" /\ dev_to_tcp_state' = "input"
    /\ watched' = {"tcpRead"}
                  \cup (IF tn THEN {} ELSE {"devRead"})
                  \cup (IF tn \/ cfg.banner # 0 THEN {"tcpWrite"} ELSE {})
                  \cup (IF cfg.openstr # 0 THEN {"devWrite"} ELSE {})
    /\ tcpHandler' = IF cfg.banner # 0 THEN "banner" ELSE "data"
    /\ devHandler' = IF cfg.openstr # 0 THEN "devstr" ELSE "data"
    /\ out_telnet_cmd' = IF tn THEN 1 ELSE 0
    /\ tn_error' = IF tn THEN FALSE ELSE tn_error
    /\ is_2217' = FALSE
    /\ timer' = TRUE /\ reset_timer
    /\ myChangeStat(ConnStat)
    /\ UNCHANGED <<cfg, timeout, tcp_to_dev, dev_to_tcp, tcp_bytes_sent,
                   dev_bytes_sent, dev_bytes_received, crashed,
                   fromTcp, toDevice, fromDev, toTcp>>

-----------------------------------------------------------------------------
(* From the TCP port to the device.                                        *)

\* process_telnet_data leaves k of c characters as data and answers r of the
\* commands among the rest.
ProcessTelnet(c, k, r) ==
    IF cfg.enabled = "telnet" THEN k + r <= c ELSE k = c /\ r = 0

\* telnet_cmd_send n times: the command buffer, the error flag and, once
\* something is queued, telnet_output_ready.
MutNoRoom(n) ==
    /\ out_telnet_cmd' = out_telnet_cmd + n
    /\ UNCHANGED tn_error
QueueCmds(n) ==
    /\ out_telnet_cmd' = Min2(out_telnet_cmd + n, CmdSize)
    /\ tn_error' = (tn_error \/ out_telnet_cmd + n > CmdSize)

\* telnet_output_ready.
AfterQueue(s, n) ==
    IF n > 0 /\ out_telnet_cmd < CmdSize THEN DevReader(s, FALSE) ELSE s

\* The data of a read reaches the device, in part or not at all (EAGAIN).
TcpDataToDevice(k, r, w) ==
    /\ QueueCmds(r)
    /\ tcp_to_dev' = Rest(k, w)
    /\ fromTcp' = fromTcp + k
    /\ toDevice' = toDevice + w
    /\ dev_bytes_sent' = dev_bytes_sent + w
    /\ myChangeStat(IF w > 0 THEN FirstDataStat ELSE stat)
    /\ IF w < k
       THEN /\ watched' = TcpReader(AfterQueue(watched, r), FALSE)
            /\ tcp_to_dev_state' = "output_clear"
       ELSE /\ watched' = AfterQueue(watched, r)
            /\ UNCHANGED tcp_to_dev_state
    /\ reset_timer
    /\ UNCHANGED <<cfg, fdVars, dev_to_tcp_state, dev_to_tcp, strVars, handlers,
                   timer, timeout, tcp_bytes_sent, dev_bytes_received, fromDev,
                   toTcp, crashed>>

\* Only commands were read: no data to write and the timer is not reset.
TcpCommandsOnly(r) ==
    /\ QueueCmds(r)
    /\ watched' = AfterQueue(watched, r)
    /\ tcp_to_dev' = 0
    /\ UNCHANGED <<cfg, fdVars, stateVars, dev_to_tcp, strVars, handlers, timerVars,
                   tcp_bytes_sent, dev_bytes_sent, dev_bytes_received, stat,
                   fromTcp, toDevice, fromDev, toTcp, crashed>>

\* A COM-PORT-OPTION command turns RFC 2217 mode on where remctl allows it.
Negotiates(c, k) ==
    is_2217' \in IF cfg.remctl /\ k < c THEN {is_2217, TRUE} ELSE {is_2217}

handle_tcp_fd_read ==
    /\ "tcpRead" \in watched
    /\ ~crashed
    /\ \/ ShutdownAsIs          \* read error, end of file or write error
       \/ \E c \in 1 .. BufSize : \E k, r \in 0 .. c :
            /\ ProcessTelnet(c, k, r)
            /\ fromTcp + k <= MaxBytes
            /\ \/ /\ tn_error \/ out_telnet_cmd + r > CmdSize
                  /\ ShutdownAsIs
               \/ /\ ~tn_error /\ out_telnet_cmd + r <= CmdSize
                  /\ Negotiates(c, k)
                  /\ IF k = 0 THEN TcpCommandsOnly(r)
                     ELSE \E w \in 0 .. k : TcpDataToDevice(k, r, w)

\* dev_fd_write on the transfer buffer.
handle_dev_fd_write ==
    /\ "devWrite" \in watched /\ devHandler = "data"
    /\ ~crashed
    /\ \/ ShutdownAsIs
       \/ \E w \in 0 .. tcp_to_dev :
            /\ tcp_to_dev' = Rest(tcp_to_dev, w)
            /\ toDevice' = toDevice + w
            /\ IF w = tcp_to_dev
               THEN watched' = TcpReader(watched, TRUE) /\ tcp_to_dev_state' = "input"
               ELSE UNCHANGED <<watched, tcp_to_dev_state>>
            /\ reset_timer
            /\ UNCHANGED <<cfg, fdVars, dev_to_tcp_state, dev_to_tcp, strVars, handlers,
                           out_telnet_cmd, tnVars, timer, timeout,
                           tcp_bytes_sent, dev_bytes_sent, dev_bytes_received,
                           stat, fromTcp, fromDev, toTcp, crashed>>

\* The handlers of the two strings look at their string again after the write,
\* when a write error has shut the port down: the string is freed then, unless
\* a close string keeps the port (and, for the device, replaces it).
MutAlwaysFreed == crashed' = TRUE
LookAgain == crashed' = (cfg.closestr = 0)

handle_dev_fd_devstr_write ==
    /\ "devWrite" \in watched /\ devHandler = "devstr"
    /\ ~crashed
    /\ \/ Shutdown(UNCHANGED dataVars) /\ LookAgain
       \/ \E w \in 0 .. devstr :
            /\ devstr' = devstr - w
            /\ IF w = devstr
               THEN /\ watched' = TcpReader(watched, TRUE)
                    /\ devHandler' = "data"
                    /\ tcp_to_dev_state' = "input"
               ELSE UNCHANGED <<watched, devHandler, tcp_to_dev_state>>
            /\ reset_timer
            /\ UNCHANGED <<cfg, fdVars, dev_to_tcp_state, dataVars, banner, tcpHandler,
                           tnVars, timer, timeout, crashed>>

handle_dev_fd_close_write ==
    /\ "devWrite" \in watched /\ devHandler = "close"
    /\ ~crashed
    /\ \/ \E w \in 0 .. devstr - 1 :
            /\ devstr' = devstr - w
            /\ UNCHANGED <<cfg, fdVars, stateVars, dataVars, banner, tnVars,
                           selVars, timerVars, crashed>>
       \/ FinishShutdown /\ UNCHANGED <<tcpfd, timer, crashed>>

-----------------------------------------------------------------------------
(* From the device to the TCP port.                                        *)

\* A telnet port reads half a buffer and doubles the IACs in it: c characters
\* read become n.
DevReads(c, n) ==
    IF cfg.enabled = "telnet" THEN c <= BufSize \div 2 /\ c <= n /\ n <= 2 * c
                              ELSE n = c

handle_dev_fd_read ==
    /\ "devRead" \in watched /\ cfg.enabled # "rawlp"
    /\ ~crashed
    /\ \/ ShutdownAsIs          \* read error or end of file
       \/ \E c \in 1 .. BufSize : \E n \in 1 .. 2 * BufSize :
            /\ DevReads(c, n)
            /\ fromDev + n <= MaxBytes
            /\ \/ /\ Shutdown(/\ dev_bytes_received' = dev_bytes_received + c
                              /\ myChangeStat(FirstDataStat)
                              /\ UNCHANGED <<tcp_to_dev, dev_to_tcp, out_telnet_cmd,
                                    tcp_bytes_sent, dev_bytes_sent, fromTcp,
                                    toDevice, fromDev, toTcp>>)
                  /\ UNCHANGED crashed
               \/ \E w \in 0 .. n :
                    /\ dev_bytes_received' = dev_bytes_received + c
                    /\ myChangeStat(FirstDataStat)
                    /\ dev_to_tcp' = Rest(n, w)
                    /\ fromDev' = fromDev + n
                    /\ toTcp' = toTcp + w
                    /\ tcp_bytes_sent' = tcp_bytes_sent + w
                    /\ IF w < n
                       THEN /\ watched' = DevReader(watched, FALSE)
                            /\ dev_to_tcp_state' = "output_clear"
                       ELSE UNCHANGED <<watched, dev_to_tcp_state>>
                    /\ reset_timer
                    /\ UNCHANGED <<cfg, fdVars, tcp_to_dev_state, tcp_to_dev,
                                   strVars, out_telnet_cmd, tnVars, handlers, timer,
                                   timeout, dev_bytes_sent, fromTcp, toDevice,
                                   crashed>>

\* tcp_fd_write, first half: telnet commands go before any data, and as long
\* as one is left nothing else happens.
TcpCommandsLeft ==
    /\ \E w \in 0 .. out_telnet_cmd - 1 : out_telnet_cmd' = out_telnet_cmd - w
    /\ UNCHANGED <<cfg, fdVars, stateVars, tcp_to_dev, dev_to_tcp, strVars,
                   tnVars, selVars, timerVars, tcp_bytes_sent, dev_bytes_sent,
                   dev_bytes_received, stat, fromTcp, toDevice, fromDev,
                   toTcp, crashed>>

\* tcp_fd_write, second half, when the buffer is empty or not.
TcpWritten(done) ==
    /\ out_telnet_cmd' = 0
    /\ IF done
       THEN watched' = DevReader(watched, TRUE) /\ dev_to_tcp_state' = "input"
       ELSE UNCHANGED <<watched, dev_to_tcp_state>>
    /\ reset_timer
    /\ UNCHANGED <<cfg, fdVars, tcp_to_dev_state, tcp_to_dev, devstr, tnVars, devHandler,
                   timer, timeout, tcp_bytes_sent, dev_bytes_sent,
                   dev_bytes_received, stat, fromTcp, toDevice, fromDev,
                   crashed>>

handle_tcp_fd_write ==
    /\ "tcpWrite" \in watched /\ tcpHandler = "data"
    /\ ~crashed
    /\ \/ ShutdownAsIs
       \/ TcpCommandsLeft
       \/ \E w \in 0 .. dev_to_tcp :
            /\ dev_to_tcp' = Rest(dev_to_tcp, w)
            /\ toTcp' = toTcp + w
            /\ TcpWritten(w = dev_to_tcp)
            /\ UNCHANGED <<banner, tcpHandler>>

handle_tcp_fd_banner_write ==
    /\ "tcpWrite" \in watched /\ tcpHandler = "banner"
    /\ ~crashed
    /\ \/ Shutdown(UNCHANGED dataVars) /\ LookAgain
       \/ TcpCommandsLeft
       \/ \E w \in 0 .. banner :
            /\ banner' = banner - w
            /\ TcpWritten(w = banner)
            /\ tcpHandler' = IF w = banner THEN "data" ELSE "banner"
            /\ UNCHANGED <<dev_to_tcp, toTcp>>

-----------------------------------------------------------------------------
(* Errors, the timer and the control port.                                 *)

\* handle_dev_fd_except and handle_tcp_fd_except: both watched while Live.
FdException == Live /\ ~crashed /\ ShutdownAsIs

\* Modem state changed in RFC 2217 mode: telnet_send_option.
NotifyModemstate ==
    /\ is_2217
    /\ QueueCmds(1)
    /\ watched' = AfterQueue(watched, 1)

MutNoTick == timeout_left
Tick == IF timeout # 0 THEN timeout_left - 1 ELSE timeout_left

got_timeout ==
    /\ timer
    /\ ~crashed
    /\ IF timeout # 0 /\ timeout_left = 0
       THEN ShutdownAsIs
       ELSE /\ timeout_left' = Tick
            /\ \/ NotifyModemstate
               \/ UNCHANGED <<out_telnet_cmd, tn_error, watched>>
            /\ UNCHANGED <<cfg, handlers, fdVars, stateVars, tcp_to_dev, dev_to_tcp,
                           strVars, is_2217, timer, timeout, tcp_bytes_sent,
                           dev_bytes_sent, dev_bytes_received, stat, fromTcp,
                           toDevice, fromDev, toTcp, crashed>>

setporttimeout ==
    /\ ~crashed
    /\ timeout' \in Timeouts
    /\ timeout_left' = IF tcpfd THEN timeout' ELSE timeout_left
    /\ UNCHANGED <<cfg, fdVars, stateVars, dataVars, strVars, tnVars, selVars,
                   timer, crashed>>

\* disconnect_port: also while the close string is being written, which then
\* starts over.
disconnect_port ==
    /\ tcp_to_dev_state # "unconnected"
    /\ ~crashed
    /\ ShutdownAsIs

Next ==
    \/ AcceptFails \/ setup_tcp_port
    \/ handle_tcp_fd_read \/ handle_dev_fd_write
    \/ handle_dev_fd_devstr_write \/ handle_dev_fd_close_write
    \/ handle_dev_fd_read \/ handle_tcp_fd_write
    \/ handle_tcp_fd_banner_write
    \/ FdException \/ got_timeout \/ setporttimeout \/ disconnect_port

Spec == Init /\ [][Next]_vars

-----------------------------------------------------------------------------
(* Properties.                                                             *)

\* Every variable has its type; the transfer buffers hold no more than their
\* size, also after a telnet port doubled the IACs it read, and the command
\* buffer no more than its own.
TypeOK ==
    /\ cfg \in Configs
    /\ tcpfd \in BOOLEAN /\ devfd \in BOOLEAN
    /\ tcp_to_dev_state \in States /\ dev_to_tcp_state \in States \ {"closing"}
    /\ tcp_to_dev \in 0 .. BufSize /\ dev_to_tcp \in 0 .. BufSize
    /\ out_telnet_cmd \in 0 .. CmdSize
    /\ banner \in Nat /\ devstr \in Nat
    /\ tn_error \in BOOLEAN /\ is_2217 \in BOOLEAN
    /\ watched \subseteq Interests
    /\ tcpHandler \in {"none", "data", "banner"}
    /\ devHandler \in {"none", "data", "devstr", "close"}
    /\ timer \in BOOLEAN /\ timeout \in Timeouts /\ timeout_left \in Nat
    /\ dev_bytes_received \in Nat /\ dev_bytes_sent \in Nat
    /\ tcp_bytes_sent \in Nat
    /\ stat \in {NoStat, ConnStat, DataStat}
    /\ crashed \in BOOLEAN
    /\ fromTcp \in Nat /\ toDevice \in Nat /\ fromDev \in Nat /\ toTcp \in Nat

\* Configurations whose strings cannot overtake data.  The handlers of the
\* open string and of the banner end by turning a reader on and the writer
\* off as if the transfer buffer were empty; nothing keeps data out of it
\* meanwhile, except that a telnet port's device reader is off until its
\* initial commands and the banner behind them are written, and that a rawlp
\* port reads no device.
UpSafe   == cfg.openstr = 0
DownSafe == cfg.banner = 0 \/ cfg.enabled # "raw"

\* While data waits for the device its reader is off, its writer is on and the
\* state says so; when none waits, reading goes on.  A violation either loses
\* the waiting data to the next read or stops the session for good: the
\* enable bits are changed by six handlers and never recomputed.
UpGated ==
    Live /\ UpSafe =>
        /\ (tcp_to_dev_state = "output_clear") <=> (tcp_to_dev > 0)
        /\ "tcpRead" \in watched <=> (tcp_to_dev = 0)
        /\ "devWrite" \in watched <=> (tcp_to_dev > 0)
        /\ devHandler = "data"

\* The same for data from the device, whose reader is also off while telnet
\* commands or the banner of a telnet port wait for the TCP port: the two
\* queues share one writer, which must not be left on or off by either.
DownGated ==
    Live /\ DownSafe =>
        /\ (dev_to_tcp_state = "output_clear") <=> (dev_to_tcp > 0)
        /\ dev_to_tcp > 0 \/ out_telnet_cmd > 0 => "tcpWrite" \in watched
        /\ "devRead" \in watched /\ cfg.enabled # "rawlp" =>
                dev_to_tcp = 0 /\ out_telnet_cmd = 0
        /\ "devRead" \in watched \/ "tcpWrite" \in watched

\* No unit is lost in a session: what was taken from one side has been given
\* to the other or still waits in the buffer.
UpLossless   == Live /\ UpSafe => fromTcp = toDevice + tcp_to_dev
DownLossless == Live /\ DownSafe => fromDev = toTcp + dev_to_tcp
Lossless     == UpLossless /\ DownLossless

\* Whatever the strings configured, no unit is delivered twice or made up:
\* a short write must leave exactly the rest in the buffer.
NeverDuplicated ==
    Live => /\ toDevice + tcp_to_dev <= fromTcp
            /\ toTcp + dev_to_tcp <= fromDev

\* The device is held exactly as long as the port counts as connected, its
\* client and its timer exactly as long as the session is live: whichever
\* handler an error surfaces in, nothing leaks and nothing is left ticking.
SessionResources ==
    /\ devfd <=> tcp_to_dev_state # "unconnected"
    /\ timer <=> Live
    /\ Live => tcpfd
    /\ tcp_to_dev_state = "closing" => ~tcpfd /\ devstr > 0
    /\ (tcp_to_dev_state = "unconnected") <=> (dev_to_tcp_state = "unconnected")

\* The broadcast status says "not connected" exactly for an unconnected port
\* (a closing one still has its last status) and "data" only in a session
\* that moved some.
StatHonest ==
    /\ (stat = NoStat) <=> (tcp_to_dev_state = "unconnected")
    /\ stat = DataStat => dev_bytes_received + dev_bytes_sent > 0

\* The process dies only on a write error in the middle of a banner or of an
\* open string, and never where a close string keeps the buffers alive.
CrashOnlyInStrings ==
    crashed => /\ cfg.closestr = 0
               /\ cfg.banner # 0 \/ cfg.openstr # 0

-----------------------------------------------------------------------------
(* Liveness.  The select loop calls the handler of a writable descriptor;  *)
(* that the client and the device take what they are sent, so that data    *)
(* waiting for them shrinks, is an assumption on them, stated apart.       *)

TimerFairness  == WF_vars(got_timeout)
TcpDrains ==
    /\ WF_vars(handle_tcp_fd_write /\ dev_to_tcp' < dev_to_tcp)
    /\ WF_vars(handle_tcp_fd_banner_write /\ banner' < banner)
DeviceDrains ==
    /\ WF_vars(handle_dev_fd_write /\ tcp_to_dev' < tcp_to_dev)
    /\ WF_vars(handle_dev_fd_devstr_write /\ devstr' < devstr)
    /\ WF_vars(handle_dev_fd_close_write /\ devstr' < devstr)

FairSpec == Spec /\ TimerFairness /\ TcpDrains /\ DeviceDrains

\* Data read from either side is written to the other, or the session ends.
Delivered ==
    /\ UpSafe /\ tcp_to_dev > 0 ~> tcp_to_dev = 0 \/ ~Live
    /\ DownSafe /\ dev_to_tcp > 0 ~> dev_to_tcp = 0 \/ ~Live

\* A session with a timeout that sees no more I/O does not stay live.
NoMoreIO == <>[](timeout > 0) /\ <>[][timeout_left' <= timeout_left]_vars
IdleSessionEnds == NoMoreIO => []<>(~Live)

\* A port that was shut down is free again for the next client, provided the
\* operator does not disconnect it again for ever: each disconnect_port starts
\* the close string over.
ShutdownCompletes ==
    <>[][tcp_to_dev_state = "closing" => devstr' <= devstr]_vars =>
        (tcp_to_dev_state = "closing" ~> tcp_to_dev_state = "unconnected")

-----------------------------------------------------------------------------
(* What comments and the configuration file say, and the code does not do. *)

\* "transfers all data as-is", whatever banner or open string is configured.
AllDataTransferred ==
    Live => fromTcp = toDevice + tcp_to_dev /\ fromDev = toTcp + dev_to_tcp

-----------------------------------------------------------------------------
(* A port implements Relay, in the directions its configuration keeps safe *)
(* (UpSafe, DownSafe): the others are mapped to a direction without data.  *)

Phase ==
    CASE tcp_to_dev_state = "unconnected" -> "idle"
      [] tcp_to_dev_state = "closing"     -> "closing"
      [] OTHER                            -> "open"

\* The counter of direction d, where the configuration promises anything of it.
Promised(d, up, down) ==
    CASE d = "up" /\ UpSafe     -> up
      [] d = "down" /\ DownSafe -> down
      [] OTHER                  -> 0

R == INSTANCE Relay WITH
        Dirs  <- {"up", "down"},
        Cap   <- BufSize,
        phase <- Phase,
        taken <- [d \in {"up", "down"} |-> Promised(d, fromTcp, fromDev)],
        given <- [d \in {"up", "down"} |-> Promised(d, toDevice, toTcp)]

\* The session is a lossless, ordered, bounded relay in every direction that is
\* safe, and takes nothing while it holds something.
ImplementsRelay == R!RelaySpec

=============================================================================
