------------------------- MODULE Ser2netPortProofs -------------------------
(***************************************************************************)
(* Proofs about one port of ser2net, for every set of configuration lines, *)
(* all sizes of the buffers and any number of bytes.                       *)
(*                                                                         *)
(* The invariants of Ser2netPort are not inductive one by one: that no     *)
(* data is lost needs to know that no handler reads while data waits       *)
(* (UpGated, DownGated), and those need to know which handlers can run in  *)
(* which state.  Inv says all of it.                                      *)
(***************************************************************************)
EXTENDS Ser2netPort, TLAPS

\* Every handler the selector can call belongs to a session; the two handlers
\* for strings only to one whose configuration has the string.
Handlers ==
    /\ watched # {} => tcp_to_dev_state # "unconnected"
    /\ tcp_to_dev_state = "closing" =>
            watched = {"devWrite"} /\ devHandler = "close"
    /\ Live => tcpHandler = "data" \/ cfg.banner # 0
    /\ Live => devHandler \in {"data", "devstr"}
    /\ Live /\ UpSafe => devHandler = "data"

\* A banner the configuration keeps safe is written before any data is read
\* from the device.
BannerFirst ==
    /\ cfg.enabled = "rawlp" => dev_to_tcp = 0 /\ fromDev = toTcp
    /\ Live /\ tcpHandler = "banner" /\ cfg.enabled = "telnet" =>
            dev_to_tcp = 0 /\ "devRead" \notin watched

\* An unconnected port starts its next session from nothing.
Blank ==
    tcp_to_dev_state = "unconnected" =>
        /\ tcp_to_dev = 0 /\ dev_to_tcp = 0
        /\ fromTcp = 0 /\ toDevice = 0 /\ fromDev = 0 /\ toTcp = 0

\* TypeOK in two parts: the second is inductive by itself.
DataTypes ==
    /\ cfg \in Configs
    /\ tcp_to_dev_state \in States /\ dev_to_tcp_state \in States \ {"closing"}
    /\ tcp_to_dev \in 0 .. BufSize /\ dev_to_tcp \in 0 .. BufSize
    /\ out_telnet_cmd \in 0 .. CmdSize
    /\ banner \in Nat /\ devstr \in Nat
    /\ watched \subseteq Interests
    /\ tcpHandler \in {"none", "data", "banner"}
    /\ devHandler \in {"none", "data", "devstr", "close"}
    /\ timeout \in Timeouts /\ timeout_left \in Nat
    /\ dev_bytes_received \in Nat /\ dev_bytes_sent \in Nat
    /\ tcp_bytes_sent \in Nat
    /\ stat \in {NoStat, ConnStat, DataStat}
    /\ fromTcp \in Nat /\ toDevice \in Nat /\ fromDev \in Nat /\ toTcp \in Nat

BoolTypes ==
    /\ tcpfd \in BOOLEAN /\ devfd \in BOOLEAN
    /\ tn_error \in BOOLEAN /\ is_2217 \in BOOLEAN
    /\ timer \in BOOLEAN /\ crashed \in BOOLEAN

Inv == /\ DataTypes /\ Handlers /\ BannerFirst /\ Blank
       /\ UpGated /\ DownGated /\ UpLossless /\ DownLossless

USE ConfigsAssumption, TimeoutsAssumption, SizesAssumption

\* TypeOK is its two parts.
LEMMA TypeParts == TypeOK <=> DataTypes /\ BoolTypes
  BY DEF TypeOK, DataTypes, BoolTypes

\* Inv holds of a port that has just been configured.
LEMMA InitInv == Init => Inv
<1> SUFFICES ASSUME Init PROVE Inv
  OBVIOUS
<1> USE DEF Init
<1>1. DataTypes
  BY DEF DataTypes, States
<1>2. ~Live /\ Handlers /\ BannerFirst /\ Blank
  BY DEF Live, Handlers, BannerFirst, Blank
<1>3. UpGated /\ DownGated /\ UpLossless /\ DownLossless
  BY <1>2 DEF UpGated, DownGated, UpLossless, DownLossless
<1> QED  BY <1>1, <1>2, <1>3 DEF Inv

\* The end of a session leaves an unconnected port with nothing in it.
LEMMA FinishInv ==
    ASSUME Inv, FinishShutdown
    PROVE  Inv'
<1> USE DEF FinishShutdown, myChangeStat
<1>1. DataTypes'
  BY DEF Inv, DataTypes, States, tnVars
<1>2. ~Live' /\ Handlers' /\ BannerFirst' /\ Blank'
  BY DEF Inv, Live, Handlers, BannerFirst, Blank
<1>3. UpGated' /\ DownGated' /\ UpLossless' /\ DownLossless'
  BY <1>2 DEF UpGated, DownGated, UpLossless, DownLossless
<1> QED  BY <1>1, <1>2, <1>3 DEF Inv

\* What every caller of shutdown_port leaves in dataVars: the transfer buffers
\* as they were, the counters and the status possibly advanced.
Kept ==
    /\ dev_bytes_received' \in Nat /\ stat' \in {NoStat, ConnStat, DataStat}
    /\ UNCHANGED <<tcp_to_dev, dev_to_tcp, out_telnet_cmd, tcp_bytes_sent,
                   dev_bytes_sent, fromTcp, toDevice, fromDev, toTcp>>

\* shutdown_port keeps Inv, whatever its caller had left in the buffers.
LEMMA ShutdownInv ==
    ASSUME Inv, tcp_to_dev_state # "unconnected", Shutdown(Kept)
    PROVE  Inv'
<1> USE DEF Shutdown, Kept, tnVars, ClosingWatch, myChangeStat
<1>1. CASE cfg.closestr # 0 /\ devfd
  <2>1. DataTypes'
    BY <1>1 DEF Inv, DataTypes, States, Interests
  <2>2. ~Live' /\ Handlers' /\ BannerFirst' /\ Blank'
    BY <1>1 DEF Inv, Live, Handlers, BannerFirst, Blank
  <2>3. UpGated' /\ DownGated' /\ UpLossless' /\ DownLossless'
    BY <2>2 DEF UpGated, DownGated, UpLossless, DownLossless
  <2> QED  BY <2>1, <2>2, <2>3 DEF Inv
<1>2. CASE ~(cfg.closestr # 0 /\ devfd)
  BY <1>2, FinishInv
<1> QED  BY <1>1, <1>2

\* The same where its caller had changed nothing.
LEMMA ShutdownAsIsInv ==
    ASSUME Inv, tcp_to_dev_state # "unconnected", Shutdown(UNCHANGED dataVars)
    PROVE  Inv'
<1>1. UNCHANGED dataVars => Kept
  BY DEF Inv, DataTypes, Kept, dataVars
<1>2. Shutdown(Kept)
  BY <1>1 DEF Shutdown
<1> QED  BY <1>2, ShutdownInv

\* A handler of the client's descriptor, or of the device's reader, runs only
\* in a live session.
LEMMA WatchedLive ==
    ASSUME Inv, {"tcpRead", "tcpWrite", "devRead"} \cap watched # {}
    PROVE  Live
  BY DEF Inv, DataTypes, Handlers, Live, States

\* A session begins with empty buffers and the right handlers enabled.
LEMMA SetupInv ==
    ASSUME Inv, setup_tcp_port
    PROVE  Inv'
<1> USE DEF setup_tcp_port, myChangeStat, reset_timer
<1>1. cfg.banner \in Nat /\ cfg.openstr \in Nat /\ timeout \in Nat
  BY DEF Inv, DataTypes
<1>2. DataTypes'
  BY <1>1 DEF Inv, DataTypes, States, Interests
<1>3. Handlers' /\ BannerFirst' /\ Blank'
  BY <1>1 DEF Inv, Blank, Handlers, BannerFirst, Live, UpSafe
<1>4. UpGated' /\ DownGated' /\ UpLossless' /\ DownLossless'
  BY <1>1 DEF Inv, Blank, UpGated, DownGated, UpLossless, DownLossless, UpSafe,
     DownSafe
<1> QED  BY <1>2, <1>3, <1>4 DEF Inv

\* Queueing commands never disturbs the data: it only stops the device reader.
LEMMA QueueInv ==
    ASSUME Inv, NEW n \in Nat, QueueCmds(n), watched' = AfterQueue(watched, n),
           UNCHANGED <<cfg, stateVars, dev_to_tcp, strVars, handlers, timeout,
                       tcp_bytes_sent, dev_bytes_sent, dev_bytes_received,
                       stat, fromTcp, toDevice, fromDev, toTcp>>,
           timeout_left' \in Nat, Live,
           tcp_to_dev' \in 0 .. BufSize, UpSafe => tcp_to_dev' = tcp_to_dev
    PROVE  Inv'
<1> USE DEF QueueCmds, AfterQueue, DevReader, Min2, stateVars, strVars, handlers
<1>1. DataTypes'
  BY DEF Inv, DataTypes, States, Interests
<1>2. Handlers' /\ BannerFirst' /\ Blank' /\ UpGated'
  BY DEF Inv, Handlers, BannerFirst, Blank, Live, UpSafe, UpGated
<1>3. DownGated'
  BY DEF Inv, DataTypes, DownGated, Live, DownSafe
<1>4. UpLossless' /\ DownLossless'
  BY DEF Inv, UpLossless, DownLossless, Live, UpSafe, DownSafe
<1> QED  BY <1>1, <1>2, <1>3, <1>4 DEF Inv

\* The client is read: commands alone, or data that is written in part.
LEMMA TcpReadInv ==
    ASSUME Inv, handle_tcp_fd_read
    PROVE  Inv'
<1>1. Live
  BY WatchedLive DEF handle_tcp_fd_read
<1>2. CASE ShutdownAsIs
  BY <1>1, <1>2, ShutdownAsIsInv DEF Live, ShutdownAsIs
<1>3. ASSUME NEW c \in 1 .. BufSize, NEW k \in 0 .. c, NEW r \in 0 .. c,
             ~tn_error, out_telnet_cmd + r <= CmdSize, k = 0, TcpCommandsOnly(r)
      PROVE  Inv'
  <2>1. UpSafe => tcp_to_dev = 0
    BY <1>1, <1>3 DEF Inv, UpGated, handle_tcp_fd_read, TcpCommandsOnly
  <2> QED
    BY <1>1, <1>3, <2>1, QueueInv
    DEF TcpCommandsOnly, stateVars, strVars, handlers, timerVars, Inv, DataTypes
<1>4. ASSUME NEW c \in 1 .. BufSize, NEW k \in 0 .. c, NEW r \in 0 .. c, k # 0,
             NEW w \in 0 .. k, out_telnet_cmd + r <= CmdSize, TcpDataToDevice(k, r, w)
      PROVE  Inv'
  <2> USE <1>1, <1>4
  <2> USE DEF TcpDataToDevice, QueueCmds, AfterQueue, DevReader, TcpReader, Min2,
              Rest, myChangeStat, FirstDataStat, reset_timer, strVars, handlers,
              fdVars
  <2>1. k \in 1 .. BufSize
    OBVIOUS
  <2>2. DataTypes'
    <3>1. k - w \in 0 .. BufSize /\ fromTcp' \in Nat /\ toDevice' \in Nat
          /\ dev_bytes_sent' \in Nat
      BY <2>1 DEF Inv, DataTypes
    <3>2. out_telnet_cmd' \in 0 .. CmdSize /\ timeout_left' \in Nat
      BY DEF Inv, DataTypes
    <3>3. watched' \subseteq Interests /\ tcp_to_dev_state' \in States
      BY DEF Inv, DataTypes, Interests, States
    <3> QED
      BY <3>1, <3>2, <3>3 DEF Inv, DataTypes
  <2>3. Live'
    BY DEF Live
  <2>4. Handlers' /\ BannerFirst' /\ Blank'
    BY <2>3 DEF Inv, Handlers, BannerFirst, Blank, Live, UpSafe
  <2>5. UpSafe => tcp_to_dev = 0 /\ "devWrite" \notin watched
    BY DEF Inv, DataTypes, UpGated, handle_tcp_fd_read
  <2>6. UpGated'
    BY <2>3, <2>5 DEF Inv, DataTypes, UpGated, UpSafe, Live, handle_tcp_fd_read
  <2>7. DownGated'
    BY <2>3 DEF Inv, DataTypes, DownGated, DownSafe
  <2>8. UpLossless' /\ DownLossless'
    BY <2>5 DEF Inv, DataTypes, UpLossless, DownLossless, UpSafe, DownSafe, Live
  <2> QED  BY <2>2, <2>4, <2>6, <2>7, <2>8 DEF Inv
<1> QED  BY <1>2, <1>3, <1>4 DEF handle_tcp_fd_read

\* The device takes a part of the data that waits for it.
LEMMA DevWriteInv ==
    ASSUME Inv, handle_dev_fd_write
    PROVE  Inv'
<1>1. Live
  BY DEF handle_dev_fd_write, Inv, DataTypes, Handlers, Live, States
<1>2. CASE ShutdownAsIs
  BY <1>1, <1>2, ShutdownAsIsInv DEF Live, ShutdownAsIs
<1>3. CASE ~ShutdownAsIs
  <2> PICK w \in 0 .. tcp_to_dev :
            /\ tcp_to_dev' = Rest(tcp_to_dev, w)
            /\ toDevice' = toDevice + w
            /\ IF w = tcp_to_dev
               THEN watched' = TcpReader(watched, TRUE) /\ tcp_to_dev_state' = "input"
               ELSE UNCHANGED <<watched, tcp_to_dev_state>>
            /\ reset_timer
            /\ UNCHANGED <<cfg, dev_to_tcp_state, dev_to_tcp, banner, devstr,
                           handlers, out_telnet_cmd, timeout, tcp_bytes_sent,
                           dev_bytes_sent, dev_bytes_received, stat, fromTcp,
                           fromDev, toTcp>>
    BY <1>3 DEF handle_dev_fd_write, strVars
  <2> USE <1>1 DEF TcpReader, Rest, reset_timer, handlers
  <2>1. DataTypes'
    <3>1. timeout_left' \in Nat /\ watched' \subseteq Interests
      BY DEF Inv, DataTypes, Interests
    <3>2. tcp_to_dev' \in 0 .. BufSize /\ toDevice' \in Nat /\ devstr' \in Nat
      BY DEF Inv, DataTypes
    <3> QED  BY <3>1, <3>2 DEF Inv, DataTypes, States
  <2>2. Live' /\ Handlers' /\ BannerFirst' /\ Blank'
    BY DEF Inv, Handlers, BannerFirst, Blank, Live, UpSafe
  <2>3. UpGated'
    BY <2>2 DEF Inv, DataTypes, UpGated, UpSafe, handle_dev_fd_write
  <2>4. DownGated'
    BY <2>2 DEF Inv, DataTypes, DownGated, DownSafe
  <2>5. UpLossless' /\ DownLossless'
    BY DEF Inv, DataTypes, UpLossless, DownLossless, UpSafe, DownSafe, Live
  <2> QED  BY <2>1, <2>2, <2>3, <2>4, <2>5 DEF Inv
<1> QED  BY <1>2, <1>3

\* The open string is written; only configurations with one have this step.
LEMMA DevstrInv ==
    ASSUME Inv, handle_dev_fd_devstr_write
    PROVE  Inv'
<1>1. Live /\ ~UpSafe
  BY DEF handle_dev_fd_devstr_write, Inv, DataTypes, Handlers, Live, States
<1>2. CASE Shutdown(UNCHANGED dataVars)
  BY <1>1, <1>2, ShutdownAsIsInv DEF Live, ShutdownAsIs
<1>3. CASE ~Shutdown(UNCHANGED dataVars)
  <2> PICK w \in 0 .. devstr :
            /\ devstr' = devstr - w
            /\ IF w = devstr
               THEN /\ watched' = TcpReader(watched, TRUE)
                    /\ devHandler' = "data"
                    /\ tcp_to_dev_state' = "input"
               ELSE UNCHANGED <<watched, devHandler, tcp_to_dev_state>>
            /\ reset_timer
            /\ UNCHANGED <<cfg, dev_to_tcp_state, tcp_to_dev, dev_to_tcp,
                           out_telnet_cmd, tcp_bytes_sent, dev_bytes_sent,
                           dev_bytes_received, stat, fromTcp, toDevice, fromDev,
                           toTcp, banner, tcpHandler, timeout>>
    BY <1>3 DEF handle_dev_fd_devstr_write, dataVars
  <2> USE <1>1 DEF TcpReader, reset_timer
  <2>1. DataTypes'
    <3>1. timeout_left' \in Nat /\ watched' \subseteq Interests
      BY DEF Inv, DataTypes, Interests
    <3>2. tcp_to_dev' \in 0 .. BufSize /\ toDevice' \in Nat /\ devstr' \in Nat
      BY DEF Inv, DataTypes
    <3> QED  BY <3>1, <3>2 DEF Inv, DataTypes, States
  <2>2. Live' /\ ~UpSafe' /\ Handlers' /\ BannerFirst' /\ Blank'
    BY DEF Inv, Handlers, BannerFirst, Blank, Live, UpSafe
  <2>3. DownGated'
    BY <2>2 DEF Inv, DataTypes, DownGated, DownSafe
  <2>4. UpGated' /\ UpLossless' /\ DownLossless'
    BY <2>2 DEF Inv, UpGated, UpLossless, DownLossless, DownSafe
  <2> QED  BY <2>1, <2>2, <2>3, <2>4 DEF Inv
<1> QED  BY <1>2, <1>3

\* The close string is written: the port closes or is unconnected.
LEMMA CloseWriteInv ==
    ASSUME Inv, handle_dev_fd_close_write
    PROVE  Inv'
<1>1. CASE FinishShutdown
  BY <1>1, FinishInv
<1>2. ASSUME NEW w \in 0 .. devstr - 1, devstr' = devstr - w,
             UNCHANGED <<cfg, stateVars, dataVars, banner, selVars, timeout,
                         timeout_left>>
      PROVE  Inv'
  <2> USE <1>2 DEF stateVars, dataVars, selVars
  <2>1. DataTypes'
    BY DEF Inv, DataTypes
  <2>2. Handlers' /\ BannerFirst' /\ Blank'
    BY DEF Inv, Handlers, BannerFirst, Blank, Live, UpSafe
  <2>3. UpGated' /\ DownGated' /\ UpLossless' /\ DownLossless'
    BY DEF Inv, UpGated, DownGated, UpLossless, DownLossless, Live, UpSafe, DownSafe
  <2> QED  BY <2>1, <2>2, <2>3 DEF Inv
<1> QED  BY <1>1, <1>2 DEF handle_dev_fd_close_write, timerVars

\* The device is read, into a buffer that DownGated shows to be empty.
LEMMA DevReadInv ==
    ASSUME Inv, handle_dev_fd_read
    PROVE  Inv'
<1>1. Live /\ "devRead" \in watched /\ cfg.enabled # "rawlp"
  BY WatchedLive DEF handle_dev_fd_read
<1>2. CASE ShutdownAsIs
  BY <1>1, <1>2, ShutdownAsIsInv DEF Live, ShutdownAsIs
<1>3. ASSUME NEW c \in 1 .. BufSize, NEW n \in 1 .. 2 * BufSize, DevReads(c, n)
      PROVE  n \in 1 .. BufSize
  BY <1>3 DEF DevReads
<1>4. ASSUME NEW c \in 1 .. BufSize,
             Shutdown(/\ dev_bytes_received' = dev_bytes_received + c
                      /\ myChangeStat(FirstDataStat)
                      /\ UNCHANGED <<tcp_to_dev, dev_to_tcp, out_telnet_cmd,
                                     tcp_bytes_sent, dev_bytes_sent, fromTcp,
                                     toDevice, fromDev, toTcp>>)
      PROVE  Inv'
  <2>1. dev_bytes_received + c \in Nat
        /\ FirstDataStat \in {NoStat, ConnStat, DataStat}
    BY <1>4 DEF Inv, DataTypes, FirstDataStat
  <2>2. Shutdown(Kept)
    BY <1>4, <2>1 DEF Shutdown, Kept, myChangeStat
  <2> QED  BY <1>1, <2>2, ShutdownInv DEF Live
<1>5. ASSUME NEW c \in 1 .. BufSize, NEW n \in 1 .. BufSize, NEW w \in 0 .. n,
             dev_bytes_received' = dev_bytes_received + c,
             myChangeStat(FirstDataStat),
             dev_to_tcp' = Rest(n, w),
             fromDev' = fromDev + n,
             toTcp' = toTcp + w,
             tcp_bytes_sent' = tcp_bytes_sent + w,
             IF w < n
             THEN /\ watched' = DevReader(watched, FALSE)
                  /\ dev_to_tcp_state' = "output_clear"
             ELSE UNCHANGED <<watched, dev_to_tcp_state>>,
             reset_timer,
             UNCHANGED <<cfg, tcp_to_dev_state, tcp_to_dev, banner, devstr,
                         out_telnet_cmd, handlers, timeout, dev_bytes_sent,
                         fromTcp, toDevice>>
      PROVE  Inv'
  <2> USE <1>1, <1>5 DEF myChangeStat, FirstDataStat, Rest, DevReader, reset_timer,
                         handlers
  <2>1. DataTypes'
    <3>1. n - w \in 0 .. BufSize /\ fromDev' \in Nat /\ toTcp' \in Nat
          /\ tcp_bytes_sent' \in Nat /\ dev_bytes_received' \in Nat
      BY DEF Inv, DataTypes
    <3>2. timeout_left' \in Nat /\ watched' \subseteq Interests
      BY DEF Inv, DataTypes, Interests
    <3> QED  BY <3>1, <3>2 DEF Inv, DataTypes, States
  <2>2. Live' /\ Handlers'
    BY DEF Inv, Handlers, Live, UpSafe
  <2>3. BannerFirst' /\ Blank'
    BY <2>2 DEF Inv, BannerFirst, Blank, Live
  <2>4. DownSafe => dev_to_tcp = 0 /\ out_telnet_cmd = 0
    BY DEF Inv, DownGated
  <2>5. UpGated' /\ UpLossless'
    BY <2>2 DEF Inv, UpGated, UpLossless, UpSafe
  <2>6. DownGated'
    BY <2>4 DEF Inv, DataTypes, DownGated, DownSafe, Live
  <2>7. DownLossless'
    BY <2>4 DEF Inv, DataTypes, DownLossless, DownSafe, Live
  <2> QED  BY <2>1, <2>2, <2>3, <2>5, <2>6, <2>7 DEF Inv
<1> QED  BY <1>2, <1>3, <1>4, <1>5 DEF handle_dev_fd_read, fdVars, strVars

\* Commands are written and some are left: nothing else changes.
LEMMA CommandsLeftInv ==
    ASSUME Inv, Live, "tcpWrite" \in watched, TcpCommandsLeft
    PROVE  Inv'
<1> USE DEF TcpCommandsLeft, stateVars, strVars, selVars, timerVars
<1>1. DataTypes'
  BY DEF Inv, DataTypes
<1>2. Handlers' /\ BannerFirst' /\ Blank' /\ UpGated'
  BY DEF Inv, Handlers, BannerFirst, Blank, UpGated, Live, UpSafe
<1>3. DownGated'
  BY DEF Inv, DataTypes, DownGated, DownSafe, Live
<1>4. UpLossless' /\ DownLossless'
  BY DEF Inv, UpLossless, DownLossless, UpSafe, DownSafe, Live
<1> QED  BY <1>1, <1>2, <1>3, <1>4 DEF Inv

\* A part of the banner or of the data was written, behind all the commands.
LEMMA WrittenInv ==
    ASSUME Inv, Live, "tcpWrite" \in watched, NEW w \in Nat,
           \/ /\ tcpHandler = "data" /\ w <= dev_to_tcp
              /\ dev_to_tcp' = dev_to_tcp - w /\ toTcp' = toTcp + w
              /\ TcpWritten(w = dev_to_tcp)
              /\ UNCHANGED <<banner, tcpHandler>>
           \/ /\ tcpHandler = "banner" /\ w <= banner
              /\ banner' = banner - w
              /\ TcpWritten(w = banner)
              /\ tcpHandler' = IF w = banner THEN "data" ELSE "banner"
              /\ UNCHANGED <<dev_to_tcp, toTcp>>
    PROVE  Inv'
<1> USE DEF TcpWritten, DevReader, reset_timer
<1>1. DataTypes'
  <2>1. timeout_left' \in Nat /\ out_telnet_cmd' \in 0 .. CmdSize
    BY DEF Inv, DataTypes
  <2>2. watched' \subseteq Interests
    BY DEF Inv, DataTypes, Interests
  <2>3. dev_to_tcp' \in 0 .. BufSize /\ toTcp' \in Nat /\ banner' \in Nat
    BY DEF Inv, DataTypes
  <2> QED  BY <2>1, <2>2, <2>3 DEF Inv, DataTypes, States
<1>2. Live' /\ Handlers'
  BY DEF Inv, Handlers, Live, UpSafe
<1>3. Blank'
  BY <1>2 DEF Blank, Live
<1>4. BannerFirst'
  BY <1>2 DEF Inv, DataTypes, BannerFirst
<1>5. UpGated' /\ UpLossless'
  BY <1>2 DEF Inv, UpGated, UpLossless, UpSafe
<1>6. DownLossless'
  BY DEF Inv, DataTypes, DownLossless, DownSafe, Live
<1>7. DownGated'
  <2>1. tcpHandler = "banner" /\ DownSafe => dev_to_tcp = 0
    BY DEF Inv, DataTypes, BannerFirst, Handlers, DownSafe, Modes
  <2> QED  BY <2>1 DEF Inv, DataTypes, DownGated, DownSafe, Live, Handlers
<1> QED  BY <1>1, <1>2, <1>3, <1>4, <1>5, <1>6, <1>7 DEF Inv

\* The client takes commands, a part of the banner or of the data.
LEMMA TcpWriteInv ==
    ASSUME Inv, handle_tcp_fd_write \/ handle_tcp_fd_banner_write
    PROVE  Inv'
<1>1. Live /\ "tcpWrite" \in watched
  BY WatchedLive DEF handle_tcp_fd_write, handle_tcp_fd_banner_write
<1>2. CASE Shutdown(UNCHANGED dataVars)
  BY <1>1, <1>2, ShutdownAsIsInv DEF Live
<1>3. CASE TcpCommandsLeft
  BY <1>1, <1>3, CommandsLeftInv
<1>4. CASE handle_tcp_fd_write /\ ~Shutdown(UNCHANGED dataVars) /\ ~TcpCommandsLeft
  <2> PICK w \in 0 .. dev_to_tcp :
            /\ dev_to_tcp' = Rest(dev_to_tcp, w) /\ toTcp' = toTcp + w
            /\ TcpWritten(w = dev_to_tcp)
            /\ UNCHANGED <<banner, tcpHandler>>
    BY <1>4 DEF handle_tcp_fd_write, ShutdownAsIs
  <2>1. w \in Nat /\ w <= dev_to_tcp /\ tcpHandler = "data"
    BY <1>4 DEF Inv, DataTypes, handle_tcp_fd_write
  <2> QED  BY <1>1, <2>1, WrittenInv DEF Rest
<1>5. CASE handle_tcp_fd_banner_write /\ ~Shutdown(UNCHANGED dataVars)
           /\ ~TcpCommandsLeft
  <2> PICK w \in 0 .. banner :
            /\ banner' = banner - w
            /\ TcpWritten(w = banner)
            /\ tcpHandler' = IF w = banner THEN "data" ELSE "banner"
            /\ UNCHANGED <<dev_to_tcp, toTcp>>
    BY <1>5 DEF handle_tcp_fd_banner_write
  <2>1. w \in Nat /\ w <= banner /\ tcpHandler = "banner"
    BY <1>5 DEF Inv, DataTypes, handle_tcp_fd_banner_write
  <2> QED  BY <1>1, <2>1, WrittenInv
<1> QED  BY <1>2, <1>3, <1>4, <1>5

\* The timer ends the session, or only counts and may queue a command.
LEMMA TimeoutInv ==
    ASSUME Inv, SessionResources, got_timeout
    PROVE  Inv'
<1>1. Live
  BY DEF SessionResources, got_timeout
<1>2. CASE ShutdownAsIs
  BY <1>1, <1>2, ShutdownAsIsInv DEF Live, ShutdownAsIs
<1>3. CASE ~ShutdownAsIs
  <2>1. /\ ~(timeout # 0 /\ timeout_left = 0)
        /\ timeout_left' = Tick
        /\ UNCHANGED <<cfg, handlers, stateVars, tcp_to_dev, dev_to_tcp, strVars,
                       timeout, tcp_bytes_sent, dev_bytes_sent,
                       dev_bytes_received, stat, fromTcp, toDevice, fromDev, toTcp>>
        /\ NotifyModemstate \/ UNCHANGED <<out_telnet_cmd, watched>>
    BY <1>3 DEF got_timeout
  <2>2. Tick \in Nat
    BY <2>1 DEF Inv, DataTypes, Tick
  <2>3. CASE NotifyModemstate
    <3>1. tcp_to_dev' = tcp_to_dev /\ tcp_to_dev' \in 0 .. BufSize
      BY <2>1 DEF Inv, DataTypes
    <3> QED  BY <1>1, <2>1, <2>2, <2>3, <3>1, QueueInv DEF NotifyModemstate
  <2>4. CASE UNCHANGED <<out_telnet_cmd, watched>>
    <3> USE <2>1, <2>2, <2>4 DEF handlers, stateVars, strVars
    <3>1. DataTypes'
      BY DEF Inv, DataTypes
    <3>2. Handlers' /\ BannerFirst' /\ Blank' /\ UpGated'
      BY DEF Inv, Handlers, BannerFirst, Blank, UpGated, Live, UpSafe
    <3>3. DownGated' /\ UpLossless' /\ DownLossless'
      BY DEF Inv, DownGated, UpLossless, DownLossless, Live, UpSafe, DownSafe
    <3> QED  BY <3>1, <3>2, <3>3 DEF Inv
  <2> QED  BY <2>1, <2>3, <2>4
<1> QED  BY <1>2, <1>3

\* A step that leaves the port's data and configuration alone.
LEMMA QuietInv ==
    ASSUME Inv, timeout' \in Timeouts, timeout_left' \in Nat,
           UNCHANGED <<cfg, stateVars, dataVars, strVars, selVars>>
    PROVE  Inv'
<1> USE DEF stateVars, dataVars, strVars, selVars
<1>1. DataTypes'
  BY DEF Inv, DataTypes
<1>2. Handlers' /\ BannerFirst' /\ Blank' /\ UpGated'
  BY DEF Inv, Handlers, BannerFirst, Blank, UpGated, Live, UpSafe
<1>3. DownGated' /\ UpLossless' /\ DownLossless'
  BY DEF Inv, DownGated, UpLossless, DownLossless, Live, UpSafe, DownSafe
<1> QED  BY <1>1, <1>2, <1>3 DEF Inv

\* Every step keeps Inv.
LEMMA NextInv ==
    ASSUME Inv, SessionResources, [Next]_vars
    PROVE  Inv'
<1>1. CASE AcceptFails
  BY <1>1, QuietInv DEF AcceptFails, timerVars, Inv, DataTypes
<1>2. CASE setup_tcp_port
  BY <1>2, SetupInv
<1>3. CASE handle_tcp_fd_read
  BY <1>3, TcpReadInv
<1>4. CASE handle_dev_fd_write
  BY <1>4, DevWriteInv
<1>5. CASE handle_dev_fd_devstr_write
  BY <1>5, DevstrInv
<1>6. CASE handle_dev_fd_close_write
  BY <1>6, CloseWriteInv
<1>7. CASE handle_dev_fd_read
  BY <1>7, DevReadInv
<1>8. CASE handle_tcp_fd_write \/ handle_tcp_fd_banner_write
  BY <1>8, TcpWriteInv
<1>9. CASE FdException \/ disconnect_port
  BY <1>9, ShutdownAsIsInv DEF FdException, disconnect_port, ShutdownAsIs, Live
<1>10. CASE got_timeout
  BY <1>10, TimeoutInv
<1>11. CASE setporttimeout
  <2>1. timeout_left' \in Nat
    BY <1>11 DEF setporttimeout, Inv, DataTypes
  <2> QED  BY <1>11, <2>1, QuietInv DEF setporttimeout
<1>12. CASE UNCHANGED vars
  BY <1>12, QuietInv DEF vars, timerVars, Inv, DataTypes
<1> QED
  BY <1>1, <1>2, <1>3, <1>4, <1>5, <1>6, <1>7, <1>8, <1>9, <1>10, <1>11, <1>12
  DEF Next

\* An unconnected port holds nothing.
LEMMA InitResources == Init => SessionResources
  BY DEF Init, SessionResources, Live

\* shutdown_port gives back what its session held.
LEMMA ShutdownResources ==
    ASSUME Inv, SessionResources, tcp_to_dev_state # "unconnected",
           NEW ACTION Keep, Shutdown(Keep)
    PROVE  SessionResources'
<1> USE DEF Shutdown, sel_stop_timer
<1>1. CASE cfg.closestr # 0 /\ devfd
  <2>1. cfg.closestr \in Nat
    BY DEF Inv, DataTypes
  <2> QED  BY <1>1, <2>1 DEF SessionResources, Live
<1>2. CASE ~(cfg.closestr # 0 /\ devfd)
  BY <1>2 DEF FinishShutdown, SessionResources, Live
<1> QED  BY <1>1, <1>2

\* A step inside a session leaves what the session holds alone.
LEMMA SameResources ==
    ASSUME SessionResources, Live <=> Live', UNCHANGED <<devfd, timer, tcpfd>>,
           Live, dev_to_tcp_state' # "unconnected"
    PROVE  SessionResources'
  BY DEF SessionResources, Live

\* Every step keeps SessionResources.
LEMMA NextResources ==
    ASSUME Inv, SessionResources, [Next]_vars
    PROVE  SessionResources'
<1> USE DEF ShutdownAsIs, stateVars, fdVars, timerVars
<1>1. CASE AcceptFails \/ setporttimeout \/ UNCHANGED vars
  <2>1. UNCHANGED <<devfd, timer, stateVars, devstr>>
    BY <1>1 DEF AcceptFails, setporttimeout, vars, strVars
  <2>2. tcp_to_dev_state # "unconnected" => UNCHANGED tcpfd
    BY <1>1 DEF AcceptFails, setporttimeout, vars
  <2> QED  BY <2>1, <2>2 DEF SessionResources, Live
<1>2. CASE setup_tcp_port
  BY <1>2 DEF setup_tcp_port, SessionResources, Live
<1>3. CASE handle_tcp_fd_read
  <2>1. Live
    BY <1>3, WatchedLive DEF handle_tcp_fd_read
  <2>2. CASE ShutdownAsIs
    BY <2>1, <2>2, ShutdownResources DEF Live
  <2>3. CASE ~ShutdownAsIs
    <3>1. /\ UNCHANGED <<devfd, timer, tcpfd, dev_to_tcp_state>>
          /\ tcp_to_dev_state' \in {"output_clear", tcp_to_dev_state}
      <4>1. ASSUME NEW r, TcpCommandsOnly(r)
            PROVE  UNCHANGED <<devfd, timer, tcpfd, dev_to_tcp_state, tcp_to_dev_state>>
        BY <4>1 DEF TcpCommandsOnly
      <4>2. ASSUME NEW k, NEW r, NEW w, TcpDataToDevice(k, r, w)
            PROVE  /\ UNCHANGED <<devfd, timer, tcpfd, dev_to_tcp_state>>
                   /\ tcp_to_dev_state' \in {"output_clear", tcp_to_dev_state}
        BY <4>2 DEF TcpDataToDevice
      <4> QED  BY <1>3, <2>3, <4>1, <4>2 DEF handle_tcp_fd_read
    <3> QED  BY <2>1, <3>1, SameResources DEF Live, SessionResources
  <2> QED  BY <2>2, <2>3
<1>4. CASE handle_dev_fd_write \/ handle_dev_fd_devstr_write
  <2>1. Live
    BY <1>4 DEF handle_dev_fd_write, handle_dev_fd_devstr_write, Inv, DataTypes,
       Handlers, Live, States
  <2>2. CASE Shutdown(UNCHANGED dataVars)
    BY <2>1, <2>2, ShutdownResources DEF Live
  <2>3. CASE ~Shutdown(UNCHANGED dataVars)
    <3>1. /\ UNCHANGED <<devfd, timer, tcpfd, dev_to_tcp_state>>
          /\ tcp_to_dev_state' \in {"input", tcp_to_dev_state}
      <4>1. CASE handle_dev_fd_write
        BY <4>1, <2>3 DEF handle_dev_fd_write
      <4>2. CASE handle_dev_fd_devstr_write
        BY <4>2, <2>3 DEF handle_dev_fd_devstr_write
      <4> QED  BY <1>4, <4>1, <4>2
    <3> QED  BY <2>1, <3>1, SameResources DEF Live, SessionResources
  <2> QED  BY <2>2, <2>3
<1>5. CASE handle_dev_fd_close_write
  <2>1. CASE FinishShutdown /\ UNCHANGED <<tcpfd, timer, crashed>>
    BY <1>5, <2>1 DEF handle_dev_fd_close_write, FinishShutdown, SessionResources,
       Live, Inv, DataTypes, Handlers, States
  <2>2. ASSUME NEW w \in 0 .. devstr - 1, devstr' = devstr - w,
               UNCHANGED <<tcpfd, devfd, timer, tcp_to_dev_state, dev_to_tcp_state>>
        PROVE  SessionResources'
    BY <2>2 DEF SessionResources, Live, Inv, DataTypes
  <2> QED  BY <1>5, <2>1, <2>2 DEF handle_dev_fd_close_write
<1>6. CASE handle_dev_fd_read
  <2>1. Live
    BY <1>6, WatchedLive DEF handle_dev_fd_read
  <2>2. CASE /\ UNCHANGED <<devfd, timer, tcpfd, tcp_to_dev_state>>
             /\ dev_to_tcp_state' \in {"output_clear", dev_to_tcp_state}
    BY <2>1, <2>2, SameResources DEF Live, SessionResources
  <2>3. CASE ShutdownAsIs
    BY <2>1, <2>3, ShutdownResources DEF Live
  <2>4. CASE \E c \in 1 .. BufSize :
                Shutdown(/\ dev_bytes_received' = dev_bytes_received + c
                         /\ myChangeStat(FirstDataStat)
                         /\ UNCHANGED <<tcp_to_dev, dev_to_tcp, out_telnet_cmd,
                                        tcp_bytes_sent, dev_bytes_sent, fromTcp,
                                        toDevice, fromDev, toTcp>>)
    BY <2>1, <2>4, ShutdownResources DEF Live
  <2> QED  BY <1>6, <2>2, <2>3, <2>4 DEF handle_dev_fd_read
<1>7. CASE handle_tcp_fd_write \/ handle_tcp_fd_banner_write
  <2>1. Live
    BY <1>7, WatchedLive DEF handle_tcp_fd_write, handle_tcp_fd_banner_write
  <2>2. CASE Shutdown(UNCHANGED dataVars)
    BY <2>1, <2>2, ShutdownResources DEF Live
  <2>3. CASE ~Shutdown(UNCHANGED dataVars)
    <3>1. /\ UNCHANGED <<devfd, timer, tcpfd, tcp_to_dev_state>>
          /\ dev_to_tcp_state' \in {"input", dev_to_tcp_state}
      BY <1>7, <2>3 DEF handle_tcp_fd_write, handle_tcp_fd_banner_write,
         TcpCommandsLeft, TcpWritten
    <3> QED  BY <2>1, <3>1, SameResources DEF Live, SessionResources
  <2> QED  BY <2>2, <2>3
<1>8. CASE FdException \/ disconnect_port
  BY <1>8, ShutdownResources DEF FdException, disconnect_port, Live
<1>9. CASE got_timeout
  <2>1. Live
    BY <1>9 DEF got_timeout, SessionResources
  <2>2. CASE ShutdownAsIs
    BY <2>1, <2>2, ShutdownResources DEF Live
  <2>3. CASE ~ShutdownAsIs
    <3>1. UNCHANGED <<devfd, timer, tcpfd, stateVars>>
      BY <1>9, <2>3 DEF got_timeout
    <3> QED  BY <2>1, <3>1, SameResources DEF Live, SessionResources
  <2> QED  BY <2>2, <2>3
<1> QED
  BY <1>1, <1>2, <1>3, <1>4, <1>5, <1>6, <1>7, <1>8, <1>9 DEF Next

\* shutdown_port keeps the Boolean variables Boolean.
LEMMA ShutdownBools ==
    ASSUME BoolTypes, NEW ACTION Keep, Shutdown(Keep), crashed' \in BOOLEAN
    PROVE  BoolTypes'
  BY DEF BoolTypes, Shutdown, FinishShutdown, tnVars, sel_stop_timer

\* So does every step.
LEMMA NextBools ==
    ASSUME BoolTypes, [Next]_vars
    PROVE  BoolTypes'
<1> USE DEF BoolTypes, fdVars, tnVars, timerVars
<1>1. CASE AcceptFails \/ setporttimeout \/ UNCHANGED vars
  BY <1>1 DEF AcceptFails, setporttimeout, vars
<1>2. CASE setup_tcp_port
  BY <1>2 DEF setup_tcp_port
<1>3. CASE ShutdownAsIs
  BY <1>3, ShutdownBools DEF ShutdownAsIs
<1>4. CASE Shutdown(UNCHANGED dataVars) /\ LookAgain
  BY <1>4, ShutdownBools DEF LookAgain
<1>5. CASE handle_tcp_fd_read /\ ~ShutdownAsIs
  <2>1. ASSUME NEW r, QueueCmds(r)
        PROVE  tn_error' \in BOOLEAN
    BY <2>1 DEF QueueCmds
  <2>2. ASSUME NEW r, TcpCommandsOnly(r)
        PROVE  UNCHANGED <<devfd, timer, tcpfd, crashed>> /\ tn_error' \in BOOLEAN
    BY <2>1, <2>2 DEF TcpCommandsOnly
  <2>3. ASSUME NEW k, NEW r, NEW w, TcpDataToDevice(k, r, w)
        PROVE  UNCHANGED <<devfd, timer, tcpfd, crashed>> /\ tn_error' \in BOOLEAN
    BY <2>1, <2>3 DEF TcpDataToDevice
  <2>4. ASSUME NEW c, NEW k, Negotiates(c, k)
        PROVE  is_2217' \in BOOLEAN
    BY <2>4 DEF Negotiates
  <2> QED  BY <1>5, <2>2, <2>3, <2>4 DEF handle_tcp_fd_read
<1>6. CASE handle_dev_fd_write /\ ~ShutdownAsIs
  BY <1>6 DEF handle_dev_fd_write
<1>7. CASE handle_dev_fd_devstr_write /\ ~(Shutdown(UNCHANGED dataVars) /\ LookAgain)
  BY <1>7 DEF handle_dev_fd_devstr_write
<1>8. CASE handle_dev_fd_close_write
  BY <1>8 DEF handle_dev_fd_close_write, FinishShutdown
<1>9. CASE handle_dev_fd_read /\ ~ShutdownAsIs
  <2>1. CASE UNCHANGED <<tcpfd, devfd, tnVars, timer, crashed>>
    BY <2>1
  <2>2. CASE \E c \in 1 .. BufSize :
                /\ Shutdown(/\ dev_bytes_received' = dev_bytes_received + c
                            /\ myChangeStat(FirstDataStat)
                            /\ UNCHANGED <<tcp_to_dev, dev_to_tcp, out_telnet_cmd,
                                           tcp_bytes_sent, dev_bytes_sent, fromTcp,
                                           toDevice, fromDev, toTcp>>)
                /\ UNCHANGED crashed
    BY <2>2, ShutdownBools
  <2> QED  BY <1>9, <2>1, <2>2 DEF handle_dev_fd_read
<1>10. CASE TcpCommandsLeft
  BY <1>10 DEF TcpCommandsLeft
<1>11. ASSUME NEW done, TcpWritten(done)
       PROVE  BoolTypes'
  BY <1>11 DEF TcpWritten
<1>12. CASE got_timeout /\ ~ShutdownAsIs
  <2>1. NotifyModemstate => tn_error' \in BOOLEAN
    BY DEF NotifyModemstate, QueueCmds
  <2> QED  BY <1>12, <2>1 DEF got_timeout
<1>13. CASE handle_tcp_fd_write \/ handle_tcp_fd_banner_write
  BY <1>3, <1>4, <1>10, <1>11, <1>13 DEF handle_tcp_fd_write, handle_tcp_fd_banner_write
<1>14. CASE FdException \/ disconnect_port
  BY <1>3, <1>14 DEF FdException, disconnect_port
<1> HIDE DEF BoolTypes
<1> QED
  BY <1>1, <1>2, <1>3, <1>4, <1>5, <1>6, <1>7, <1>8, <1>9, <1>12, <1>13, <1>14
  DEF Next

\* The inductive invariant holds of every reachable state.
THEOREM Invariance == Spec => [](Inv /\ SessionResources)
<1>1. Init => Inv /\ SessionResources
  BY InitInv, InitResources
<1>2. Inv /\ SessionResources /\ [Next]_vars => (Inv /\ SessionResources)'
  BY NextInv, NextResources
<1> QED  BY <1>1, <1>2, PTL DEF Spec

\* Every variable keeps its type; in particular no transfer buffer overflows,
\* whatever its size, although a telnet port doubles what it reads.
THEOREM TypeCorrect == Spec => []TypeOK
<1>1. Init => BoolTypes
  BY DEF Init, BoolTypes
<1>2. BoolTypes /\ [Next]_vars => BoolTypes'
  BY NextBools
<1>3. Inv /\ BoolTypes => TypeOK
  BY TypeParts DEF Inv
<1> QED  BY <1>1, <1>2, <1>3, Invariance, PTL DEF Spec

\* No handler reads while data waits for the device, and none leaves the
\* device's writer off then: the enable bits, which six handlers toggle, are
\* right in every reachable state of a port without an open string.
THEOREM UpGatedThm == Spec => []UpGated
<1>1. Inv => UpGated
  BY DEF Inv
<1> QED  BY <1>1, Invariance, PTL

\* The same from the device to the client, for a port without a banner or one
\* that is not raw.
THEOREM DownGatedThm == Spec => []DownGated
<1>1. Inv => DownGated
  BY DEF Inv
<1> QED  BY <1>1, Invariance, PTL

\* Nothing the client sent is lost on the way to the device, and nothing the
\* device sent on the way to the client, while the session lasts: for any
\* number of bytes and any sizes of the buffers.
THEOREM LosslessThm == Spec => []Lossless
<1>1. Inv => Lossless
  BY DEF Inv, Lossless
<1> QED  BY <1>1, Invariance, PTL

\* The device, the client's socket and the timer are held exactly as long as
\* the states say, whichever handler ends the session.
THEOREM SessionResourcesThm == Spec => []SessionResources
  BY Invariance, PTL


-----------------------------------------------------------------------------
(* Three more invariants, each inductive relative to Inv.                  *)

\* However a session ends, nothing is live afterwards.
LEMMA ShutdownEnds ==
    ASSUME NEW ACTION Keep, Shutdown(Keep)
    PROVE  ~Live'
  BY DEF Shutdown, FinishShutdown, Live

\* A short write, in whichever handler, leaves the rest in the buffer and no
\* more than that.
LEMMA DuplicatedStep == Inv /\ NeverDuplicated /\ [Next]_vars => NeverDuplicated'
<1> SUFFICES ASSUME Inv, NeverDuplicated, [Next]_vars PROVE NeverDuplicated'
  OBVIOUS
<1>0. /\ tcp_to_dev \in 0 .. BufSize /\ dev_to_tcp \in 0 .. BufSize
      /\ fromTcp \in Nat /\ toDevice \in Nat /\ fromDev \in Nat /\ toTcp \in Nat
  BY DEF Inv, DataTypes
<1> DEFINE Same == UNCHANGED <<tcp_to_dev, dev_to_tcp, fromTcp, toDevice, fromDev, toTcp>>
<1>1. ASSUME Live => Live', ~Live => ~Live', Same PROVE NeverDuplicated'
  BY <1>1 DEF NeverDuplicated
<1>2. ASSUME ~Live' PROVE NeverDuplicated'
  BY <1>2 DEF NeverDuplicated
<1>3. CASE AcceptFails \/ setporttimeout \/ UNCHANGED vars
  BY <1>1, <1>3 DEF AcceptFails, setporttimeout, vars, dataVars, stateVars, Live
<1>4. CASE setup_tcp_port
  BY <1>0, <1>4 DEF setup_tcp_port, NeverDuplicated, Inv, Blank
<1>5. CASE handle_tcp_fd_read
  <2>1. Live
    BY <1>5, WatchedLive DEF handle_tcp_fd_read
  <2>2. CASE ShutdownAsIs
    BY <1>2, <2>2, ShutdownEnds DEF ShutdownAsIs
  <2>3. ASSUME NEW r \in Nat, TcpCommandsOnly(r) PROVE NeverDuplicated'
    BY <1>0, <2>1, <2>3 DEF TcpCommandsOnly, NeverDuplicated
  <2>4. ASSUME NEW c \in 1 .. BufSize, NEW k \in 0 .. c, NEW r \in 0 .. c,
               NEW w \in 0 .. k, TcpDataToDevice(k, r, w)
        PROVE  NeverDuplicated'
    BY <1>0, <2>1, <2>4 DEF TcpDataToDevice, Rest, NeverDuplicated
  <2> QED  BY <1>5, <2>2, <2>3, <2>4 DEF handle_tcp_fd_read
<1>6. CASE handle_dev_fd_write
  <2>1. Live
    BY <1>6 DEF handle_dev_fd_write, Inv, DataTypes, Handlers, Live, States
  <2>2. CASE ShutdownAsIs
    BY <1>2, <2>2, ShutdownEnds DEF ShutdownAsIs
  <2>3. CASE ~ShutdownAsIs
    <3>1. PICK w \in 0 .. tcp_to_dev :
            /\ tcp_to_dev' = Rest(tcp_to_dev, w)
            /\ toDevice' = toDevice + w
            /\ UNCHANGED <<dev_to_tcp, fromTcp, fromDev, toTcp>>
      BY <1>6, <2>3 DEF handle_dev_fd_write
    <3> QED  BY <1>0, <2>1, <3>1 DEF Rest, NeverDuplicated
  <2> QED  BY <2>2, <2>3
<1>7. CASE handle_dev_fd_devstr_write
  <2>1. Live
    BY <1>7 DEF handle_dev_fd_devstr_write, Inv, DataTypes, Handlers, Live, States
  <2>2. CASE Shutdown(UNCHANGED dataVars)
    BY <1>2, <2>2, ShutdownEnds
  <2>3. CASE ~Shutdown(UNCHANGED dataVars)
    BY <1>7, <2>1, <2>3 DEF handle_dev_fd_devstr_write, dataVars, NeverDuplicated
  <2> QED  BY <2>2, <2>3
<1>8. CASE handle_dev_fd_close_write
  <2>1. ~Live
    BY <1>8 DEF handle_dev_fd_close_write, Inv, Handlers, Live
  <2>2. ~Live'
    BY <1>8, <2>1 DEF handle_dev_fd_close_write, FinishShutdown, stateVars, Live
  <2> QED  BY <1>2, <2>2
<1>9. CASE handle_dev_fd_read
  <2>1. Live
    BY <1>9, WatchedLive DEF handle_dev_fd_read
  <2>2. ASSUME NEW ACTION Keep, Shutdown(Keep) PROVE NeverDuplicated'
    BY <1>2, <2>2, ShutdownEnds
  <2>3. ASSUME NEW n \in 1 .. 2 * BufSize, NEW w \in 0 .. n,
               dev_to_tcp' = Rest(n, w), fromDev' = fromDev + n,
               toTcp' = toTcp + w, UNCHANGED <<tcp_to_dev, fromTcp, toDevice>>
        PROVE  NeverDuplicated'
    BY <1>0, <2>1, <2>3 DEF Rest, NeverDuplicated
  <2> QED  BY <1>9, <2>2, <2>3 DEF handle_dev_fd_read, ShutdownAsIs
<1>10. CASE handle_tcp_fd_write
  <2>1. Live
    BY <1>10, WatchedLive DEF handle_tcp_fd_write
  <2>2. CASE ShutdownAsIs
    BY <1>2, <2>2, ShutdownEnds DEF ShutdownAsIs
  <2>3. CASE TcpCommandsLeft
    BY <2>1, <2>3 DEF TcpCommandsLeft, NeverDuplicated
  <2>4. ASSUME NEW w \in 0 .. dev_to_tcp, dev_to_tcp' = Rest(dev_to_tcp, w),
               toTcp' = toTcp + w, TcpWritten(w = dev_to_tcp)
        PROVE  NeverDuplicated'
    BY <1>0, <2>1, <2>4 DEF TcpWritten, Rest, NeverDuplicated
  <2> QED  BY <1>10, <2>2, <2>3, <2>4 DEF handle_tcp_fd_write
<1>11. CASE handle_tcp_fd_banner_write
  <2>1. Live
    BY <1>11, WatchedLive DEF handle_tcp_fd_banner_write
  <2>2. CASE Shutdown(UNCHANGED dataVars)
    BY <1>2, <2>2, ShutdownEnds
  <2>3. CASE ~Shutdown(UNCHANGED dataVars)
    BY <1>11, <2>1, <2>3 DEF handle_tcp_fd_banner_write, TcpCommandsLeft,
                             TcpWritten, NeverDuplicated
  <2> QED  BY <2>2, <2>3
<1>12. CASE FdException \/ disconnect_port
  BY <1>2, <1>12, ShutdownEnds DEF FdException, disconnect_port, ShutdownAsIs
<1>13. CASE got_timeout
  <2>1. CASE ShutdownAsIs
    BY <1>2, <2>1, ShutdownEnds DEF ShutdownAsIs
  <2>2. CASE ~ShutdownAsIs
    BY <1>1, <1>13, <2>2 DEF got_timeout, stateVars, Live
  <2> QED  BY <2>1, <2>2
<1> QED
  BY <1>3, <1>4, <1>5, <1>6, <1>7, <1>8, <1>9, <1>10, <1>11, <1>12, <1>13 DEF Next

\* No unit is delivered twice or made up, also where a string may lose some.
THEOREM NeverDuplicatedThm == Spec => []NeverDuplicated
<1>1. Init => NeverDuplicated
  BY DEF Init, NeverDuplicated, Live
<1> QED  BY <1>1, DuplicatedStep, Invariance, PTL DEF Spec

\* The end of a session, or the beginning of its close string, leaves an honest
\* status when its caller had changed none.
LEMMA StatShutdown ==
    ASSUME Inv, StatHonest, tcp_to_dev_state # "unconnected",
           Shutdown(UNCHANGED dataVars)
    PROVE  StatHonest'
  BY DEF Shutdown, FinishShutdown, StatHonest, myChangeStat, dataVars,
         NoStat, DataStat

\* A step that changes neither the status, nor the counters, nor whether there
\* is a session, cannot make it dishonest.
LEMMA StatSame ==
    ASSUME StatHonest,
           UNCHANGED <<stat, dev_bytes_received, dev_bytes_sent>>,
           tcp_to_dev_state' = "unconnected" <=> tcp_to_dev_state = "unconnected"
    PROVE  StatHonest'
  BY DEF StatHonest

LEMMA StatStep ==
    Inv /\ SessionResources /\ StatHonest /\ [Next]_vars => StatHonest'
<1> SUFFICES ASSUME Inv, SessionResources, StatHonest, [Next]_vars
             PROVE  StatHonest'
  OBVIOUS
<1>0. /\ dev_bytes_received \in Nat /\ dev_bytes_sent \in Nat
      /\ (stat = NoStat) <=> (tcp_to_dev_state = "unconnected")
      /\ stat = DataStat => dev_bytes_received + dev_bytes_sent > 0
  BY DEF Inv, DataTypes, StatHonest
<1>1. CASE AcceptFails \/ setporttimeout \/ UNCHANGED vars
  BY <1>1, StatSame DEF AcceptFails, setporttimeout, vars, dataVars, stateVars
<1>2. CASE setup_tcp_port
  BY <1>0, <1>2 DEF setup_tcp_port, myChangeStat, StatHonest, NoStat, ConnStat, DataStat
<1>3. CASE handle_tcp_fd_read
  <2>1. tcp_to_dev_state # "unconnected"
    BY <1>3, WatchedLive DEF handle_tcp_fd_read, Live
  <2>2. CASE ShutdownAsIs
    BY <2>1, <2>2, StatShutdown DEF ShutdownAsIs
  <2>3. ASSUME NEW r \in Nat, TcpCommandsOnly(r) PROVE StatHonest'
    BY <2>3, StatSame DEF TcpCommandsOnly, stateVars
  <2>4. ASSUME NEW c \in 1 .. BufSize, NEW k \in 0 .. c, NEW r \in 0 .. c,
               NEW w \in 0 .. k, TcpDataToDevice(k, r, w)
        PROVE  StatHonest'
    <3>1. /\ dev_bytes_sent' = dev_bytes_sent + w
          /\ dev_bytes_received' = dev_bytes_received
          /\ stat' = IF w > 0 THEN FirstDataStat ELSE stat
          /\ tcp_to_dev_state' # "unconnected"
      BY <2>1, <2>4 DEF TcpDataToDevice, myChangeStat
    <3> QED  BY <1>0, <2>1, <3>1 DEF FirstDataStat, StatHonest, NoStat, DataStat
  <2> QED  BY <1>3, <2>2, <2>3, <2>4 DEF handle_tcp_fd_read
<1>4. CASE handle_dev_fd_write \/ handle_dev_fd_devstr_write
  <2>1. tcp_to_dev_state # "unconnected"
    BY <1>4 DEF handle_dev_fd_write, handle_dev_fd_devstr_write, Inv, Handlers
  <2>2. CASE Shutdown(UNCHANGED dataVars)
    BY <2>1, <2>2, StatShutdown
  <2>3. CASE ~Shutdown(UNCHANGED dataVars)
    <3>1. /\ UNCHANGED <<stat, dev_bytes_received, dev_bytes_sent>>
          /\ tcp_to_dev_state' # "unconnected"
      BY <1>4, <2>1, <2>3 DEF handle_dev_fd_write, handle_dev_fd_devstr_write,
                              ShutdownAsIs, dataVars
    <3> QED  BY <2>1, <3>1, StatSame
  <2> QED  BY <2>2, <2>3
<1>5. CASE handle_dev_fd_close_write
  <2>1. tcp_to_dev_state # "unconnected"
    BY <1>5 DEF handle_dev_fd_close_write, Inv, Handlers
  <2>2. CASE FinishShutdown
    BY <2>2 DEF FinishShutdown, myChangeStat, StatHonest, NoStat, DataStat
  <2>3. CASE ~FinishShutdown
    BY <1>5, <2>3, StatSame DEF handle_dev_fd_close_write, dataVars, stateVars
  <2> QED  BY <2>2, <2>3
<1>6. CASE handle_dev_fd_read
  <2>1. tcp_to_dev_state # "unconnected"
    BY <1>6, WatchedLive DEF handle_dev_fd_read, Live
  <2>2. CASE ShutdownAsIs
    BY <2>1, <2>2, StatShutdown DEF ShutdownAsIs
  <2>3. CASE FinishShutdown
    BY <2>3 DEF FinishShutdown, myChangeStat, StatHonest, NoStat, DataStat
  <2>4. ASSUME NEW c \in 1 .. BufSize, dev_bytes_received' = dev_bytes_received + c,
               stat' = FirstDataStat, dev_bytes_sent' = dev_bytes_sent,
               tcp_to_dev_state' # "unconnected"
        PROVE  StatHonest'
    BY <1>0, <2>1, <2>4 DEF FirstDataStat, StatHonest, NoStat, DataStat
  <2>5. \/ ShutdownAsIs \/ FinishShutdown
        \/ \E c \in 1 .. BufSize :
             /\ dev_bytes_received' = dev_bytes_received + c
             /\ stat' = FirstDataStat /\ dev_bytes_sent' = dev_bytes_sent
             /\ tcp_to_dev_state' # "unconnected"
    BY <1>6, <2>1 DEF handle_dev_fd_read, Shutdown, myChangeStat
  <2> QED  BY <2>2, <2>3, <2>4, <2>5
<1>7. CASE handle_tcp_fd_write \/ handle_tcp_fd_banner_write
  <2>1. tcp_to_dev_state # "unconnected"
    BY <1>7, WatchedLive DEF handle_tcp_fd_write, handle_tcp_fd_banner_write, Live
  <2>2. CASE Shutdown(UNCHANGED dataVars)
    BY <2>1, <2>2, StatShutdown
  <2>3. CASE ~Shutdown(UNCHANGED dataVars)
    BY <1>7, <2>1, <2>3, StatSame DEF handle_tcp_fd_write, handle_tcp_fd_banner_write,
          ShutdownAsIs, TcpCommandsLeft, TcpWritten, stateVars
  <2> QED  BY <2>2, <2>3
<1>8. CASE FdException \/ disconnect_port
  BY <1>8, StatShutdown DEF FdException, disconnect_port, ShutdownAsIs, Live
<1>9. CASE got_timeout
  <2>1. tcp_to_dev_state # "unconnected"
    BY <1>9 DEF got_timeout, SessionResources, Live
  <2>2. CASE ShutdownAsIs
    BY <2>1, <2>2, StatShutdown DEF ShutdownAsIs
  <2>3. CASE ~ShutdownAsIs
    BY <1>9, <2>3, StatSame DEF got_timeout, stateVars
  <2> QED  BY <2>2, <2>3
<1> QED
  BY <1>1, <1>2, <1>3, <1>4, <1>5, <1>6, <1>7, <1>8, <1>9 DEF Next

\* The status that is broadcast is honest in every state of every port.
THEOREM StatHonestThm == Spec => []StatHonest
<1>1. Init => StatHonest
  BY DEF Init, StatHonest, NoStat, DataStat
<1> QED  BY <1>1, StatStep, Invariance, PTL DEF Spec

-----------------------------------------------------------------------------
(* The use of a freed string.  No step changes the configuration.          *)

LEMMA ConfigStays ==
    ASSUME [Next]_vars PROVE cfg' = cfg
<1>1. ASSUME NEW ACTION Keep, Shutdown(Keep) PROVE cfg' = cfg
  BY <1>1 DEF Shutdown, FinishShutdown
<1>2. CASE handle_tcp_fd_read \/ handle_dev_fd_read
  BY <1>1, <1>2 DEF handle_tcp_fd_read, handle_dev_fd_read, ShutdownAsIs,
                    TcpCommandsOnly, TcpDataToDevice
<1>3. CASE \/ handle_dev_fd_write \/ handle_dev_fd_devstr_write
           \/ handle_dev_fd_close_write
  BY <1>1, <1>3 DEF handle_dev_fd_write, handle_dev_fd_devstr_write,
                    handle_dev_fd_close_write, FinishShutdown, ShutdownAsIs
<1>4. CASE handle_tcp_fd_write \/ handle_tcp_fd_banner_write
  BY <1>1, <1>4 DEF handle_tcp_fd_write, handle_tcp_fd_banner_write,
                    TcpCommandsLeft, TcpWritten, ShutdownAsIs
<1>5. CASE ~ \/ handle_tcp_fd_read \/ handle_dev_fd_read
             \/ handle_dev_fd_write \/ handle_dev_fd_devstr_write
             \/ handle_dev_fd_close_write
             \/ handle_tcp_fd_write \/ handle_tcp_fd_banner_write
  BY <1>1, <1>5 DEF Next, vars, AcceptFails, setup_tcp_port, setporttimeout,
                    FdException, disconnect_port, got_timeout, ShutdownAsIs
<1> QED  BY <1>2, <1>3, <1>4, <1>5

\* Only the two handlers that look again can make the difference.
LEMMA CrashStep ==
    Inv /\ CrashOnlyInStrings /\ [Next]_vars => CrashOnlyInStrings'
<1> SUFFICES ASSUME Inv, CrashOnlyInStrings, [Next]_vars, crashed'
             PROVE  cfg.closestr = 0 /\ (cfg.banner # 0 \/ cfg.openstr # 0)
  BY ConfigStays DEF CrashOnlyInStrings
<1>1. CASE crashed
  BY <1>1 DEF CrashOnlyInStrings
<1>2. CASE ~crashed
  <2>1. ASSUME UNCHANGED crashed PROVE FALSE
    BY <1>2, <2>1
  <2>2. /\ handle_dev_fd_devstr_write \/ handle_tcp_fd_banner_write
        /\ LookAgain
    <3>1. CASE handle_dev_fd_devstr_write
      BY <2>1, <3>1 DEF handle_dev_fd_devstr_write
    <3>2. CASE handle_tcp_fd_banner_write
      BY <2>1, <3>2 DEF handle_tcp_fd_banner_write, TcpCommandsLeft, TcpWritten
    <3>3. CASE handle_tcp_fd_read \/ handle_dev_fd_read
      BY <2>1, <3>3 DEF handle_tcp_fd_read, handle_dev_fd_read, ShutdownAsIs,
                        TcpCommandsOnly, TcpDataToDevice
    <3>4. CASE handle_dev_fd_write \/ handle_dev_fd_close_write \/ handle_tcp_fd_write
      BY <2>1, <3>4 DEF handle_dev_fd_write, handle_dev_fd_close_write,
                        handle_tcp_fd_write, TcpCommandsLeft, TcpWritten, ShutdownAsIs
    <3>5. CASE \/ AcceptFails \/ setup_tcp_port \/ FdException \/ got_timeout
               \/ setporttimeout \/ disconnect_port \/ UNCHANGED vars
      BY <2>1, <3>5 DEF AcceptFails, setup_tcp_port, FdException, got_timeout,
                        setporttimeout, disconnect_port, ShutdownAsIs, vars
    <3> QED  BY <3>1, <3>2, <3>3, <3>4, <3>5 DEF Next
  <2>3. cfg.closestr = 0
    BY <2>2 DEF LookAgain
  <2>4. CASE handle_dev_fd_devstr_write
    <3>1. "devWrite" \in watched /\ devHandler = "devstr"
      BY <2>4 DEF handle_dev_fd_devstr_write
    <3>2. Live
      BY <3>1 DEF Inv, DataTypes, Handlers, Live, States
    <3>3. cfg.openstr # 0
      BY <3>1, <3>2 DEF Inv, Handlers, UpSafe
    <3> QED  BY <2>3, <3>3
  <2>5. CASE handle_tcp_fd_banner_write
    <3>1. "tcpWrite" \in watched /\ tcpHandler = "banner"
      BY <2>5 DEF handle_tcp_fd_banner_write
    <3>2. cfg.banner # 0
      BY <3>1, WatchedLive DEF Inv, Handlers
    <3> QED  BY <2>3, <3>2
  <2> QED  BY <2>2, <2>3, <2>4, <2>5
<1> QED  BY <1>1, <1>2

\* The process dies in no other place and in no other configuration.
THEOREM CrashOnlyInStringsThm == Spec => []CrashOnlyInStrings
<1>1. Init => CrashOnlyInStrings
  BY DEF Init, CrashOnlyInStrings
<1> QED  BY <1>1, CrashStep, Invariance, PTL DEF Spec

-----------------------------------------------------------------------------
(* A port implements Relay.  What the mapping needs of a step is put into  *)
(* one lemma for each kind of step of Relay.                               *)

RelayStep == R!RelayNext \/ UNCHANGED R!relayVars

\* The mapping sees nothing but the phase and the four counters.
LEMMA RelayStutters ==
    ASSUME cfg' = cfg, Phase' = Phase,
           UNCHANGED <<fromTcp, toDevice, fromDev, toTcp>>
    PROVE  RelayStep
<1>1. (UpSafe <=> UpSafe') /\ (DownSafe <=> DownSafe')
  BY DEF UpSafe, DownSafe
<1>2. \A d \in {"up", "down"} :
        /\ Promised(d, fromTcp, fromDev)' = Promised(d, fromTcp, fromDev)
        /\ Promised(d, toDevice, toTcp)' = Promised(d, toDevice, toTcp)
  BY <1>1 DEF Promised
<1> QED  BY <1>2 DEF RelayStep, R!relayVars

\* A shutdown in a session, or while its close string is written.
LEMMA RelayShutdown ==
    ASSUME tcp_to_dev_state # "unconnected", NEW ACTION Keep, Shutdown(Keep),
           Keep => UNCHANGED <<fromTcp, toDevice, fromDev, toTcp>>
    PROVE  RelayStep
<1>1. CASE FinishShutdown
  <2>1. Phase # "idle" /\ Phase' = "idle"
    BY <1>1 DEF FinishShutdown, Phase
  <2>2. \A d \in {"up", "down"} : /\ Promised(d, fromTcp, fromDev)' = 0
                                  /\ Promised(d, toDevice, toTcp)' = 0
    BY <1>1 DEF FinishShutdown, Promised
  <2> QED  BY <2>1, <2>2 DEF RelayStep, R!RelayNext, R!Close
<1>2. CASE ~FinishShutdown
  <2>1. /\ cfg' = cfg /\ tcp_to_dev_state' = "closing"
        /\ UNCHANGED <<fromTcp, toDevice, fromDev, toTcp>>
    BY <1>2 DEF Shutdown
  <2>2. CASE tcp_to_dev_state = "closing"
    BY <2>1, <2>2, RelayStutters DEF Phase
  <2>3. CASE tcp_to_dev_state # "closing"
    <3>1. Phase = "open" /\ Phase' = "closing"
      BY <2>1, <2>3 DEF Phase
    <3>2. (UpSafe <=> UpSafe') /\ (DownSafe <=> DownSafe')
      BY <2>1 DEF UpSafe, DownSafe
    <3>3. \A d \in {"up", "down"} :
            /\ Promised(d, fromTcp, fromDev)' = Promised(d, fromTcp, fromDev)
            /\ Promised(d, toDevice, toTcp)' = Promised(d, toDevice, toTcp)
      BY <2>1, <3>2 DEF Promised
    <3> QED  BY <3>1, <3>3 DEF RelayStep, R!RelayNext, R!Linger
  <2> QED  BY <2>2, <2>3
<1> QED  BY <1>1, <1>2

\* A handler takes n units from the client and gives m to the device.
LEMMA RelayMovesUp ==
    ASSUME Inv, Live, Live', cfg' = cfg, UNCHANGED <<fromDev, toTcp>>,
           NEW n \in 0 .. BufSize, NEW m \in Nat,
           fromTcp' = fromTcp + n, toDevice' = toDevice + m,
           UpSafe => /\ n > 0 => fromTcp = toDevice
                     /\ m <= fromTcp + n - toDevice
    PROVE  RelayStep
<1> DEFINE taken == [d \in {"up", "down"} |-> Promised(d, fromTcp, fromDev)]
           given == [d \in {"up", "down"} |-> Promised(d, toDevice, toTcp)]
<1>0. fromTcp \in Nat /\ toDevice \in Nat
  BY DEF Inv, DataTypes
<1>1. Phase = "open" /\ Phase' = "open"
  BY DEF Live, Phase
<1>2. (UpSafe <=> UpSafe') /\ (DownSafe <=> DownSafe')
  BY DEF UpSafe, DownSafe
<1>3. CASE ~UpSafe
  <2>1. \A d \in {"up", "down"} :
            /\ Promised(d, fromTcp, fromDev)' = Promised(d, fromTcp, fromDev)
            /\ Promised(d, toDevice, toTcp)' = Promised(d, toDevice, toTcp)
    BY <1>2, <1>3 DEF Promised
  <2> QED  BY <1>1, <2>1 DEF RelayStep, R!relayVars
<1>4. CASE UpSafe
  <2>1. /\ taken' = [taken EXCEPT !["up"] = @ + n] /\ taken["up"] = fromTcp
        /\ given' = [given EXCEPT !["up"] = @ + m] /\ given["up"] = toDevice
        /\ taken'["up"] = fromTcp + n
    BY <1>2, <1>4 DEF Promised
  <2>2. m \in 0 .. taken'["up"] - given["up"]
    BY <1>0, <1>4, <2>1
  <2>3. R!Move("up")
    BY <1>1, <1>4, <2>1, <2>2 DEF R!Move
  <2> QED  BY <2>3 DEF RelayStep, R!RelayNext
<1> QED  BY <1>3, <1>4

\* The same in the other direction.
LEMMA RelayMovesDown ==
    ASSUME Inv, Live, Live', cfg' = cfg, UNCHANGED <<fromTcp, toDevice>>,
           NEW n \in 0 .. BufSize, NEW m \in Nat,
           fromDev' = fromDev + n, toTcp' = toTcp + m,
           DownSafe => /\ n > 0 => fromDev = toTcp
                       /\ m <= fromDev + n - toTcp
    PROVE  RelayStep
<1> DEFINE taken == [d \in {"up", "down"} |-> Promised(d, fromTcp, fromDev)]
           given == [d \in {"up", "down"} |-> Promised(d, toDevice, toTcp)]
<1>0. fromDev \in Nat /\ toTcp \in Nat
  BY DEF Inv, DataTypes
<1>1. Phase = "open" /\ Phase' = "open"
  BY DEF Live, Phase
<1>2. (UpSafe <=> UpSafe') /\ (DownSafe <=> DownSafe')
  BY DEF UpSafe, DownSafe
<1>3. CASE ~DownSafe
  <2>1. \A d \in {"up", "down"} :
            /\ Promised(d, fromTcp, fromDev)' = Promised(d, fromTcp, fromDev)
            /\ Promised(d, toDevice, toTcp)' = Promised(d, toDevice, toTcp)
    BY <1>2, <1>3 DEF Promised
  <2> QED  BY <1>1, <2>1 DEF RelayStep, R!relayVars
<1>4. CASE DownSafe
  <2>1. /\ taken' = [taken EXCEPT !["down"] = @ + n] /\ taken["down"] = fromDev
        /\ given' = [given EXCEPT !["down"] = @ + m] /\ given["down"] = toTcp
        /\ taken'["down"] = fromDev + n
    BY <1>2, <1>4 DEF Promised
  <2>2. m \in 0 .. taken'["down"] - given["down"]
    BY <1>0, <1>4, <2>1
  <2>3. R!Move("down")
    BY <1>1, <1>4, <2>1, <2>2 DEF R!Move
  <2> QED  BY <2>3 DEF RelayStep, R!RelayNext
<1> QED  BY <1>3, <1>4

LEMMA RelaySteps == Inv /\ Inv' /\ SessionResources /\ [Next]_vars => RelayStep
<1> SUFFICES ASSUME Inv, Inv', SessionResources, [Next]_vars PROVE RelayStep
  OBVIOUS
<1> DEFINE Uncounted == UNCHANGED <<fromTcp, toDevice, fromDev, toTcp>>
<1>0. /\ tcp_to_dev \in 0 .. BufSize /\ dev_to_tcp \in 0 .. BufSize
      /\ fromTcp \in Nat /\ toDevice \in Nat /\ fromDev \in Nat /\ toTcp \in Nat
      /\ cfg' = cfg
      /\ Live' <=> tcp_to_dev_state' \in {"input", "output_clear"}
  BY ConfigStays DEF Inv, DataTypes, Live
<1>1. ASSUME Uncounted, tcp_to_dev_state' = tcp_to_dev_state \/ (Live /\ Live')
      PROVE  RelayStep
  BY <1>0, <1>1, RelayStutters DEF Phase, Live
<1>2. ASSUME tcp_to_dev_state # "unconnected", Shutdown(UNCHANGED dataVars)
      PROVE  RelayStep
  BY <1>2, RelayShutdown DEF dataVars
<1>3. CASE AcceptFails \/ setporttimeout \/ UNCHANGED vars
  BY <1>1, <1>3 DEF AcceptFails, setporttimeout, vars, dataVars, stateVars
<1>4. CASE setup_tcp_port
  <2>1. Phase = "idle" /\ Phase' = "open" /\ Uncounted
    BY <1>4 DEF setup_tcp_port, Phase
  <2>2. (UpSafe <=> UpSafe') /\ (DownSafe <=> DownSafe')
    BY <1>0 DEF UpSafe, DownSafe
  <2>3. \A d \in {"up", "down"} :
            /\ Promised(d, fromTcp, fromDev)' = Promised(d, fromTcp, fromDev)
            /\ Promised(d, toDevice, toTcp)' = Promised(d, toDevice, toTcp)
    BY <2>1, <2>2 DEF Promised
  <2> QED  BY <2>1, <2>3 DEF RelayStep, R!RelayNext, R!Open
<1>5. CASE handle_tcp_fd_read
  <2>1. Live /\ "tcpRead" \in watched
    BY <1>5, WatchedLive DEF handle_tcp_fd_read
  <2>2. CASE ShutdownAsIs
    BY <1>2, <2>1, <2>2 DEF ShutdownAsIs, Live
  <2>3. ASSUME NEW r \in Nat, TcpCommandsOnly(r) PROVE RelayStep
    BY <1>1, <2>3 DEF TcpCommandsOnly, stateVars
  <2>4. ASSUME NEW c \in 1 .. BufSize, NEW k \in 0 .. c, NEW r \in 0 .. c,
               NEW w \in 0 .. k, TcpDataToDevice(k, r, w)
        PROVE  RelayStep
    <3>1. Live' /\ UNCHANGED <<fromDev, toTcp>>
      BY <1>0, <2>1, <2>4 DEF TcpDataToDevice, Live
    <3>2. k \in 0 .. BufSize /\ w \in Nat /\ w <= k
      BY <2>4
    <3>3. fromTcp' = fromTcp + k /\ toDevice' = toDevice + w
      BY <2>4 DEF TcpDataToDevice
    <3>4. UpSafe => fromTcp = toDevice
      BY <1>0, <2>1 DEF Inv, UpGated, UpLossless
    <3> QED  BY <1>0, <2>1, <3>1, <3>2, <3>3, <3>4, RelayMovesUp
  <2> QED  BY <1>5, <2>2, <2>3, <2>4 DEF handle_tcp_fd_read
<1>6. CASE handle_dev_fd_write
  <2>1. Live
    BY <1>6 DEF handle_dev_fd_write, Inv, DataTypes, Handlers, Live, States
  <2>2. CASE ShutdownAsIs
    BY <1>2, <2>1, <2>2 DEF ShutdownAsIs, Live
  <2>3. CASE ~ShutdownAsIs
    <3>1. PICK w \in 0 .. tcp_to_dev :
            /\ toDevice' = toDevice + w
            /\ UNCHANGED <<fromTcp, fromDev, toTcp>>
            /\ tcp_to_dev_state' \in {"input", tcp_to_dev_state}
      BY <1>6, <2>3 DEF handle_dev_fd_write
    <3>2. Live' /\ w \in Nat /\ 0 \in 0 .. BufSize /\ fromTcp' = fromTcp + 0
      BY <1>0, <2>1, <3>1 DEF Live
    <3>3. UpSafe => w <= fromTcp + 0 - toDevice
      BY <1>0, <2>1, <3>1 DEF Inv, UpLossless
    <3> QED  BY <1>0, <2>1, <3>1, <3>2, <3>3, RelayMovesUp
  <2> QED  BY <2>2, <2>3
<1>7. CASE handle_dev_fd_devstr_write
  <2>1. Live
    BY <1>7 DEF handle_dev_fd_devstr_write, Inv, DataTypes, Handlers, Live, States
  <2>2. CASE Shutdown(UNCHANGED dataVars)
    BY <1>2, <2>1, <2>2 DEF Live
  <2>3. CASE ~Shutdown(UNCHANGED dataVars)
    <3>1. Uncounted /\ Live'
      BY <1>7, <2>1, <2>3 DEF handle_dev_fd_devstr_write, dataVars, Live
    <3> QED  BY <1>1, <2>1, <3>1
  <2> QED  BY <2>2, <2>3
<1>8. CASE handle_dev_fd_close_write
  <2>1. tcp_to_dev_state # "unconnected"
    BY <1>8 DEF handle_dev_fd_close_write, Inv, Handlers
  <2>2. CASE FinishShutdown
    <3>1. Phase # "idle" /\ Phase' = "idle"
      BY <2>1, <2>2 DEF FinishShutdown, Phase
    <3>2. \A d \in {"up", "down"} : /\ Promised(d, fromTcp, fromDev)' = 0
                                    /\ Promised(d, toDevice, toTcp)' = 0
      BY <2>2 DEF FinishShutdown, Promised
    <3> QED  BY <3>1, <3>2 DEF RelayStep, R!RelayNext, R!Close
  <2>3. CASE ~FinishShutdown
    BY <1>1, <1>8, <2>3 DEF handle_dev_fd_close_write, dataVars, stateVars
  <2> QED  BY <2>2, <2>3
<1>9. CASE handle_dev_fd_read
  <2>1. Live /\ "devRead" \in watched /\ cfg.enabled # "rawlp"
    BY <1>9, WatchedLive DEF handle_dev_fd_read
  <2>2. ASSUME NEW ACTION Keep, Shutdown(Keep), Keep => Uncounted
        PROVE  RelayStep
    BY <2>1, <2>2, RelayShutdown DEF Live
  <2>3. ASSUME NEW c \in 1 .. BufSize, NEW n \in 1 .. 2 * BufSize, DevReads(c, n),
               NEW w \in 0 .. n, fromDev' = fromDev + n, toTcp' = toTcp + w,
               UNCHANGED <<fromTcp, toDevice>>,
               tcp_to_dev_state' = tcp_to_dev_state
        PROVE  RelayStep
    <3>1. n \in 0 .. BufSize /\ w \in Nat /\ w <= n
      BY <2>3, SizesAssumption DEF DevReads
    <3>2. DownSafe => fromDev = toTcp
      BY <1>0, <2>1 DEF Inv, DownGated, DownLossless
    <3>3. Live'
      BY <1>0, <2>1, <2>3 DEF Live
    <3> QED  BY <1>0, <2>1, <2>3, <3>1, <3>2, <3>3, RelayMovesDown
  <2>4. ShutdownAsIs => RelayStep
    BY <2>2 DEF ShutdownAsIs, dataVars
  <2> QED  BY <1>9, <2>2, <2>3, <2>4 DEF handle_dev_fd_read
<1>10. CASE handle_tcp_fd_write
  <2>1. Live
    BY <1>10, WatchedLive DEF handle_tcp_fd_write
  <2>2. CASE ShutdownAsIs
    BY <1>2, <2>1, <2>2 DEF ShutdownAsIs, Live
  <2>3. CASE TcpCommandsLeft
    BY <1>1, <2>3 DEF TcpCommandsLeft, stateVars
  <2>4. ASSUME NEW w \in 0 .. dev_to_tcp, toTcp' = toTcp + w,
               TcpWritten(w = dev_to_tcp)
        PROVE  RelayStep
    <3>1. UNCHANGED <<fromTcp, toDevice, fromDev>> /\ Live'
      BY <1>0, <2>1, <2>4 DEF TcpWritten, Live
    <3>2. w \in Nat /\ 0 \in 0 .. BufSize /\ fromDev' = fromDev + 0
      BY <1>0, <2>4, <3>1, SizesAssumption
    <3>3. DownSafe => w <= fromDev + 0 - toTcp
      BY <1>0, <2>1, <2>4 DEF Inv, DownLossless
    <3> QED  BY <1>0, <2>1, <2>4, <3>1, <3>2, <3>3, RelayMovesDown
  <2> QED  BY <1>10, <2>2, <2>3, <2>4 DEF handle_tcp_fd_write
<1>11. CASE handle_tcp_fd_banner_write
  <2>1. Live
    BY <1>11, WatchedLive DEF handle_tcp_fd_banner_write
  <2>2. CASE Shutdown(UNCHANGED dataVars)
    BY <1>2, <2>1, <2>2 DEF Live
  <2>3. CASE ~Shutdown(UNCHANGED dataVars)
    BY <1>1, <1>11, <2>3 DEF handle_tcp_fd_banner_write, TcpCommandsLeft,
                             TcpWritten, stateVars
  <2> QED  BY <2>2, <2>3
<1>12. CASE FdException \/ disconnect_port
  BY <1>2, <1>12 DEF FdException, disconnect_port, ShutdownAsIs, Live
<1>13. CASE got_timeout
  <2>1. tcp_to_dev_state # "unconnected"
    BY <1>13 DEF got_timeout, SessionResources, Live
  <2>2. CASE ShutdownAsIs
    BY <1>2, <2>1, <2>2 DEF ShutdownAsIs
  <2>3. CASE ~ShutdownAsIs
    BY <1>1, <1>13, <2>3 DEF got_timeout, stateVars
  <2> QED  BY <2>2, <2>3
<1> QED
  BY <1>3, <1>4, <1>5, <1>6, <1>7, <1>8, <1>9, <1>10, <1>11, <1>12, <1>13 DEF Next

\* A session of a port is, in every direction its configuration keeps safe, a
\* relay that loses nothing, doubles nothing and takes nothing while it holds
\* something: every handler is a step of Relay or none.
THEOREM Implementation == Spec => ImplementsRelay
<1>1. Init => R!RelayInit
  <2> SUFFICES ASSUME Init PROVE R!RelayInit
    OBVIOUS
  <2>1. Phase = "idle"
    BY DEF Init, Phase
  <2>2. \A d \in {"up", "down"} : /\ Promised(d, fromTcp, fromDev) = 0
                                  /\ Promised(d, toDevice, toTcp) = 0
    BY DEF Init, Promised
  <2> QED  BY <2>1, <2>2 DEF R!RelayInit
<1>2. Inv /\ Inv' /\ SessionResources /\ [Next]_vars => [R!RelayNext]_(R!relayVars)
  BY RelaySteps DEF RelayStep
<1> QED  BY <1>1, <1>2, Invariance, PTL DEF Spec, ImplementsRelay, R!RelaySpec

=============================================================================
