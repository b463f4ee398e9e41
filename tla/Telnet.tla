------------------------------- MODULE Telnet -------------------------------
(***************************************************************************)
(* The byte streams of a telnet session (src/unixsocket/s2n291/telnet.c    *)
(* and the telnet parts of dataxfer.c).  The client mixes data, commands   *)
(* and options in one stream, which TCP cuts anywhere; the port takes it   *)
(* apart byte by byte.  The other way, the port doubles the IACs of the    *)
(* device's data and shares the socket between that data and its own       *)
(* commands, with writes that may be short.                                *)
(*                                                                         *)
(* Of the 256 bytes the code tells six kinds apart: "SE" (240), "SB"       *)
(* (250), "WILL" (251 to 254), "IAC" (255), "e", an option telnet_cmds     *)
(* lists without an option_handler (SUPPRESS-GO-AHEAD, ECHO and            *)
(* TRANSMIT-BINARY), and "a", any other.  As an option's name, "a" is      *)
(* COM-PORT, answered with its first argument, as SET-MODEMSTATE-MASK is;  *)
(* the port knows none of the options the client negotiates.  Which        *)
(* handlers are enabled is the subject of Ser2netPort, whose DownGated     *)
(* gives the guards here.                                                  *)
(***************************************************************************)
EXTENDS Naturals, Sequences, SequencesExt

CONSTANTS
    Messages,   \* what the client may send: [kind, what]
    DevBytes,   \* what the device may send
    BufSize,    \* PORT_BUFSIZE
    MaxCmd,     \* MAX_TELNET_CMD_SIZE
    MaxXmit,    \* MAX_TELNET_CMD_XMIT_BUF
    MaxUnits    \* bound: messages of the client and bytes of the device

Bytes == {"a", "e", "SE", "SB", "WILL", "IAC"}

Kinds == {"data", "command", "negotiation", "option", "misformed"}

\* A byte of data; a command of one byte; a negotiation and its option; or an
\* option's name, of one byte that is no IAC, and argument.
ASSUME MessagesAssumption ==
    \A m \in Messages :
        /\ m \in [kind : Kinds, what : Seq(Bytes)]
        /\ m.kind = "data" => Len(m.what) = 1
        /\ m.kind = "command" => \E x \in {"a", "e", "SE"} : m.what = <<x>>
        /\ m.kind = "negotiation" => \E x \in Bytes \ {"e"} : m.what = <<"WILL", x>>
        /\ m.kind \in {"option", "misformed"} =>
                m.what # <<>> /\ m.what[1] # "IAC"
ASSUME DevBytesAssumption == DevBytes \subseteq Bytes
ASSUME TelnetSizesAssumption ==
    /\ BufSize \in Nat /\ MaxCmd \in Nat /\ MaxXmit \in Nat
    /\ BufSize > 1 /\ MaxCmd > 3 /\ MaxXmit > 2 /\ MaxUnits \in Nat

VARIABLES
    sent,           \* history: the messages of the client
    up,             \* its bytes the port has not read
    telnet_cmd,     \* td->telnet_cmd, up to telnet_cmd_pos
    suboption_iac,
    got,            \* history: data and commands, as they reach the device
    fromDev,        \* history: bytes read from the device
    dev_to_tcp,     \* its data not yet written to the client
    out_telnet_cmd, \* the port's commands not yet written to the client
    down,           \* history: what was written to the client
    over,           \* the session was shut down, or the process ended
    crashed         \* history: it ended by calling a handler that is NULL

vars == <<sent, up, telnet_cmd, suboption_iac, got, fromDev, dev_to_tcp,
          out_telnet_cmd, down, over, crashed>>

Upto(s, n) == SubSeq(s, 1, IF n < Len(s) THEN n ELSE Len(s))

DoubleIACs(s) ==
    FlattenSeq([i \in DOMAIN s |->
                    IF s[i] = "IAC" THEN <<"IAC", "IAC">> ELSE <<s[i]>>])

\* How a client writes a message.  A misformed option has a stray IAC in it.
Encode(m) ==
    CASE m.kind = "data"   -> DoubleIACs(m.what)
      [] m.kind = "option" -> <<"IAC", "SB">> \o DoubleIACs(m.what)
                              \o <<"IAC", "SE">>
      [] m.kind = "misformed" -> <<"IAC", "SB">> \o DoubleIACs(m.what)
                                 \o <<"IAC", "a", "IAC", "SE">>
      [] OTHER             -> <<"IAC">> \o m.what

\* Bytes on their way to the client, each with its role (history): of a
\* command, first or second of a doubled IAC, or other data.
CommandBytes(s) == [i \in DOMAIN s |-> [byte |-> s[i], role |-> "command"]]
DataBytes(r) ==
    FlattenSeq([i \in DOMAIN r |->
        IF r[i] = "IAC" THEN <<[byte |-> "IAC", role |-> "first"],
                               [byte |-> "IAC", role |-> "second"]>>
                        ELSE <<[byte |-> r[i], role |-> "data"]>>])

\* telnet_init: the parser is at rest and the initial negotiation (four
\* commands like this one) waits to be written.
telnet_init_seq == <<"IAC", "WILL", "a">>

Init ==
    /\ sent = <<>> /\ up = <<>> /\ got = <<>>
    /\ telnet_cmd = <<>> /\ suboption_iac = FALSE
    /\ out_telnet_cmd = CommandBytes(telnet_init_seq)
    /\ fromDev = <<>> /\ dev_to_tcp = <<>> /\ down = <<>>
    /\ over = FALSE /\ crashed = FALSE

-----------------------------------------------------------------------------
(* process_telnet_data, on s = [cmd, iac, data, events, out, error]: what   *)
(* has been collected of a command, the data let through, the commands      *)
(* carried out, and the answers queued.                                     *)

\* telnet_cmd_send and telnet_send_option: all of it or an error.
telnet_cmd_send(s, cmd) ==
    IF Len(s.out) + Len(cmd) > MaxXmit THEN [s EXCEPT !.error = TRUE]
    ELSE [s EXCEPT !.out = @ \o CommandBytes(cmd)]

telnet_send_option(s, option) ==
    telnet_cmd_send(s, <<"IAC", "SB">> \o DoubleIACs(option) \o <<"IAC", "SE">>)

\* com_port_handler: an option without an argument is not answered.
com_port_handler(s, option) ==
    IF Len(option) < 2 THEN s ELSE telnet_send_option(s, SubSeq(option, 1, 2))

\* An option find_cmd does not find is ignored.  One it finds is handed to its
\* option_handler without a look whether there is one: see UpToNull.
handle_telnet_cmd(s, cmd) ==
    LET Done(kind, what) ==
            [s EXCEPT !.cmd = <<>>, !.iac = FALSE,
                      !.events = Append(@, [kind |-> kind, what |-> what])]
        what == SubSeq(cmd, 2, Len(cmd))
    IN  CASE cmd[2] = "WILL" ->
                telnet_cmd_send(Done("negotiation", what), <<"IAC", "WILL", "a">>)
          [] cmd[2] = "SB" /\ cmd[3] = "a" ->
                com_port_handler(Done("option", Tail(what)), Tail(what))
          [] cmd[2] = "SB" /\ cmd[3] # "a" -> Done("option", Tail(what))
          [] OTHER -> Done("command", what)

\* A byte of an option is stored; the last one received takes the last place
\* of the array, so that the end can be seen.
MutUnbounded(cmd, b) == Append(cmd, b)
Stored(cmd, b) == Append(Upto(cmd, MaxCmd), b)

\* After an IAC within an option: its end; or a doubled IAC, of which one is
\* kept; or neither, and both bytes are dropped.
MutBothDropped(s, b) ==
    IF b = "SE" THEN handle_telnet_cmd(s, Front(s.cmd))
    ELSE [s EXCEPT !.cmd = Front(@), !.iac = FALSE]
AfterIac(s, b) ==
    CASE b = "SE"  -> handle_telnet_cmd(s, Front(s.cmd))
      [] b = "IAC" -> [s EXCEPT !.iac = FALSE]
      [] OTHER     -> [s EXCEPT !.cmd = Front(@), !.iac = FALSE]

process_byte(s, b) ==
    LET pos == Len(s.cmd)
        cmd == Append(s.cmd, b)
    IN  CASE pos = 0 /\ b # "IAC" -> [s EXCEPT !.data = Append(@, b)]
          [] pos = 0 /\ b = "IAC" -> [s EXCEPT !.cmd = cmd, !.iac = FALSE]
          [] pos = 1 /\ b = "IAC" -> [s EXCEPT !.cmd = <<>>, !.data = Append(@, b)]
          [] pos = 1 /\ b \in {"a", "e", "SE"} -> handle_telnet_cmd(s, cmd)
          [] pos = 2 /\ s.cmd[2] # "SB"        -> handle_telnet_cmd(s, cmd)
          [] pos = 1 /\ b \in {"SB", "WILL"}   -> [s EXCEPT !.cmd = cmd]
          [] pos = 2 /\ s.cmd[2] = "SB"        -> [s EXCEPT !.cmd = cmd]
          [] pos > 2 /\ s.iac                  -> AfterIac(s, b)
          [] OTHER -> [s EXCEPT !.cmd = Stored(@, b), !.iac = (b = "IAC")]

\* Byte by byte: the state when i bytes of data have been taken apart.
Taken(s, data) ==
    LET after[i \in 0 .. Len(data)] ==
            IF i = 0 THEN s ELSE process_byte(after[i - 1], data[i])
    IN  after
process_telnet_data(s, data) == Taken(s, data)[Len(data)]

AtRest == [cmd |-> <<>>, iac |-> FALSE, data |-> <<>>, events |-> <<>>,
           out |-> <<>>, error |-> FALSE]

-----------------------------------------------------------------------------
(* The client and the handlers of the port.                                *)

Bounded == Len(sent) + Len(fromDev) < MaxUnits

ClientSends(m) ==
    /\ ~over /\ Bounded
    /\ sent' = Append(sent, m)
    /\ up' = up \o Encode(m)
    /\ UNCHANGED <<telnet_cmd, suboption_iac, got, fromDev, dev_to_tcp,
                   out_telnet_cmd, down, over, crashed>>

\* Commands take effect while the read is taken apart, its data is written
\* after that.
DataEvents(d) == [i \in DOMAIN d |-> [kind |-> "data", what |-> <<d[i]>>]]
Reaching(s) == s.events \o DataEvents(s.data)

\* An option telnet_cmds lists without an option_handler.
MutNoHandler(e) == e.kind = "option" /\ e.what[1] # "a"
NullHandler(e) == e.kind = "option" /\ e.what[1] = "e"

\* What was carried out when the call of such a handler ends the process.
UpToNull(events) ==
    LET i == CHOOSE j \in DOMAIN events :
                /\ NullHandler(events[j])
                /\ \A k \in 1 .. j - 1 : ~NullHandler(events[k])
    IN  SubSeq(events, 1, i)

\* n bytes are read.  When the answers do not fit the session is shut down,
\* with its data but not its commands dropped.
handle_tcp_fd_read(n) ==
    LET s == process_telnet_data(
                [AtRest EXCEPT !.cmd = telnet_cmd, !.iac = suboption_iac,
                               !.out = out_telnet_cmd],
                SubSeq(up, 1, n))
        null == \E i \in DOMAIN s.events : NullHandler(s.events[i])
    IN  /\ ~over /\ n <= Len(up)
        /\ up' = SubSeq(up, n + 1, Len(up))
        /\ telnet_cmd' = s.cmd /\ suboption_iac' = s.iac
        /\ out_telnet_cmd' = s.out
        /\ over' = (s.error \/ null) /\ crashed' = null
        /\ got' = got \o CASE null -> UpToNull(s.events)
                            [] s.error /\ ~null -> s.events
                            [] OTHER -> Reaching(s)
        /\ UNCHANGED <<sent, fromDev, dev_to_tcp, down>>

\* The device is read, into half a buffer, once nothing waits to be written.
\* A part of the data, or none, is written at once.
handle_dev_fd_read(r) ==
    /\ ~over /\ out_telnet_cmd = <<>> /\ dev_to_tcp = <<>>
    /\ Len(r) <= BufSize \div 2
    /\ Len(sent) + Len(fromDev) + Len(r) <= MaxUnits
    /\ fromDev' = fromDev \o r
    /\ \E w \in 0 .. Len(DataBytes(r)) :
            /\ down' = down \o SubSeq(DataBytes(r), 1, w)
            /\ dev_to_tcp' = SubSeq(DataBytes(r), w + 1, Len(DataBytes(r)))
    /\ UNCHANGED <<sent, up, telnet_cmd, suboption_iac, got, out_telnet_cmd,
                   over, crashed>>

\* tcp_fd_write: c bytes of commands are written, and d of data if that was
\* all of them.
MutNoReturn(c, d) == c <= Len(out_telnet_cmd) /\ d <= Len(dev_to_tcp)
Writes(c, d) ==
    \/ c < Len(out_telnet_cmd) /\ d = 0
    \/ c = Len(out_telnet_cmd) /\ d <= Len(dev_to_tcp)

handle_tcp_fd_write(c, d) ==
    /\ ~over /\ c + d > 0 /\ Writes(c, d)
    /\ down' = down \o SubSeq(out_telnet_cmd, 1, c) \o SubSeq(dev_to_tcp, 1, d)
    /\ out_telnet_cmd' = SubSeq(out_telnet_cmd, c + 1, Len(out_telnet_cmd))
    /\ dev_to_tcp' = SubSeq(dev_to_tcp, d + 1, Len(dev_to_tcp))
    /\ UNCHANGED <<sent, up, telnet_cmd, suboption_iac, got, fromDev, over,
                   crashed>>

Next ==
    \/ \E m \in Messages : ClientSends(m)
    \/ \E n \in 1 .. BufSize : handle_tcp_fd_read(n)
    \/ \E r \in UNION {[1 .. n -> DevBytes] : n \in 1 .. BufSize \div 2} :
            handle_dev_fd_read(r)
    \/ \E c \in 0 .. MaxXmit, d \in 0 .. BufSize : handle_tcp_fd_write(c, d)

Spec == Init /\ [][Next]_vars

-----------------------------------------------------------------------------
(* Properties.                                                             *)

Roles == {"command", "data", "first", "second"}
Outgoing == Seq([byte : Bytes, role : Roles])

\* Every variable has its type.  An option of any length fits telnet_cmd, an
\* array one longer than MaxCmd, doubled data fits the transfer buffer and the
\* answers fit theirs.
TypeOK ==
    /\ up \in Seq(Bytes) /\ fromDev \in Seq(Bytes)
    /\ telnet_cmd \in Seq(Bytes) /\ Len(telnet_cmd) <= MaxCmd + 1
    /\ dev_to_tcp \in Outgoing /\ Len(dev_to_tcp) <= BufSize
    /\ out_telnet_cmd \in Outgoing /\ Len(out_telnet_cmd) <= MaxXmit
    /\ down \in Outgoing
    /\ suboption_iac \in BOOLEAN /\ over \in BOOLEAN
    /\ crashed \in BOOLEAN

\* An option arrives with as many of its bytes as telnet_cmd holds, and without
\* its stray IAC and what follows that.
Kept(m) == IF m.kind \in {"option", "misformed"}
           THEN [kind |-> "option", what |-> Upto(m.what, MaxCmd - 2)] ELSE m
KeptOf(ms) == [i \in DOMAIN ms |-> Kept(ms[i])]
Meant == KeptOf(sent)

\* The members of s of the kinds K, in order, and how many of them are among
\* the first i members of s.
Data == {"data"}
Commanding == Kinds \ Data
OfKind(s, K) ==
    FlattenSeq([i \in DOMAIN s |-> IF s[i].kind \in K THEN <<s[i]>> ELSE <<>>])
CountOf(s, K, i) == Len(OfKind(SubSeq(s, 1, i), K))

\* The i-th thing the device gets is the data of the j-th message.
IsDataOf(i, j) ==
    /\ got[i].kind \in Data /\ Meant[j].kind \in Data
    /\ CountOf(got, Data, i) = CountOf(Meant, Data, j)

\* While the session lasts, however TCP cuts the client's stream, the device gets the data the client
\* meant and the commands it meant, each in order; and when everything is read
\* it has got them all and the parser is at rest.  A command may overtake data
\* sent before it, which waits while the read is taken apart; but none is late:
\* what the client sent after it finds it carried out.
UpExact ==
    ~over =>
    /\ IsPrefix(OfKind(got, Data), OfKind(Meant, Data))
    /\ IsPrefix(OfKind(got, Commanding), OfKind(Meant, Commanding))
    /\ up = <<>> => Len(got) = Len(sent) /\ telnet_cmd = <<>>
    /\ \A i \in DOMAIN got, j \in DOMAIN sent :
            IsDataOf(i, j) =>
                CountOf(got, Commanding, i) >= CountOf(Meant, Commanding, j)

\* Nothing else in what a client sends ends the process, wherever TCP cuts it: not
\* that byte among the arguments of an option, after a stray IAC, doubled IACs or
\* an option too long, not one telnet_cmds does not list, and nothing left in
\* telnet_cmd from before.
CrashOnlyUnhandled ==
    crashed => \E j \in DOMAIN sent :
                  sent[j].kind \in {"option", "misformed"} /\ sent[j].what[1] = "e"

\* What a telnet client takes from the port's bytes as data.
Reads == process_telnet_data(AtRest, [i \in DOMAIN down |-> down[i].byte]).data

\* A command was written between the two bytes of a doubled IAC.
Split == \E i \in DOMAIN down :
            down[i].role = "first" /\ i < Len(down) /\ down[i + 1].role # "second"

\* The client reads exactly what the device sent, whatever commands and short
\* writes come in between, unless one of the two came between a doubled IAC.
ClientReads ==
    ~Split => /\ IsPrefix(Reads, fromDev)
              /\ dev_to_tcp = <<>> => Reads = fromDev

-----------------------------------------------------------------------------
(* What a comment says, and the code does not do.                          *)

\* "Double the IACs on a telnet stream": so that the client reads them as data.
AllDataRead == IsPrefix(Reads, fromDev)

=============================================================================
