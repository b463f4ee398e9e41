------------------------------- MODULE ComPort -------------------------------
(***************************************************************************)
(* Remote control of the serial lines (src/unixsocket/s2n291/dataxfer.c,   *)
(* com_port_will and com_port_handler: RFC 2217) and the way a setting     *)
(* takes from there: from the client's request to the device, from the     *)
(* device into the answer and into ser2net's table gport_stat, from the    *)
(* table into an A0 frame (udp_a010), and from the frame into the table of *)
(* the status server (src/unixsocket/mrs2lib.c, udpa0).                    *)
(*                                                                         *)
(* A client asks by requests [what, value], or [what, on] with modem       *)
(* lines, and is answered in the same form.  A port is the number atoi     *)
(* makes of its name.  Left out: the signature, purging, suspending,       *)
(* linestate (the code keeps only a mask), bytes and checksums, and        *)
(* cisco_ios_baud_rates, which is off by default.                          *)
(***************************************************************************)
EXTENDS Naturals, Sequences

CONSTANTS
    Ports,       \* telnet ports, by number
    Settings,    \* those in use of the settings below; "stopsize" is
    Configured,  \* of each port: the settings its configuration line gives
    Allowed,     \* the ports with remctl (dinfo.allow_2217)
    ModemLines,  \* modem lines a device may have on
    Requests,    \* of each port: what its clients may ask for
    MaxXmit,     \* answers out_telnet_cmd has room for
    MaxRequests, \* bound: requests of all clients
    MaxSessions, \* bound: sessions of all ports
    MaxChanges   \* bound: changes of modem lines and calls that fail

VARIABLES
    open,       \* the ports with a session
    up,         \* of each port: requests the port has not read
    out,        \* answers its client has not read
    reading,    \* the port whose requests are being taken from a read, or None
    error,      \* tn_data.error
    is_2217,
    modemstate_mask,
    last_modemstate,
    dev,        \* the device: settings, flow control flags, break, DTR and RTS
    lines,      \* its modem lines
    gport_stat, \* ser2net's table: the settings of each slot
    frames,     \* A0 frames the status server has not read
    served,     \* the status server's table
    told,       \* history: the last answer each client has read on a subject
    notified,   \* history: the last modem state each client has read
    unreported, \* history: settings answered and in no frame the server took
    refused,    \* history: subjects on which the device kept its own value
    asked, begun, changed   \* counters for the bounds

vars == <<open, up, out, reading, error, is_2217, modemstate_mask,
          last_modemstate, dev, lines, gport_stat, frames, served, told,
          notified, unreported, refused, asked, begun, changed>>

None == 0       \* no port; no answer; an answer that says "unknown"
Slots == 0 .. 7

Rates == {50, 75, 110, 134, 150, 200, 300, 600, 1200, 1800, 2400, 4800, 9600,
          19200, 38400, 57600, 115200, 230400}

\* What a device takes of what is asked.
Valid(what) ==
    CASE what = "baud"     -> Rates
      [] what = "datasize" -> 5 .. 8
      [] what = "parity"   -> 1 .. 3
      [] what = "stopsize" -> 1 .. 2

ASSUME SettingsAssumption ==
    /\ Settings \subseteq {"baud", "datasize", "parity", "stopsize"}
    /\ "stopsize" \in Settings
ASSUME PortsAssumption == Ports \subseteq Nat \ {None} /\ Allowed \subseteq Ports
ASSUME ConfiguredAssumption ==
    /\ Configured \in [Ports -> [Settings -> Nat]]
    /\ \A p \in Ports : \A w \in Settings : Configured[p][w] \in Valid(w)
ASSUME ComPortBounds ==
    /\ MaxXmit \in Nat \ {0} /\ MaxRequests \in Nat
    /\ MaxSessions \in Nat /\ MaxChanges \in Nat

-----------------------------------------------------------------------------
(* The table.  Its entry comes from the port's number in two ways: as its   *)
(* last digit where a setting is stored, by name where a frame is sent.     *)

Slot(p) == (p % 10) % 8
myport2sn(p) == IF p \in 3000 .. 3007 THEN p - 3000 ELSE 0

\* A rate without a code of its own has that of 115200.
NamedRates == {300, 600, 1200, 2400, 4800, 9600, 19200, 38400, 115200}
Code(what, v) == IF what = "baud" /\ v \notin NamedRates THEN 115200 ELSE v

\* The table before any session: 300 baud, 5 bits, no parity, 0 stop bits.
Zeroes ==
    [w \in Settings |-> CASE w = "baud"     -> 300
                          [] w = "datasize" -> 5
                          [] w = "parity"   -> 1
                          [] OTHER          -> 0]

\* myinit_gd, which looks at no configuration.
Defaults ==
    [w \in Settings |-> CASE w = "baud"     -> 115200
                          [] w = "datasize" -> 8
                          [] OTHER          -> 1]

MutStored(p, what, v) ==
    [gport_stat EXCEPT ![myport2sn(p)][what] = Code(what, v)]
Stored(p, what, v) ==
    [gport_stat EXCEPT ![Slot(p)][what] = Code(what, v)]

-----------------------------------------------------------------------------
(* The device.                                                             *)

Outbound(flow) ==
    IF "CRTSCTS" \in flow THEN 3 ELSE IF "IXON" \in flow THEN 2 ELSE 1
Inbound(flow) ==
    IF "CRTSCTS" \in flow THEN 16 ELSE IF "IXOFF" \in flow THEN 15 ELSE 14

\* What device d would answer on each subject.
Subjects == Settings \cup {"outflow", "inflow", "break", "dtr", "rts"}
Reads(d, what) ==
    CASE what = "outflow" -> Outbound(d.flow)
      [] what = "inflow"  -> Inbound(d.flow)
      [] what = "break"   -> IF d.break THEN 5 ELSE 6
      [] what = "dtr"     -> IF "DTR" \in d.raised THEN 8 ELSE 9
      [] what = "rts"     -> IF "RTS" \in d.raised THEN 11 ELSE 12
      [] OTHER            -> d.set[what]

\* What a client may ask for.
Asks ==
    [what : Subjects \cup {"will", "wont"}, value : Nat]
        \cup [what : {"mask"}, on : SUBSET ModemLines]
ASSUME RequestsAssumption == \A p \in Ports : Requests[p] \subseteq Asks

Raise(d, line, up_) ==
    [d EXCEPT !.raised = IF up_ THEN @ \cup {line} ELSE @ \ {line}]

\* What request v makes of device d; any other value only asks.
Takes(d, what, v) ==
    CASE what \in Settings /\ v \in Valid(what) -> [d EXCEPT !.set[what] = v]
      [] what = "outflow" /\ v \in 1 .. 3 ->
            [d EXCEPT !.flow = CASE v = 1 -> {}
                                 [] v = 2 -> {"IXON", "IXOFF"}
                                 [] v = 3 -> {"CRTSCTS"}]
      [] what = "inflow" /\ v = 15        -> [d EXCEPT !.flow = @ \cup {"IXOFF"}]
      [] what = "break" /\ v \in {5, 6}   -> [d EXCEPT !.break = (v = 5)]
      [] what = "dtr" /\ v \in {8, 9}     -> Raise(d, "DTR", v = 8)
      [] what = "rts" /\ v \in {11, 12}   -> Raise(d, "RTS", v = 11)
      [] OTHER -> d

Fresh(p) == [set |-> Configured[p], flow |-> {}, break |-> FALSE,
             raised |-> {"DTR", "RTS"}]

-----------------------------------------------------------------------------

Init ==
    /\ open = {} /\ reading = None
    /\ up = [p \in Ports |-> <<>>] /\ out = [p \in Ports |-> <<>>]
    /\ error = [p \in Ports |-> FALSE] /\ is_2217 = [p \in Ports |-> FALSE]
    /\ modemstate_mask = [p \in Ports |-> {}]
    /\ last_modemstate = [p \in Ports |-> {}]
    /\ dev = [p \in Ports |-> Fresh(p)] /\ lines = [p \in Ports |-> {}]
    /\ gport_stat = [s \in Slots |-> Zeroes]
    /\ frames = <<>> /\ served = [s \in Slots |-> Defaults]
    /\ told = [p \in Ports |-> [w \in Subjects |-> None]]
    /\ notified = [p \in Ports |-> {}]
    /\ unreported = [p \in Ports |-> Settings]
    /\ refused = [p \in Ports |-> {}]
    /\ asked = 0 /\ begun = 0 /\ changed = 0

-----------------------------------------------------------------------------
(* The surroundings.                                                       *)

ClientSends(p, r) ==
    /\ p \in open /\ asked < MaxRequests
    /\ up' = [up EXCEPT ![p] = Append(@, r)]
    /\ asked' = asked + 1
    /\ UNCHANGED <<open, out, reading, error, is_2217, modemstate_mask,
                   last_modemstate, dev, lines, gport_stat, frames, served,
                   told, notified, unreported, refused, begun, changed>>

\* Answers are written and read in order.
ClientReceives(p) ==
    LET m == Head(out[p]) IN
    /\ p \in open /\ out[p] # <<>>
    /\ out' = [out EXCEPT ![p] = Tail(@)]
    /\ told' = IF m.what \in Subjects
               THEN [told EXCEPT ![p][m.what] = m.value] ELSE told
    /\ notified' = IF m.what = "modemstate"
                   THEN [notified EXCEPT ![p] = m.on] ELSE notified
    /\ UNCHANGED <<open, up, reading, error, is_2217, modemstate_mask,
                   last_modemstate, dev, lines, gport_stat, frames, served,
                   unreported, refused, asked, begun, changed>>

LinesChange(p, on) ==
    /\ p \in open /\ changed < MaxChanges /\ on # lines[p]
    /\ lines' = [lines EXCEPT ![p] = on]
    /\ changed' = changed + 1
    /\ UNCHANGED <<open, up, out, reading, error, is_2217, modemstate_mask,
                   last_modemstate, dev, gport_stat, frames, served, told,
                   notified, unreported, refused, asked, begun>>

-----------------------------------------------------------------------------
(* The session.                                                            *)

\* setup_tcp_port.  The table is reset before the device is opened, which may
\* fail.
setup_tcp_port(p, opens) ==
    /\ p \notin open /\ reading = None /\ begun < MaxSessions
    /\ begun' = begun + 1
    /\ gport_stat' = [gport_stat EXCEPT ![Slot(p)] = Defaults]
    /\ IF opens
       THEN /\ open' = open \cup {p}
            /\ dev' = [dev EXCEPT ![p] = Fresh(p)]
            /\ is_2217' = [is_2217 EXCEPT ![p] = FALSE]
            /\ error' = [error EXCEPT ![p] = FALSE]
            /\ unreported' = [unreported EXCEPT ![p] = Settings]
            /\ refused' = [refused EXCEPT ![p] = {}]
       ELSE UNCHANGED <<open, dev, is_2217, error, unreported, refused>>
    /\ UNCHANGED <<up, out, reading, modemstate_mask, last_modemstate, lines,
                   frames, served, told, notified, asked, changed>>

\* The session ends, with what is on its way to and from the client.
Over(p) ==
    /\ open' = open \ {p} /\ reading' = None
    /\ up' = [up EXCEPT ![p] = <<>>] /\ out' = [out EXCEPT ![p] = <<>>]
    /\ told' = [told EXCEPT ![p] = [w \in Subjects |-> None]]
    /\ notified' = [notified EXCEPT ![p] = {}]
    /\ UNCHANGED <<error, is_2217, modemstate_mask, last_modemstate, dev,
                   lines, gport_stat, frames, served, unreported, refused,
                   asked, begun, changed>>

shutdown_port(p) == p \in open /\ reading = None /\ Over(p)

\* telnet_send_option and telnet_cmd_send of one answer after the other: what
\* does not fit is an error, for the next read to notice.
Fits(q, n) == Len(q) + n <= MaxXmit
Send(p, ms) ==
    /\ out' = [out EXCEPT ![p] =
                    IF Fits(@, Len(ms)) THEN @ \o ms
                    ELSE @ \o SubSeq(ms, 1, MaxXmit - Len(@))]
    /\ error' = [error EXCEPT ![p] = @ \/ ~Fits(out[p], Len(ms))]

MutUnmasked(on, mask) == on
Masked(on, mask) == on \cap mask

Notification(on) == [what |-> "modemstate", on |-> on]
Simply(word) == [what |-> word, value |-> None]

\* com_port_will, and the answer of handle_telnet_cmd behind it.  When the
\* lines cannot be read, none is on.
com_port_will(p, answers) ==
    LET on == IF answers THEN lines[p] ELSE {} IN
    /\ IF p \in Allowed
       THEN /\ is_2217' = [is_2217 EXCEPT ![p] = TRUE]
            /\ modemstate_mask' = [modemstate_mask EXCEPT ![p] = ModemLines]
            /\ last_modemstate' = [last_modemstate EXCEPT ![p] = on]
            /\ Send(p, <<Notification(on), Simply("do")>>)
       ELSE /\ Send(p, <<Simply("dont")>>)
            /\ UNCHANGED <<is_2217, modemstate_mask, last_modemstate>>
    /\ UNCHANGED <<dev, gport_stat, frames, unreported, refused>>

\* WONT is confirmed and changes nothing: is_2217 stays.
Wont(p) ==
    /\ Send(p, <<Simply("dont")>>)
    /\ UNCHANGED <<is_2217, modemstate_mask, last_modemstate, dev, gport_stat,
                   frames, unreported, refused>>

SetMask(p, mask) ==
    /\ modemstate_mask' = [modemstate_mask EXCEPT ![p] = mask]
    /\ Send(p, <<[what |-> "mask", on |-> mask]>>)
    /\ UNCHANGED <<is_2217, last_modemstate, dev, gport_stat, frames, unreported,
                   refused>>

\* udp_a010, from the table as it is after the setting.
MutOldTable(p, table) == [slot |-> myport2sn(p), set |-> gport_stat[myport2sn(p)]]
udp_a010(p, table) == [slot |-> myport2sn(p), set |-> table[myport2sn(p)]]

\* Set through a termio, which is read first.  Of these only the rate is read
\* back: for the others the result of tcsetattr is not looked at and the termio
\* answers, with the value asked for.
InTermio == Settings \cup {"outflow", "inflow"}
Unverified == InTermio \ {"baud"}

\* The rest of com_port_handler: the device takes the value or keeps its own, in
\* spite of which what the code has seen is answered and stored; only a stop size
\* is reported.  A device that cannot be read answers for its break only, and
\* parity and stop size are stored as if they were the default.
MutEcho(d, what, v) == v
Answer(d, what, v) == Reads(d, what)
com_port_handler(p, what, v, answers, takes) ==
    LET wanted == Takes(dev[p], what, v)
        d      == IF takes /\ (what \in InTermio => answers) THEN wanted ELSE dev[p]
        seen   == IF answers /\ what \in Unverified THEN wanted ELSE d
        known  == answers \/ what = "break"
        stored == \/ answers /\ what \in Settings
                  \/ ~answers /\ what \in Settings \cap {"parity", "stopsize"}
    IN  /\ dev' = [dev EXCEPT ![p] = d]
        /\ Send(p, <<[what  |-> what,
                      value |-> IF known THEN Answer(seen, what, v) ELSE None]>>)
        /\ gport_stat' = IF stored
                         THEN Stored(p, what, IF answers THEN seen.set[what]
                                              ELSE Defaults[what])
                         ELSE gport_stat
        /\ frames' = IF what = "stopsize"
                     THEN Append(frames, udp_a010(p, gport_stat'))
                     ELSE frames
        /\ unreported' =
                [unreported EXCEPT ![p] = IF what = "stopsize" THEN {}
                                          ELSE @ \cup ({what} \cap Settings)]
        /\ refused' = [refused EXCEPT ![p] = IF d = wanted THEN @ \ {what}
                                             ELSE @ \cup {what}]
        /\ UNCHANGED <<is_2217, modemstate_mask, last_modemstate>>

\* One request of a read; the next ones of the same read follow before anything
\* else happens in ser2net.
handle_tcp_fd_read(p) ==
    /\ p \in open /\ reading \in {None, p} /\ up[p] # <<>>
    /\ reading' = p
    /\ up' = [up EXCEPT ![p] = Tail(@)]
    /\ \E answers \in BOOLEAN, takes \in BOOLEAN :
        LET r     == Head(up[p])
            fails == IF answers /\ takes THEN 0 ELSE 1
        IN
        /\ changed' = changed + fails /\ changed' <= MaxChanges
        /\ CASE r.what = "will" -> com_port_will(p, answers)
             [] r.what = "wont" -> Wont(p)
             [] r.what = "mask" -> SetMask(p, r.on)
             [] OTHER           -> com_port_handler(p, r.what, r.value, answers, takes)
    /\ UNCHANGED <<open, lines, served, told, notified, asked, begun>>

\* The end of the read: tn_data.error is looked at.
ReadEnds(p) ==
    /\ reading = p /\ p \in open
    /\ IF error[p] THEN Over(p)
       ELSE /\ reading' = None
            /\ UNCHANGED <<open, up, out, error, is_2217, modemstate_mask,
                           last_modemstate, dev, lines, gport_stat, frames,
                           served, told, notified, unreported, refused, asked,
                           begun, changed>>

\* Once a second.  Nothing is told that is not news; what does not fit is
\* remembered as told all the same.
got_timeout(p) ==
    LET on == Masked(lines[p], modemstate_mask[p]) IN
    /\ p \in open /\ reading = None
    /\ is_2217[p] /\ on # last_modemstate[p]
    /\ last_modemstate' = [last_modemstate EXCEPT ![p] = on]
    /\ Send(p, <<Notification(on)>>)
    /\ UNCHANGED <<open, up, reading, is_2217, modemstate_mask, dev, lines,
                   gport_stat, frames, served, told, notified, unreported,
                   refused, asked, begun, changed>>

-----------------------------------------------------------------------------
(* The status server, whose threads are the subject of Mrs2s.              *)

FramesUnchanged ==
    UNCHANGED <<open, up, out, reading, error, is_2217, modemstate_mask,
                last_modemstate, dev, lines, gport_stat, told, notified,
                refused, asked, begun, changed>>

udpa0 ==
    /\ frames # <<>>
    /\ frames' = Tail(frames)
    /\ served' = [served EXCEPT ![Head(frames).slot] = Head(frames).set]
    /\ UNCHANGED unreported
    /\ FramesUnchanged

\* Nobody listens: the server is changing threads.
FrameMissed ==
    /\ frames # <<>>
    /\ frames' = Tail(frames)
    /\ unreported' =
        [p \in Ports |->
            IF /\ myport2sn(p) = Head(frames).slot
               /\ \A i \in DOMAIN frames' : frames'[i].slot # Head(frames).slot
            THEN Settings ELSE unreported[p]]
    /\ UNCHANGED served
    /\ FramesUnchanged

Next ==
    \/ udpa0 \/ FrameMissed
    \/ \E p \in Ports :
        \/ \E r \in Requests[p] : ClientSends(p, r)
        \/ ClientReceives(p)
        \/ \E on \in SUBSET ModemLines : LinesChange(p, on)
        \/ \E opens \in BOOLEAN : setup_tcp_port(p, opens)
        \/ shutdown_port(p)
        \/ handle_tcp_fd_read(p) \/ ReadEnds(p)
        \/ got_timeout(p)

Spec == Init /\ [][Next]_vars

\* The select loop comes back to every descriptor and timer, and clients read
\* what they are sent; they need not ask for anything.
FairSpec ==
    /\ Spec
    /\ \A p \in Ports : /\ WF_vars(handle_tcp_fd_read(p)) /\ WF_vars(ReadEnds(p))
                        /\ WF_vars(got_timeout(p)) /\ WF_vars(ClientReceives(p))

-----------------------------------------------------------------------------
(* Properties.                                                             *)

Messages == [what : Subjects \cup {"do", "dont"}, value : Nat]
                \cup [what : {"modemstate", "mask"}, on : SUBSET ModemLines]
Tables == [Slots -> [Settings -> Nat]]

\* Every variable keeps its type; in particular telnet_cmd_send never puts more
\* answers into out_telnet_cmd than it has room for.
TypeOK ==
    /\ open \subseteq Ports /\ reading \in open \cup {None}
    /\ \A p \in Ports :
        /\ up[p] \in Seq(Requests[p])
        /\ out[p] \in Seq(Messages) /\ Len(out[p]) <= MaxXmit
        /\ modemstate_mask[p] \subseteq ModemLines
        /\ \A w \in Settings : dev[p].set[w] \in Valid(w)
    /\ error \in [Ports -> BOOLEAN] /\ is_2217 \in [Ports -> BOOLEAN]
    /\ gport_stat \in Tables /\ served \in Tables
    /\ \A i \in DOMAIN frames : frames[i].slot \in Slots

\* The last answer on a subject, whether the client has read it or not yet.
Told(p, w) ==
    LET on == {i \in DOMAIN out[p] : out[p][i].what = w} IN
    IF on = {} THEN told[p][w]
    ELSE out[p][CHOOSE i \in on : \A j \in on : j <= i].value

Alone(p) == \A q \in Ports \ {p} : Slot(q) # Slot(p)

\* What a client was last answered is what ser2net's table shows, unless another
\* port has the same entry, and what the device is set to: whatever the client
\* asked for, in whatever order, and whatever the device could not do in between.
\* The device may differ only where it refused the last value asked for of a
\* subject com_port_handler does not read back; its rate, break and modem lines
\* are what the answer says even then.  Not so for the inbound flow control, which
\* the outbound one changes with it.
SettingsAgree ==
    \A p \in open : \A w \in Subjects \ {"inflow"} :
        ~error[p] /\ Told(p, w) # None =>
            /\ w \notin refused[p] \cap Unverified => Told(p, w) = Reads(dev[p], w)
            /\ w \in Settings /\ Alone(p) =>
                gport_stat[Slot(p)][w] = Code(w, Told(p, w))

\* Once a client has been answered on every setting, on the stop size last, and
\* no frame about it is lost, the status server shows what the client was told,
\* and so what the device is set to unless it refused that, whatever the server
\* showed before: mysavestop calls udp_a010 when the table holds the answer.  For
\* the ports 3000 to 3007; the others report entry 0.
LastReport ==
    \A p \in open :
        /\ p \in 3000 .. 3007 /\ Alone(p) /\ ~error[p]
        /\ \A w \in Settings : Told(p, w) # None
        /\ unreported[p] = {} /\ frames = <<>>
        => \A w \in Settings :
                /\ served[Slot(p)][w] = Code(w, Told(p, w))
                /\ w \notin refused[p] \cap Unverified =>
                    served[Slot(p)][w] = Code(w, dev[p].set[w])

\* A client that has switched remote control on comes to know the modem lines
\* it asked for, whatever it did to the mask meanwhile and even if the device
\* did not answer at first (com_port_will, got_timeout), unless an answer did
\* not fit: got_timeout takes a notification that is dropped for told.
ModemFollows ==
    \A p \in Ports :
        <>[](p \in open /\ is_2217[p] /\ ~error[p])
            => <>[](notified[p] = lines[p] \cap modemstate_mask[p])
=============================================================================
