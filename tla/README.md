# A TLA+ model of the c8309 serial device server

`guguke/c8309` holds the software of a board (MPC8309/8308, some parts for the
MPC5121) that gives its serial ports to the network. Most of the 500 files are
vendor code: kernel and boot loader files with a few changed lines, device
trees, a web server, drivers for Windows. The program's own logic is small and
sits in a few C files; these modules model it, TLC checks them on small
instances, and TLAPS proves the most important invariants for every instance.

## 1. What the system is

| Component | Source | State | Operations |
|---|---|---|---|
| ser2net, the session of a port | `src/unixsocket/s2n291/dataxfer.c` | descriptors, two transfer buffers and their states, banner / open / close strings, telnet command buffer, enable bits and handlers in the selector, timer, counters, status | accept, six data handlers, errors, timer, `setporttimeout`, `disconnect`, shutdown |
| ser2net, the table of ports | the same | list of records, each with `enabled`, `acceptfd`, `config_num`, `new_config`; `gport_stat` | `portconfig`, `clear_old_port_config`, `setportenable`, accept, end of a session, `shutdown_ports` |
| ser2net, telnet | `src/unixsocket/s2n291/telnet.c`, parts of `dataxfer.c` | parser (`telnet_cmd`, `suboption_iac`), output buffer, option table shared by all sessions | `process_telnet_data`, `handle_telnet_cmd`, `telnet_cmd_send`, `telnet_send_option` |
| ser2net, remote control (RFC 2217) | `dataxfer.c:2983-3545` | `is_2217`, modem masks, the device's settings, the settings in `gport_stat` | `com_port_will`, `com_port_handler`, the modem lines in `got_timeout` |
| ser2net, frames on UDP | `dataxfer.c:255-768` | `gport_stat[8]` | `myChangeStat` sends all eight statuses, `udp_a010` a port's settings, to 127.255.255.255:9010 |
| mrs2s, the status server | `src/unixsocket/mrs2s.c`, `mrs2lib.c` | `new_fd`, `gUDPfd`, a copy of `gport_stat`, one thread per process | accept and fork on TCP port 13500, receive broadcasts, push them, answer requests, wait for dead processes in a signal handler |
| mrs, discovery | `src/broadcast/linux/mrs_v2.c` | where to send, two sockets, a lock, two threads, the boot script | announce and answer by multicast, change the IP address and reboot |
| netport, the Windows client | `src/m36/main36_2k.c` | `serverip`, `gNum`, `status_connect_8`, one `hub4com` process for each virtual port | find the box, connect the ports, follow a change of address, web pages that ask for one |
| keypad | `src/uinput/gpioinput.c`, `u5121/uinput5121.c`, `src/gpio6/gpio6.c` | the last three samples of six lines | sample on a timer, send key events |
| the rest | see `PROJECT.json`, "components" | - | test programs, vendored code, board support |

How they interact:

- ser2net is one thread around a select loop. A handler runs to its end before
  another one starts. What is not fixed is the order in which descriptors
  become readable, writable or faulty, how much a read or a write takes, and
  when the timer fires. `selector.c`, `buffer.h`, `controller.c` and
  `readconfig.c` are not in the repository; the models take them as
  `dataxfer.c` uses them.
- Whenever a session begins, moves its first data or ends, ser2net broadcasts
  the statuses; when a client sets a stop size, it broadcasts the port's
  settings. mrs2s, another program, receives a broadcast if one of its threads
  listens at that moment, and passes it on to its TCP clients.
- Reading the configuration again and the control port's commands change
  ports while sessions run on them.
- A client and a telnet port share one byte stream for data and commands in
  each direction, and TCP cuts it anywhere. Negotiation uses one table of flags
  for all ports and all sessions.
- mrs hears requests on 226.1.1.1:4321, announces the box on 226.1.1.2:4322 and
  kills ser2net when it changes the address. netport hears announcements,
  asks for them, asks for a change, and lets `hub4com` processes, one for each
  port, connect to ser2net at the address it heard.

What is hard here, and what makes each component correct:

- **Session.** Six handlers switch the same enable bits, and three kinds of
  output share one writer. Correct: nothing read is lost or doubled, nobody
  waits for ever with data in a buffer, what a session holds is given back
  once, the timer ends idle sessions only, the status tells the truth.
- **Table.** Configurations are set aside during sessions, records are
  replaced under descriptors, and starting a port may fail half way. Correct:
  a device has one client; a session keeps its settings; a descriptor has one
  holder; ports no longer configured go; nothing freed is used.
- **Telnet.** The parser keeps its place across reads, output is written in
  parts, sessions inherit each other's flags. Correct: each end reads the data
  and the commands the other one meant; every request is answered, and
  negotiation ends.
- **Remote control.** A setting exists four times: in the device, in the answer,
  in ser2net's table and in the status server's. Correct: the four agree, and a
  client that asked for the modem lines knows them.
- **Status server.** A thread and a main function share variables without a
  lock, the process forks while its thread may run, and a signal handler waits in the
  middle of either. Correct: a client comes to see every change; its process ends
  when it leaves, and somebody waits for it; one thread of a process receives.
- **Discovery.** Two threads share a socket, a lock and where to send; the box
  changes its address and restarts in the middle. Correct: what is sent carries
  the address the box has; whoever asks is answered; the box stays visible;
  it comes up with the address asked for.
- **Windows client.** It is killed and started again while the processes it has
  started live on; announcements are lost, late and out of order. Correct: all
  ports are connected to the address it shows, and it comes to show the right one.
- **Keypad.** A line bounces between the samples that are to hide it, and a key's
  events are made from changes, not from what was last reported. Correct: a key is
  taken to be down exactly if its line was last seen low twice running.

## 2. The modules

| Module | What it is |
|---|---|
| `Relay` | abstract specification of a session: what is taken from one end is given to the other, at most one buffer is held |
| `Ser2netPort` | one port and its sessions; implements `Relay` (`R == INSTANCE Relay WITH ...`) |
| `Ser2netPortProofs` | proofs about `Ser2netPort`, of the implementation of `Relay` too |
| `Ser2netPorts`, `Ser2netPortsProofs` | the table of ports, with descriptor numbers, and its proofs |
| `Telnet`, `TelnetProofs` | the byte streams of a telnet session |
| `TelnetOptions`, `TelnetOptionsProofs` | negotiation of options, several sessions with one table |
| `ComPort`, `ComPortProofs` | remote control, from the request to the status server's table |
| `Mrs2s`, `Mrs2sProofs` | the status server |
| `Box` | abstract specification of a box as the network sees it |
| `Mrs` | the two threads of mrs; implements `Box` (`TheBox == INSTANCE Box`) |
| `Netport`, `NetportProofs` | the Windows client, composed with `Box` |
| `Keypad` | the keypad's lines, samples and key events |
| `BoardProofs` | proofs about `Mrs` and `Keypad`; that it can extend both, names of `Keypad` that every module has begin with `Keypad` |
| `MC...` | the instances for TLC |

`Ser2netPort` is what a session is inside; in `Ser2netPorts` a session is only
"open", "closing" or "unconnected" and `Ser2netPort`'s shutdowns are the one
action `shutdown_port`. `Telnet` has the contents of the streams whose flow
`Ser2netPort` controls: the guards of its handlers are what `DownGated` says.
`TelnetOptions` and `ComPort` take whole commands, which `Telnet` shows to come
out of the stream as they were meant. `Mrs2s` starts where `udp_af20` of ser2net
sends, `ComPort` ends where its thread has copied an A0 frame. `Netport` extends
`Box`: its steps are the program's, beside `Box`'s own, and what it needs of a box
(announcements carry its address, and go on for ever) is what `Mrs` is shown to do.

Definitions have the names of the functions they translate. One handler is one
action, with everything it calls; what several handlers call is an operator
(`shutdown_port` is `Shutdown` in `Ser2netPort`). A name
that starts with `Mut` is a plausible bug of the definition after it: the
mutants in `PROJECT.json` put it in that definition's place and show that the
property notices.

### Ser2netPort

Data is counted: a buffer is its `cursize`, a string its remaining length, 0
for a NULL pointer. A read or a write gives an error, the end of file, or any
count the call may return (`\E w \in 0 .. n`). `watched`, `tcpHandler` and
`devHandler` are the selector's enable bits and handlers. The four history
variables count what a session took from each end and gave to the other. The
handlers of the open string and the banner look at their string again after a
write error has ended the session and freed it; the model's `crashed` is that
use of a freed or NULL pointer, after which nothing happens any more.

### Ser2netPorts

`port` is the list as a partial function of the TCP port names, `fds` the
process's open descriptors: what each is, whose it is, and for whose record the
selector calls its handler. The kernel hands out the lowest free number. This
matters because the code keeps numbers of closed sockets in some failures: when
such a number is closed again it may be another port's. `strays` is a history
variable: it becomes 1 when a record's accept socket first disagrees with the
descriptor table, or a record that is off holds an accept socket, and then
counts what the operator does. `OneHolder` is about the time before, while the
process lives; the run `disabled_accepting` shows how it comes to the other.

`AcceptFails` has the three ends of an accept that fails: nothing was accepted;
the client's socket could be neither set up nor kept (before or after `myinit_gd`
clears the status); or `SO_KEEPALIVE` could not be set, and the number of the closed
socket stays in `tcpfd` of a port that is free (`dataxfer.c:1951-1958`). The next
session overwrites that number; only the program's end closes it, when it may be
another port's, and then the step counts as a stray.

Three steps use what has been freed, and may end the process (`crashed`): a handler of
a session that goes on after it has called `shutdown_port` (`HandlerUsesFreed`; when
exactly is in `Ser2netPort`), the accept handler of a record that was freed, and
`shutdown_ports`, which reads the link to the next port out of the record that
`shutdown_port` may just have freed, and frees a close string twice. Where the freed
memory may still be readable the model has both outcomes.

### Telnet

Of the 256 byte values the code tells five kinds apart, and so does the model.
`up` is what the client wrote and the port has not read; `got` what came out of
it, data and commands in the order they take effect; `down` what was written to
the client, each byte with its role (history), so that properties can speak of
parts of commands and of the two bytes of a doubled IAC. `handle_telnet_cmd` calls the
`option_handler` of a command without a look whether there is one, and the table has
none for `SGA`, `ECHO` and `BINARY`: an option of one of these, `e` in the model, ends
the process (`crashed`) in the middle of the read. What the client makes
of `down` is computed with the same parser, since its rules for data and
commands are those of RFC 854 for both ends.

### TelnetOptions

An option has two sides: what the port does (`WILL`/`WONT` of the port, `DO`/`DONT`
of the client) and what the client does. The flags `sent_will` and `sent_do` of the
static table are `sent`; they are set in the table's initialiser, cleared by
whichever session receives an answer, and never set again. Clients follow
RFC 1143: they answer what changes their state, and may ask for a change of
what is settled. `rem_will` and `rem_do` are left out, since nothing reads them.

### ComPort

Each request of a read is a step; nothing else happens in ser2net until the read
ends, where an overflow of the command buffer is noticed. `dev` is the device as
`tcgetattr` shows it; a call that reads it may fail, and so may the one that sets
it: the device keeps its own value of anything, and `refused` (history) holds the
subjects whose last request it did not follow. Only the rate, the break and the
modem lines are read back; data size, parity, stop size and flow control are
answered and stored as asked for (`Unverified`). `Slot` and `myport2sn` are the
two ways the code makes an entry of the table out of a port. `served` is the
status server's table; a frame may be missed, as `Mrs2s` shows in detail. `told`,
`notified` and `unreported` are history: what the client has read, and which
settings no report has carried since they were answered.

### Mrs2s

Every access to the shared variables `new_fd`, `gUDPfd` and `gport_stat` is a
step of its own, of the main function or of a thread. A cancelled thread may
still run: it is certain to end in `recvfrom` and `send`, perhaps in a `printf`
before the statuses are copied, and nowhere else (but in the handler's `wait`).

The handler of `SIGCHLD` waits for processes until there are none left, without
`WNOHANG`: one client that leaves makes it wait until all others have left too. The
kernel gives the signal to the main function; if that is in the handler already, where
the signal is blocked for it, to a thread. `reaping` are those in the handler, who
do nothing else: the main function accepts nobody and a thread receives nothing. The
handler's `printf` is left out. A status is
the number of the broadcast it comes from, which makes the copy of an older
broadcast visible.

### Box and Mrs

`Box` has four variables: the address, the datagrams on their way, the requests it was
sent, and the calls of its kernel that have failed. It announces itself, replies to a
`getip` that is whole, changes its address to one a whole `changeip` asked for. What it
sends carries its address or, once a call has failed, the value `Stack`: `getIP` fills a
buffer on the stack, and `ms_ser2net` does not look at its result (`mrs_v2.c:296`).
`Mrs` has a program counter for each thread, since the order matters in which the two of
them set `sdmsOpen`, make the socket, put a message together, take the lock and send. A
call of the kernel may fail at each place where the code looks at its result; two of
these make the thread loop for ever (`spin`), with the lock held, which is what the code
does. A restart of the machine resets everything but the script and the network.

### Netport

A `hub4com` process is the address it was started with; a process that finds its port
taken changes nothing, so that a port has at most one. `connect8` and `disconnect8` are
a step for each port, since the program may be killed or may quit between two of them;
`Ends` is a crash at any moment, `my_init` the restart beside what has been left
running. `mcRcvThread` first sets up its socket (`rleafOpens`) and may end there, after
an error of `recvfrom` or at the word `quitmongoosetest` (`rleafEnds`); nothing starts
it again before the program starts again, and it is "gone". Two facts about Windows are
assumed, and named at the module's head: `taskkill` has done its work within the second
the code sleeps, and a `hub4com` has read its file before the next round.

### Keypad

`foo` is the handler of the timer's signal; lines change at any time between two
samples. `key1` sees three samples of a line and reports two low ones after a high
one, two high ones after a low one. `released` and `twice` are history: the
keys seen high so far, and the level each line last had in two samples running. The
kernel drops an event that does not change a key's state, which `key1` relies on.

## 3. The runs

| Run | Config | Bounds | Shows |
|---|---|---|---|
| `port` | `MCSer2netPort.cfg` | every mode with every combination of strings, `BufSize` 2, `CmdSize` 2, `MaxBytes` 2, timeouts 0 and 1 | six safety properties of a session, that it implements `Relay`, delivery, the timer and the end of a shutdown |
| `ports` | `MCSer2netPorts.cfg` | two ports of one device, a line that moves one of them and switches it off, six descriptors, `MaxStrays` 1 | who holds which device, descriptor, configuration and status |
| `telnet` | `MCTelnet.cfg` | three messages or device bytes in all, of eleven kinds of messages, `MaxCmd` 4, `MaxXmit` 10 | both ends read what was meant |
| `telnet_options` | `MCTelnetOptions.cfg` | two sessions at once, three in all, the options `ECHO` and `COM_PORT`, two requests | every client is answered, and negotiation ends |
| `com_port` | `MCComPort.cfg` | ports 3000 and 4002, two settings, room for two answers, three requests, two sessions, one change of lines or failing call | answer, device, table and status server agree; modem lines are told |
| `mrs2s` | `MCMrs2s.cfg` | three clients, two broadcasts, two statuses; the first two clients have gone, or are being served and nothing more is broadcast | what a client's process holds and sends, and its end; the handler of `SIGCHLD`: who receives meanwhile, which processes end, and that all are waited for |
| `mrs` | `MCMrs.cfg` | a `getip` and a `changeip`, each whole and not, one failing call | the two threads implement `Box`, answer, stay visible and change the address |
| `netport` | `MCNetport.cfg` | two addresses, one of them the default, two ports, two starts, two changes, one failing call, `MaxTries` 1 | connections follow the address shown, and that follows the box |
| `keypad` | `MCKeypad.cfg` | two keys; samples and bounces without a bound | key events follow the lines |
| `data_lost` | `FindDataLost.cfg` | raw with banner and open string | **violated**: a raw port with a banner or an open string drops data |
| `disabled_accepting` | `FindDisabled.cfg` | as `ports` | **violated**: a port that is off takes clients |
| `telnet_split` | `FindSplit.cfg` | as `telnet` | **violated**: a command within a doubled IAC |

Why the bounds are enough:

- `BufSize` 2 is the least with a short write that leaves something and a telnet half
  buffer of one byte whose doubling fills it. `CmdSize` 2 lets one command wait and one
  more overflow the buffer. `MaxBytes` bounds what a session reads in each direction;
  with 2 a buffer is filled and written in parts, or filled twice with a unit that could
  not be written before. The strings have one unit, the close string two, so that it can
  be cut short. None of these bounds is in the theorems.
- Two ports are enough for one to take what is the other's, and for a device in
  common; six descriptors are two for listening and two for each session, and
  none is left over. The lines are a port that can take the other's device, its
  change to another device and "off", and the other port. Each port has its own
  status slot; the second half of `StatFollows` promises nothing for shared ones.
  `MaxStrays` 1 allows one more act of the operator after a record strayed: the
  run goes on long enough for the stray number to be closed under its new owner.
- In `telnet`, three messages put a command before, between and behind data; the
  options are empty, misformed, hold an IAC and overflow `telnet_cmd`; a read
  takes up to 4 bytes of the stream, so every cut of every message occurs.
- In `telnet_options`, `ECHO` is the option whose flags in the table disagree with
  the opening sequence, and `COM_PORT` the one that is answered differently for
  different ports. A third session begins after two others have used the flags up.
- In `com_port`, 57600 is a rate without a code of its own, stop size 3 only asks,
  4002 reports under the entry of port 3000 but stores under its own, and has no
  remote control. Switching it on sends two answers at once, so that a third
  overflows the buffer by one of them.
- In `mrs2s`, one client is enough for two generations of the parent's threads and
  the child's; the second broadcast is the one an old thread's copy can hide. For
  the handler three are needed: one whose process ends, one that stays and makes it
  wait, and one that has been accepted and not forked for. From `Init`, three clients
  are too many for TLC, so `MCMrs2s` starts from two states the server comes to: both
  others have gone, and the third client and the broadcasts are to come; or both are
  being served, one of them has just left, and all broadcasts have been made (the parent
  was between two sockets and has missed them).
- In `mrs`, one failure reaches each of the places where a call may fail; the
  third address is that of the `changeip` which is not whole.
- In `netport`, a second port lets a switch be cut in the middle, the second start
  finds what the first one left, and two changes take the box away from an address
  and back, so that an old announcement names an address twice valid. One failure
  of the box's kernel lets it announce `Stack`, and the program connect to that. One
  request is enough for `mcGetipThread` to begin, ask and give up.
- The keys of the keypad do not depend on each other; two show that none takes
  another one's samples.

`CHECK_DEADLOCK FALSE` is in every config but `MCNetport.cfg` and `MCKeypad.cfg`, since
the other models may really stop: a crashed or exiting program, streams or sessions
that have used up their bound, a server whose client has left, threads that loop around
a failed call. The Windows client can always be asked for another search, and the
keypad's timer goes on.

### Fairness

- `FairSpec` of `Ser2netPort`: the timer fires while it is set (weak fairness of
  `got_timeout`, the select loop calls due timers); client and device take, again
  and again, some of what waits for them (`TcpDrains` and `DeviceDrains`, which are
  assumptions on the two ends and not on the code).
- `FairSpec` of `Ser2netPorts`: devices take close strings.
- `FairSpec` of `TelnetOptions`: both ends read what they are sent. `FairSpec` of
  `ComPort`: the select loop comes back to every descriptor and timer, and clients
  read; nobody has to ask for anything.
- `FairSpec` of `Mrs2s`: the kernel schedules the main function of every process,
  its threads (some thread that can go on) and the handler. A main function or a
  thread in the handler can do nothing, so that the fairness of the parent's main
  function promises nothing while `wait` holds it. No fairness on clients and on
  ser2net: nobody has to connect, ask or leave.
- `FairSpec` of `Mrs`: threads run (weak fairness), and a thread gets the lock if it
  is free again and again (strong fairness): `thread_send` sleeps seven seconds
  after it has let go of the lock, so that the other one cannot miss it. No
  fairness on the network.
- `FairSpec` of `Netport`: the program's own threads run; the box announces itself
  for ever, which is `StaysVisible` of `Mrs`; of announcements that keep coming, one
  gets through (strong fairness of `rleaf`) to an `mcRcvThread` that still reads: one
  that has ended takes none, and the fairness promises nothing. Nobody has to quit,
  start, ask or fail.
- `KeypadFairSpec` of `Keypad`: the interval timer goes on. Lines need not bounce.

Some liveness properties state what they need of the environment themselves:
`IdleSessionEnds` that no more I/O happens (`NoMoreIO`), `ShutdownCompletes`
that the operator does not restart the close string for ever, `PushArrives` that
the client stays, `ModemFollows` that the session does, with remote control on,
`Follows` that the box keeps its address, the program runs, `mcRcvThread` has not
ended and no datagram carries `Stack` for ever, `StaysVisible` that the sending socket
could be set up, `ChildEnds` that the client is not accepted behind a handler that
waits for clients who stay (`Blocked`).

## 4. What the runs found

The three violated properties quote what the repository says of itself; see
"findings" in `PROJECT.json`. In short:

1. `tcp_fd_write` and `dev_fd_write` end a banner or an open string by turning a
   reader on and the writer off, even when the transfer buffer holds data that a
   short write has left there. `UpSafe` and `DownSafe` name the configurations
   for which this cannot happen, and the theorems hold for exactly those.
2. A configuration set aside is enabled without a look at its `enabled` field.
3. Telnet commands go before the data that waits, also between two bytes that
   belong together.

Modelling brought up more that a reader of the code should know. The models have
it, in their actions and in what their properties leave out:

- ser2net: a status stays at "no data" when the first write of the first data would
  block. A session that times out stops its timer and then waits for a device which flow
  control may hold for ever. The number of a client's socket stays in an idle port when
  keep-alive could not be set, and is closed at the program's end whosever it is.
  `shutdown_ports` follows a link in a freed record. A second configuration set aside in
  one session marks the wrong record: `portconfig` sets `curr->enabled` to
  `PORT_DISABLED` where it means the record it frees next (`dataxfer.c:2418`), so that a
  telnet session goes on as a raw one; the comment says "Mark it to be replaced later".
  `tcp_fd_write` leaves its delayed writes out of `tcp_bytes_sent` (`dataxfer.c:1095`).
  Doubling the IACs copies one byte past a full half buffer (`dataxfer.c:824`).
- Telnet: a client's option of `SGA`, `ECHO` or `BINARY` ends ser2net, since these
  commands have no `option_handler` (`telnet.c:61`, `dataxfer.c:247-249`).
- Negotiation: the table says that `DO ECHO` has been sent, while the opening
  sequence sends `DONT ECHO`; the first client that offers to echo is never
  answered, and `Answered` leaves that side of `ECHO` out.
- Remote control: the table starts at 115200 8N1 whatever is configured. Only a stop
  size makes ser2net report. Rates without a code, 57600 among them, are shown as
  115200. Data size, parity, stop size and flow control are answered and stored as asked
  for, also when the device refused them (`dataxfer.c:3243-3366`). `WONT` leaves
  `is_2217` on. Settings are taken without remote control being allowed or switched on.
  The error of an answer that did not fit is noticed at the client's next read, and a
  notification that did not fit counts as told. The notification goes out before the
  `DO`. A port outside 3000 to 3007 reports entry 0.
- mrs2s: a thread is joined only when it could not be created. The handler of
  `SIGCHLD` waits for living processes (`mrs2s.c:211`): after one client has left, a
  new one is served only when all others have left, or by luck of the signal.
- mrs: when `getIP` fails, the box announces what is on the stack, and asks the kernel
  to send from there. A failed socket call leaves the lock held and the other thread
  waiting for ever. A script that cannot be written leaves ser2net killed and the box
  announcing. `changeip` is multicast: every box that hears it takes the address.
- netport: `connect8` starts at port 1, so that the box's port 3000 is never
  connected. A program that quits while `mcRcvThread` is in `connect8` leaves
  processes behind. Two boxes make it switch for ever. A failing set-up of the
  receiving socket ends `mcRcvThread` for good.
- keypad: the samples 1 0 0 1 0 0 make two presses without a release between them; the
  kernel drops the second one. `keyevent` writes `EV_SYN` before the key event, not
  after it. A key that is held when the program starts is reported only once it has
  been released and pressed again.

## 5. What is proved

The theorems of the eight proof modules hold for every value of the constants: any set of
configuration lines, sizes, number of ports, devices and descriptors; any options,
settings and requests; any set of addresses, any number of clients, broadcasts,
failing calls, starts, virtual ports and keys. Where a section names no assumptions,
they are those of the component's module: the types of its constants.

**`Ser2netPortProofs`**: every safety property of the run `port`. `TypeOK`,
`UpGated`, `DownGated`, `Lossless`, `SessionResources`, `NeverDuplicated`, `StatHonest`
and `CrashOnlyInStrings` are invariants of `Spec`, and `Spec` implements `Relay`.
Assumptions: the three of `Ser2netPort`, that lines have their fields' types,
timeouts are natural numbers, and the two buffer sizes are at least 1
(`PORT_BUFSIZE` is 64).

None of these is inductive by itself. That no data is lost needs that a reader
is off while its buffer is in use (the gating); the gating needs to know which
handlers can run: no banner handler without a banner, no reader of a telnet
device before the banner is written, nothing but the close handler while the
port closes. `Inv` is the conjunction with these three parts (`Handlers`,
`BannerFirst`, `Blank`). `SessionResources` comes after it, since it uses `Inv`
to know that a handler runs in a session, and `Inv` uses it for the timer; the
two are proved together. The Boolean half of `TypeOK` is inductive alone and is
separate. There is a lemma for every action, and one for each of the parts that
actions share: `ShutdownInv`, `FinishInv`, `QueueInv`, `WrittenInv`.

`Implementation` maps every handler to a step of the relay. A handler that takes
something is the relay's taking only if nothing was held before, which the
relay sees as "taken equals given": this is `Lossless` with the gating, for the
states before the step. What is left is a case for each way the counts can
change: not at all (`RelayStutters`), to nothing (`RelayShutdown`), in one direction
(`RelayMovesUp`, `RelayMovesDown`); and that a live session keeps its configuration.

**`Ser2netPortsProofs`**: every safety property of the run `ports`, `DeviceExclusive`,
`GoneUnlessBusy`, `StatFollows`, `OneHolder` and the action property
`SessionKeepsDevice`, and `TypeOK` and `SessionFds`. Assumptions: the types of lines and
slots, "off" is a state, descriptors are natural numbers, and the two words that `calls`
uses beside names of ports are no names. `Inv` adds `Waiting` (only a session keeps a
configuration set aside), `Settled` (between readings no record is left from before) and
`StatFollows` in two halves. `DeviceExclusive` rests on two facts: an accept looks at
every connected port, closing ones included, and no step but the end of a session
changes the device of a connected port. That the lowest free descriptor exists for any
set of numbers is `LeastNumber`, from the well-foundedness of `<`.

`OneHolder` relates the table of descriptors to the fields of all records, and both
change by calls that can fail half-way. `Linked` strengthens it: as long as no record
strays, each record is in step with the table (`Mine`): its accept socket is there
unless it is off, a client's socket and a device call its own handlers, only an open
session has a client, and every descriptor of the port is in one of its fields. A
step is followed through the operators it is made of (`Opened`, `Closed`, `Freed`),
of which each port but the one concerned sees nothing (`ButForOpened`, `ButForClosed`,
`FreedButFor`, `LinkStep`), and `Remember` counts a record that is out of step
at the end of the step as strayed (`NotStrayed`), so that a step with `strays' = 0`
leaves all of them in step. A number left in the `tcpfd` of an unconnected port is in
nobody's way until the program's end: no step but `shutdown_ports` closes it, and that
one counts it (`StaleSocket`). A crash excuses everything, so that the theorem says
nothing of what a process that used freed memory did; it does not say that there is no
crash. `SessionKeepsDevice` follows from what reading a configuration may do to a
record in use: set one aside, or leave it. It may also switch the record off (`SetAside`),
and of the `enabled` field the theorem says nothing.

**`TelnetProofs`**: `TypeOK`, `ClientReads`, `UpExact` and `CrashOnlyUnhandled`, for
streams of any length cut in any way. Assumptions: a message is a byte of data, a
command of one byte, a negotiation or an option with a name and any argument,
well-formed or not; half a buffer holds at least a byte, and `telnet_cmd` and
`out_telnet_cmd` hold the longest command that is no option. The library's induction
theorems take an operator as a parameter and cannot be used, so the module has its own
for sets: a set of numbers that holds 0 and successors holds all up to n (`Upwards`,
from the well-foundedness of `<`), and a set of sequences that holds the empty one and
longer ones by one byte holds all (`ByAppending`). With them what `process_telnet_data`
computes is a matter of single bytes:

- `Where` is the place the parser is at (data, after an IAC, in the name or the argument
  of an option, ...), `Then` the automaton on places, and `ByteProcessed` says that a byte
  takes the parser from `Where` to `Then`, lets the byte through or not, keeps
  `telnet_cmd` within its array and queues at most one answer.
- `ProcessConcat`: taking `v` and then `w` apart is taking `v \o w` apart. It is what makes
  the cuts of TCP irrelevant.
- `ProcessAlike`: the data depends on the place only; `Neutral`: a client at rest that
  gets one of the port's commands is at rest again and has read nothing. Every answer is
  such a command (`ProcessAnswers`), doubled IACs in it included (`NeutralOption`).
- `DataBytesAre`: the doubled data is at most twice as long as the data, and a client at
  rest reads the data from it; `ReadPart`: wherever it is cut, the client is between two
  IACs exactly if the rest begins with the second.

`TypeOK` is inductive together with the shape of `telnet_cmd` (`Now \in Parser`).
`ClientInv` adds to it what waits: the rest of the data begins with a second IAC exactly
if the client is between two (`Between`), and then completes what it reads; else the
commands that wait bring it back to rest and the data after them completes what it reads
(`Outside`). A command that is written while the client is between two IACs is what
`Split` is about; once split stays split (`SplitStays`).

`UpExact` is about the other direction, in three parts.

- `MessageRead`: whatever message a parser at rest reads, it is at rest again, and has let
  through its data or carried out its command (`Received`). For an option that is an
  induction over its argument (`OptionRead`): what `telnet_cmd` holds is the name and the
  argument so far, cut to the array (`Within`); a doubled IAC leaves one, a stray IAC
  nothing, and the end is seen in an array that is full, because the last byte is
  stored over the one before. `StreamRead` puts messages together: `Spread` is what the
  members of a sequence give, one after the other, and serves for the stream (`Stream`),
  for the doubling of IACs and for the selections by kind (`OfKind`), which are
  written with it because nothing could be proved about the library's `SelectSeq`,
  which is recursive.
- `Twin`: parsers that have collected the same let the same through and carry out the same.
  The variables hold only what is collected, so this relates a read to the parser
  that has read the stream from the beginning (`Apart`).
- `UpInv`: the stream of all messages is `w` followed by what waits, the parser is where
  `Apart(w)` is, and the device got what `Apart(w)` let through and carried out. For the
  order it says of each datum the device got that some first part of `w` holds it, and
  that the commands in that part were carried out before it (`InTime`): the part is all
  that was read when the datum was written, and the order stays true whatever is read
  later. `got` ends with the option that has no handler, if one was read: then the
  session is over, and what `UpExact` says is about the time before. `NoneLate` compares
  that part with the messages in front of the datum: it is the longer one, since they do
  not hold the datum, and so holds their commands.

`CrashOnlyUnhandled` uses the same invariant, of which a part says that a crash comes
from a message whose event (`Kept`) is an option without a handler: the events of a read
are among those of the messages sent, since the twin that reads from the beginning has
them. The name of an option survives the cut to the array, so that the client has sent it.

**`BoardProofs`**, for `Mrs`: `TypeOK`, `SendsOnSocket`, `ServesWhileListening`, and
that `Spec` implements `Box`. `Inv` says who has the lock (exactly a thread between
taking it and sending), in which state of the socket each place is reached, what a
thread is about to send (a message with the present address, which no step can change
under it, since a restart ends both threads, or with `Stack`, if a call has failed), and
that a request being carried out was sent and is whole. The announcement that
thread_send may send before the parameters are set is a step of `Box` of its own.

**`NetportProofs`**: `TypeOK` and `ConnectionsFollow`. `Inv` follows a switch port by
port: while ports are disconnected, those before `port` are not connected; while they
are connected, those before `port` are, to the address shown, and the others are not
(`Starting`, `Switching`). `status_connect_8` is set whenever `mcRcvThread` reads, so
that a switch never leaves out the disconnecting. An `mcRcvThread` ends only outside a
switch, and leaves the ports as they are. Nothing has to be known about what a killed
program leaves behind, because `my_init` ends all of it first.

**`TelnetOptionsProofs`**: `Answered`. That all sessions share the flags makes a flag
say nothing about the session that looks at it, so `Inv` says what a flag means for
every session at once. While it is set (`Waiting`), a session's client has either not
read the opening sequence, which will answer what it asks, or has sent the answer
the flag waits for, in front of what it asks for. Once it is clear (`Settling`), what a
client asked for or its answer is on its way. A flag is cleared by one session's
answer, and the other sessions go from the first to the second; no step sets one.

**`ComPortProofs`**: `TypeOK`, `SettingsAgree` and `LastReport`. `Agree` says of the
last answer to each question, be it read already or in the queue, what `SettingsAgree`
says of it; `Answers` is that answer as a set, so that no proof has to choose it.
A subject the device refused is excused from agreeing with the device only while it is
in `refused` and is not read back; what the table holds is the answer all the same.
`Idle` (who has no session was told nothing) starts it. `Reports` says of every setting
that was reported since it was answered that the last frame about the entry holds
the table's value, or the status server does if no frame is on its way; a frame sent
is the last one (`ShownSent`), and a frame taken leaves the rest (`ShownTaken`).

**`Mrs2sProofs`**: `TypeOK`, which holds the bounds of `gport_stat`, `OneReceiver` and
`ChildCurrent`. The number of threads ever created is bounded by the number of clients
and says little; that they do not pile up is `OneReceiver`: of all those the parent has
created, every one but the last has been cancelled, whatever the handler interrupts.
`Order` counts the parent's threads (clients come one after the other), `Processes` says
that a child is forked once and has one thread, `Sockets` that a thread reads from a
socket its process has opened. `Told` is about a child's
thread: the newest broadcast since it listens waits in its queue, or is being copied,
and then what is copied already is new, or has been copied (`Knows`).

For `Keypad`: `KeyFollowsLine`. `Sampled` adds that equal last samples were
reported, and that a key not yet released has been low all the time.

## 6. What is only model-checked

- The liveness properties: `Delivered`, `IdleSessionEnds`, `ShutdownCompletes`,
  `ExitCompletes`, `NegotiationEnds`, `ModemFollows`, `PushArrives`, `ChildEnds`,
  `DeadAreReaped`, `StaysVisible`, `Answered` of `Mrs`, `ChangeDone`, `Follows`,
  `RestSeen`. Liveness under fairness is outside the proof system's reach.
- `ENABLED`, and with it that no run stops where the code would not.

## 7. What is not modelled, and why

Counted in lines the models stand for little of the repository's 210000 lines of C.
A fifth of those are copies of the mongoose web server. Most of the rest are kernel
and boot loader files of the boards' vendors with a few changed lines, each beside
its original, and other people's programs (com0com, SCPS, i2c-tools, ser2net before
its changes, earlier versions of the files modelled here). They are not this
program's logic, and what the program uses of them is in the models as its
surroundings. What is missing of the program itself:

- In ser2net: monitors, traces, hex dumps and their files, text of messages; `showport`
  and the other commands that only show; two commands that change the device and not the
  port, `setportdevcfg` (`dataxfer.c:2790`, the settings a port's next session opens the
  device with) and `setportcontrol` (`:2813`, the modem lines and the break of a
  session's device); the port number 0, which serves one client on standard input
  instead of a socket (`:1971-1986`, `:2135-2142`); frames' bytes and checksums; UUCP
  locks (they guard the device against other programs); the signature, purge, suspend
  and resume, and line state of RFC 2217; the BREAK command of telnet. `Telnet` lets
  data for the device be taken at once and every option be known; how options are
  answered is in `TelnetOptions` and `ComPort`.
- In mrs2s: the layout of frames, change of the IP address (`mySaveBAT` writes two
  scripts and runs one, and does not reboot), a restart of ser2net, and failing `fork`,
  `pthread_create` and socket calls.
- In mrs: `thread_rcv_un`, which prints what it reads from a local socket; MAC and
  host names; the bytes of the script.
- In netport: renaming of the virtual ports, the log, the tray icon, test pages;
  the variants for other compilers (`main37xp1.c`, `m37/mongoose/main.c`).
- The keypad's variants: `uinput5121.c` makes key events of datagrams, `gpio6.c` is a
  kernel module that reads the same lines.
- Everything else is vendored code, a test program or board support.

## 8. Plan

Done: everything in section 2, with the proofs of section 5.

Every invariant and every action property the runs check is proved. Some type
invariants, and `SessionFds`, are proved and no config names them any more: as conjuncts
of the inductive invariants they were checked by TLC before they were proved. Next among the
proofs, the safety halves of what stays with TLC: that a step the liveness properties
wait for stays possible once it is (a port that shuts down keeps its handlers
enabled, a thread that holds the lock of `Mrs` reaches its release). Next in the models:
a third thread of `Mrs` if it ever does more than print; the line state of RFC 2217 if
the code ever keeps more of it than a mask.

## 9. Running

    tlc -config MCSer2netPort.cfg MCSer2netPort.tla
    tlapm Ser2netPortProofs.tla

The module of each config is named in `PROJECT.json`, as are the mutants (`of` is
replaced by `as`) and the lines of the source that every definition stands for.
