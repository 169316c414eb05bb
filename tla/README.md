# RickyNet in TLA+

RickyNet gives a Windows machine the cellular connection of an iPhone. The
desktop program (`win/`) captures the machine's traffic with a Wintun adapter
and two half-default routes and sends every IP packet, length-prefixed, over one
TCP connection (usbmux or Wi-Fi). The phone core (`rickynet-core/`, a C library
inside the iOS app) feeds the packets to a userspace network stack (`ipstack`)
that opens ordinary cellular sockets.

This directory specifies the parts of that system whose correctness depends on
the order of things: threads and their flags, routes and who deletes them, the
framed stream, the dial through Apple's USB service, the phone's cellular
sockets, its log, and the start/stop interface of its core.

## Inventory

| Part | State it keeps | Operations | Talks to |
|---|---|---|---|
| Desktop worker (`win/src/worker.rs`) | its adapter, routes, socket, `alive` | `run_connect`, `connect_inner`, headless mode | Shared, Windows, the phone |
| Shared (`win/src/state.rs`) | state shown, stop flag, admin, counters, log | one lock or atomic per access | window and workers |
| Window and tray (`win/src/app.rs`, `main.rs`) | worker handle, quit flag, action queue | toggle, start, quit, close, reap | Shared; spawns workers |
| Routing (`win/src/routing.rs`) | rows created by one session | `install`, `remove` | the system's forwarding table |
| Wintun adapter (`win/src/tun.rs`) | adapter, session | `up`, `stop_session`, drop | Windows |
| Pump (`worker.rs` threads A and B; `device.rs`) | two threads, two tasks, two channels | read and write frames | ring, socket, ipstack |
| Framing (`rickynet-wire`) | decoder buffer and cursor | `push`, `next_frame`, `read_frame`, `write_frame` | pure |
| Phone core (`rickynet-core/src/lib.rs`) | `INSTANCE`, counters, shutdown watch | `rn_start`, `rn_stop`, `serve`, `bridge` | the app; desktops |
| Logger (`logger.rs`) | ring, callback | `log`, `set_callback` | any thread; LogStore |
| Log store (`LogStore.swift`) | file, buffer, flush flag, published lines | `append`, `flushUI`, `clear` | logger, the shell, the screen |
| Flows, egress (`flow.rs`, `egress.rs`) | per-flow sockets, buffers and timeouts | TCP, UDP, ping handlers | ipstack, cellular interface |
| usbmux client (`usbmux.rs`, `transport.rs`) | two sockets, one after the other | list, choose, connect, hand over | Apple's service, phones |
| iOS app (`RickyNetCore.swift`, `KeepAlive.swift`) | status, counters shown, audio session | start, stop, poll | phone core |

What is hard here: any number of workers share one state, one stop flag, one
adapter name and one route table, because the tray stays live while a worker has
been spawned but has not yet said so; the window may go away while a worker is in
its teardown; routes outlive the process that made them; a teardown joins threads
blocked in three different places; end of stream reaches the phone's stack only
by a side channel; `rn_stop` joins outside the lock that `rn_start` holds; the
phone to connect to is chosen on one socket and reached on another; a cellular
interface may go between looking it up and choosing a route; each flow races
four ways to end; and a log line passes through two queues, a timer and a flag.
`PROJECT.json` lists each hazard at its line, with the properties aimed at it.

What makes each part correct, in a sentence:

- worker and window: what is shown at rest is true, a disconnect ends the session
  it was meant for and no other, an attempt ends and its error is shown;
- routing: a pumping tunnel captures everything but the LAN and the phone, and
  every row has somebody who will delete it, or is known to be lost;
- pump: two pipes that deliver whole packets in order and once, and a teardown
  that returns wherever its threads are blocked;
- framing: the reader never reads a payload as a prefix;
- dial: a USB pipe leads to the phone that was listed first, carries that phone's
  bytes from the first on, and a silent service cannot hold the worker;
- flows: nothing rides Wi-Fi while cellular is there, both directions of a relay
  are whole and in order, and what is over gives its socket back;
- log: each line is kept once and comes to the screen;
- phone core: no listener without an owner, calls that return, one desktop after
  the other.

## Modules

| Module | Models |
|---|---|
| `Routing` | forwarding rows, longest-prefix match, the rows of `Routes::install` and the order of `remove` (operators only) |
| `Desktop` | `run_connect`/`connect_inner` one step per effect, Shared, the window's and the tray's commands, headless mode, launch, exit and kill; extends `Routing` |
| `DesktopMC` | addresses, faults and symmetry for TLC |
| `Tunnel` | abstract: two FIFO pipes that may lose only what is inside when the session closes |
| `Link` | one session's pump, token by token, on both sides of the socket; `Promise == INSTANCE Tunnel` is its refinement mapping |
| `LinkMC` | packet sizes and faults for TLC |
| `PhoneCore` | the C interface, the core threads, queueing desktops |
| `PhoneCoreMC` | faults for TLC |
| `Wire` | `FrameDecoder`, the sans-io reader of the wire crate, bytes known by their stream position |
| `Flows` | `bridge()`'s accept loop, the handler of each flow, its egress socket; each relay is an instance of `Tunnel` |
| `FlowsMC` | two flows for TLC |
| `Usbmux` | `transport::connect`: both exchanges with the service, the hand-over of the socket, and the phones behind it |
| `Logs` | `logger.rs` and `LogStore.swift`, from the thread that logs to the screen |
| `DesktopProofs`, `LinkProofs`, `PhoneCoreProofs`, `WireProofs`, `FlowsProofs`, `UsbmuxProofs`, `LogsProofs` | theorems about the module of that name |

### How they correspond to the code

**Desktop.** A worker's `pc` names the next effect: `spawned` clears the stop
flag, `cleared` sets Connecting, `open`, `create` and `start` are the three calls
of `Tun::up`, `dial` is `transport::connect`, `carve`/`lo`/`hi` are the three rows
of `Routes::install`, `announce` sets Connected, `clone` is the two
`try_clone()?`, `pump` the wait loop, `teardown` the joins, `remove` and `close`
the routes and `drop(tun)`, `failed`/`tail`/`settle` the three accesses to the
state in `run_connect`'s epilogue. Every early return goes where the code's drops
go: a session that does not start to `drop` (an adapter in hand, no session), a
failed dial to `close` (the Tun drops), a failed half to `remove` then `close`, a
failed clone to `close` with its rows lost. `rows[w]` is the worker's `Routes`;
`table` is what Windows holds, which survives the process. Creating a row that
exists, or on an adapter that does not, is refused, as `CreateIpForwardEntry2`
does. A worker slot is reused when its thread is over; a slot is not a handle, so
overwriting `App.worker` (which only detaches) needs no variable.

`present` are the Wintun adapters in the system, by LUID, all of the one name the
program uses; `tun[w]` is the one a worker has a handle of and `made` says who
created the one it has. The calls of `Tun::up` take no lock, so two workers may both
miss the open and both create, share one adapter, or see it go between two
calls. What Wintun does then is external, and every outcome it may have is
allowed: an open finds any adapter there is; a creation under a name that is
taken succeeds or fails, and a new adapter has a LUID that no row or handle
names; a session starts on an adapter that is there and carries none; closing an
adapter one has created removes it and the rows on it, whoever else has opened
it; closing one that was only opened may leave it, and does while another worker
has it. An adapter that went ends the pump over it.

History variables are read by properties only: `asked` (workers that ran when a
stop was last requested), `lost` (rows whose `Routes` is gone), `past` (how the
previous process ended) and `company`: whether another worker has run beside this
one, never (`none`), only before it announced its outcome (`before`), or also
after that or still (`since`).

`PromptStart = TRUE` restricts the user to moments at which no thread is within
the few instructions around its first and last state change. Only `desktop_live`
uses it, because a second click or a Ctrl+C inside those windows defeats
`DisconnectHonoured`: a stop can be erased, as `desktop_ctrlc` shows. The safety
runs, `ShownConnected` and `ErrorShown` among their properties, and the proofs do
not use it.

What the properties of these runs except, and the code does get wrong: two
workers that overlap can leave one pumping under Error or Disconnected, or lose
an Error (`company = "since"`); a worker with company may have a carve-out that
leads into the other's tunnel; a session whose adapter was removed under it by
the worker that created it captures nothing until its pump ends; and a row whose
`Routes` is gone is `lost`, so that `RowsAccounted` says nothing against the
leaks of an early return or of a process that ends. The refutations below show
those leaks.

**Link.** A frame is a prefix token and one token per payload unit; `MaxFrame`
stands for 65535 and prefixes are taken modulo `MaxFrame + 1`, as `as u16` takes
them. A writer moves a frame token by token into a bounded socket buffer, and a
reader takes them out, so either can be stopped inside a frame. `Cut` loses what
is in flight, and both ends notice; a loss that nobody notices is not modelled.
On the phone `bridge = "down"` means `bridge()` returned and the
device was dropped. Closing follows tokio and TCP: dropping the write half sends
the FIN, the socket is gone when both halves are.

**PhoneCore.** `lock` is `INSTANCE`'s mutex, which `rn_start` keeps until it
returns, joins included, and `rn_stop` only while it takes the instance. A core
is the thread of one `rn_start`, with its watch flag, its readiness message, its
listen queue and the desktop its `bridge()` serves. 127.0.0.1 and 0.0.0.0 on one
port do not collide, two listeners on one address do, and a transport that is
neither is refused. The tasks of earlier connections live until the runtime
drops. `late` is a history variable: the cores that were still going down when
`rn_start` last reset the counters, the only others whose bytes the counters may
hold (`rn_stop` frees the lock before it joins).

**Wire.** `FrameDecoder` is the wire crate's own reader and is exercised by its
tests; the desktop reads with `read_frame` and the phone with tokio's
`read_u16`/`read_exact`, and those two are in `Link`. The stream is any sequence of frames: each frame's length is chosen
when the frame becomes due. `head` is where the next frame begins; a cursor
elsewhere would find arbitrary bytes, which the model lets it read as any prefix.

**Flows.** `at[f]` is the place of a flow's task: `new` is its first statement
(a `getifaddrs` that fails there leaves the socket unbound, like a missing
interface), `bind` is between `cellular_ifindex` and `setsockopt`, `dial` before `connect` (or
`send_to` of a ping), `wait` inside the two-second timeout of a ping, `relay`
inside `copy_bidirectional` or the `select!` of `handle_udp`. An early return,
an error and the end of a relay are all `Dropped`: the stream and the socket go,
with what was in their buffers. For each direction `pipe[f][d]` holds what its
source has sent and the handler has not read (`src`), the one buffer of the
relay (`hand`), and what its sink was given (`out`). ipstack's stream is the near
end; `EndOver` is its reset, its timeouts (300 s and 30 s) or the fall of the
stack, and on the far end whatever the socket reports as an error. A flow that
nobody accepted goes with the stack, the others' tasks run on, as detached tasks
do. `handle_unknown` takes any message that reaches its socket for the answer, so
`Pong` needs none to have been sent, and a phone that cannot open the socket
answers itself. `lapsed` and `echoed` are read by properties only. IPv6 and IPv4
sockets differ in one option's number and are not told apart; the 20 s heartbeat
only logs.

**Usbmux.** `wire` is what has arrived at the socket the desktop reads: a reply is
a header token and a body token, and behind a reply may already stand bytes of
the phone. `RecvHeader` and the step after it are the two `read_exact` of
`recv_plist`, either of which may time out. `request.port` is `PortNumber` as it
leaves, `Base` one byte's number of values, and the service swaps it back, so a
dial that sends the port unswapped is refused by a healthy service. The service
inserts a new device anywhere its list may have it, first or last, never gives an
id twice, refuses with 2 an id that is gone and with 3 a phone that does not
listen. The write side of the timeouts is not told apart from the read side. A service
that hangs up does so after what it has sent was received; a reset that discards
bytes under way is not modelled. Over
Wi-Fi the dial is one step, and `NoPhone` stands for an address nobody answers on.

**Logs.** `Log` is the critical section of `CoreLogger::log`, `Emit` the call of
the callback after it, `SetCallback` the critical section of `set_callback` and
`Replay` one line of the loop behind it. `queue` is LogStore's serial queue,
`mainQueue` the closures sent to the main thread, `timers` the flushes waiting for
their 0.2 s. The core is created on the main actor, so nothing else of the main
thread runs inside `set_callback`. Any core thread may log before it: the shell as
it stands only leaves `logger::init`'s line in the ring, the C interface allows an
early `rn_start` as well. The three header lines of `clear()` are one
line here: they are always logged right after the wipe, so `flushUI` never finds
an empty buffer after a clear. `Where(l)` lists the positions of a line in each of
the places a line can be, and `EachLineOnce` says that they are one. A line counts
as handed on when it is dropped from a full ring (before registration), from a full
screen, or cleared.

## Runs

| Run | Question | Bounds |
|---|---|---|
| `desktop_safety` | ownership, capture, accounting of routes, the state shown, freshness of stops | 2 workers, 2 adapters, 2 launches, every fault, Wi-Fi by address or by name, both modes (1,760,735 states) |
| `desktop_live` | disconnect and attempts, under fairness | 2 workers one at a time, 1 adapter, 2 launches, phone on the LAN (11,986 states) |
| `link` | refinement of `Tunnel`, teardown, loss, no wedge | 2 packets each way, of 0, 1 or 2 units down; socket and channel of one slot |
| `phone_core` | ownership of cores, calls return, next desktop is served | 2 callers, 2 starts, 2 desktops, both addresses and an unknown transport |
| `wire` | the decoder | 30 bytes, frames of 0 to 3, chunks of 0 to 10, threshold 6 |
| `flows` | interface of a route, refinement of `Tunnel`, no relay cut short, sockets given back | one TCP or UDP flow with 2 items up and 1 down, one ping; every fault |
| `usbmux` | the right phone, an intact pipe, a dial that ends | 2 phones, 3 attachments over USB or network, ports of two base-3 digits, 2 bytes from the phone |
| `logs` | each line once, every line shown | 2 core threads and the main one, 5 lines, a ring of 2, a screen of 2, 1 clear |
| `desktop_clone_leak`, `desktop_quit`, `desktop_rerun`, `desktop_ctrlc` | the documentation's statements, refuted | 1 worker, 1 or 2 launches |

Why the bounds are enough: two workers and two launches are the smallest numbers
at which one can disturb the other, and slots are reused without limit within a
launch. Two adapters are one for each of two workers, or one left over from an
earlier process and one that is created beside it; when both are taken, a
creation is refused. A USB session differs from one without a carve-out in its
dial only, which asks usbmuxd and no route; it is in `desktop_live`, and the
theorems about `Desktop` hold for every set of transports, adapters and workers
and for any number of launches. In `desktop_safety` two workers do pump over two adapters, a carve-out does lead into
another worker's tunnel, a pump does lose its adapter to the worker that created
it, and a lone pumping worker is not shown after company: the excepted cases are
reached. The phone, a LAN neighbour and one host in each half are one address for
each way a lookup can go. In `link` the smallest buffers make every blocking
combination reachable, a second packet shows a reader that lost its place, and
sizes 0, 1 and 2 are an empty, a fitting and an oversize packet. In `phone_core`
the second start gives the overlap of an old and a new core. In `wire`, thirty
bytes hold several frames before, across and after a compaction. In `flows` two
items let one be read while another waits, the second flow is there to hang or to
be kept waiting, and its kind does not matter to the first; the interface changes
only while some flow has no route yet (nothing looks at it afterwards). In
`usbmux` three attachments let the listed phone leave and another come in front
of it, base 3 has ports whose two digits differ, and two bytes show a lost or
doubled one. In `logs` five lines overflow the ring before the registration and
the screen after it, and three threads are the replay, a thread that logs across
the exchange and one that logs at the same time. These three runs (`flows`, `usbmux`, `logs`) do not check
for deadlock: a flow that was handled, a dial that is over and a log with nothing
more to say have no next step. `desktop_safety` uses symmetry of the workers and
of the adapters (its properties are invariants and action properties over all of
them); no run with liveness uses symmetry.

### What the refuted statements show

- `worker.rs:46` says that `run_connect` returns to a torn-down state. If cloning
  the socket fails, the carve-out stays: `Routes` has no `Drop`.
- `docs/RUNBOOK.md:59-60` says Quit also disconnects. Nothing joins the worker,
  so the process may end before the routes are removed.
- `docs/RUNBOOK.md:113-114` says that re-running after a kill and disconnecting
  tidies up. The old carve-out makes the new one a duplicate; the run that was
  refused it does not own it and never deletes it (an action property: the step
  at which the second run's worker has closed its Tun without an error).
- `worker.rs:205,213` says Ctrl+C stops the headless bridge. One that comes
  between the handler's installation and `clear_stop()` is erased.

In each case only the `/32` of a Wi-Fi phone is left (the half-defaults go with
the adapter), or one key press is lost.

### Met while modelling, without a run

- `flow.rs:58-59` says that `copy_bidirectional` leaks nothing. Once the desktop's
  half of a TCP flow is shut, the call no longer reads ipstack's stream, so with a
  silent far end neither ipstack's timeout nor the end of the bridge reaches it:
  the task and its cellular socket stay. `Reaped` states the cases that do hold.
- `flow.rs:101,115` take a UDP datagram without payload for the end of its side;
  `NothingCutShort` names this as its one exception.
- `logger.rs:7-8` says that the backlog is replayed first. It is replayed outside
  the lock, so a line logged after the exchange may reach the callback before it;
  `EachLineOnce` is about presence, not order.
- `lib.rs` documents debug as the default level of `rn_log_set_level`;
  `logger::init` sets info.
- A batch that was already on its way when `clear()` was called may be published
  after the wipe of the screen (`LogStore.swift:92-101`).

## Fairness

Only what the code's scheduling gives. Desktop: every worker thread runs, its
blocking calls have an end, and a process that was told to end ends; nothing is
assumed of users, kills or failures. Link: every thread and task runs, each
direction of the socket moves, and ipstack polls its device; nothing of traffic,
cuts or stops. PhoneCore: a thread inside a call and a core thread run, and a
desktop that is being served eventually leaves, since no timeout in the code
would free the listener otherwise; nobody has to call or to connect.
Flows: the runtime polls the bridge and every handler; a TCP connect is not
assumed to return (the code sets no timeout), a UDP connect and the two-second
timeout of a ping are; a stream of a dropped stack ends by its timeout at the
latest; an end that is open takes what is written to it. Usbmux: the desktop's
thread runs and its sockets' timeouts fire; nothing is assumed of the service,
which may never answer. Logs: the shell registers its callback, a thread inside
`log` returns from it, both queues and the timer run; nobody has to log.
`SeesShutdown` is fair by itself because `tokio::select!` polls its branches in
random order.

## Proofs

`DesktopProofs` proves, for any sets of workers, addresses, transports and
faults, any number of launches and either value of `PromptStart`:

- `TypeCorrect`, `OwnershipHolds`, `NeverStale`, `RowsAlwaysAccounted`,
  `TrafficCaptured`, `PhoneStaysOffTunnel`, `StopsAreFresh`, `ConnectedIsShown`
  and `FailureStaysShown` — the type invariant and every property of
  `desktop_safety`, for any number of adapters as well.

The argument: `Ownership` is inductive with the types. It does not need one
session at a time: a row that somebody will delete is in the table or on an
adapter that is gone, `AddRow` is refused both, and a new adapter has a LUID no
`Routes` names; so no worker adds a row that another has. `FullCapture` is not
inductive: a worker at `hi` has one half only. `Installed` is the strengthening:
for each `pc` it says which rows the worker already owns, in the order of
`Routes::install`, and with `Ownership` those rows are in the table as long as
the adapter is there. `TableHolds` adds that the table has halves on adapters and
at most one carve-out, because with one the next is looked up through it and
refused. `SplitDefaultCaptures` and `CarveOutWins` then reduce the rest to
longest-prefix match over any such table, whatever else it holds. `NeverStale`
needs that a worker which leaves without settling saw Error, and that nothing but
a worker sets Connecting or Connected. `StopsAreFresh` needs that a set stop flag
names every running worker that has cleared it. `ConnectedIsShown` and
`FailureStaysShown` rest on `Company`: workers that run beside each other are
marked, and what an unmarked one wrote into the state is still there, since a
click reads a busy state as a request to disconnect and a refusal is made only
when the state is not busy. `Company` also carries `PhoneStaysOffTunnel`: an
unmarked worker at `carve` still sees the network it dialled over.

`WireProofs` proves the four properties of `wire` for every `MaxFrame` below
65536, every threshold and every stream and chunking: `TypeCorrect`,
`StaysInStep`, `DeliversWhatItHas`, `MemoryStaysBounded`. `InStep` is inductive
with the types; `CompactKeepsPlace` and `PacketMovesCursor` are its two cases.
`PrefixRoundTrip` is the big-endian prefix for every 16-bit length.

`PhoneCoreProofs` proves, for any callers, starts, desktops, transports and
faults, `TypeCorrect`, `InstanceAlwaysListens`, `NoCoreOrphaned` and
`CountersStayFresh`: every safety property of `phone_core`. None is inductive alone; `Inv` adds who holds the lock and what
that says of the instance (`LockOK`), that a call has a thread handle exactly
while it waits or joins and shares it with nobody (`HandlesOK`, `Unshared`),
what a core reported and was told against where it is (`CoresOK`), that a live
core has an owner (`Owned`), and that at most one core born after the last reset
is alive or has counted (`FreshOK`). Each step is first shown to have one of a
few effects (a core moves on, a call begins or ends with no live core in its
hands, `rn_start` gives up on its core), and the invariant is shown once per
effect.

`LinkProofs` proves, for every frame limit, socket buffer, queue capacity,
number and size of packets and set of faults, `LinkTypeCorrect` and
`LinkImplementsTunnel`: every step of the pump is a step of `Tunnel` or a
stutter, so each direction delivers the packets it accepted whole, in order and
once, through any cut, stop and teardown. The mapping speaks of the tokens a
direction took and gave; what makes it inductive is where they are in between.
`Laid(d, s, t, f, to, c, w)` says that packets `f+1..to` of `t` lie as frames in
the stream `s` (socket buffer, then what the writer still holds) at positions
`w` behind the `c` tokens the reader lacks, with nothing but empty frames
between them, the last perhaps cut short; `Queued` says that the others wait in
the queue in order. So a reader that is at the head of a frame is at a prefix. A
step of the code touches one end of that picture: the lemmas `...Shape` say
which, the lemmas `...Pipes` that the picture is kept, and `...Keeps` that the
step is one of `Tunnel`.

`FlowsProofs` proves, for any finite set of flows, their kinds, traffic and
faults, `FlowsTypeCorrect`, `FlowsRideCellular`, `FlowsNotCutShort` and
`FlowsImplementTunnels` (each flow's relay implements `Tunnel`). `FlowOK` is the
invariant of one flow: a handler about to dial without the option set has seen
the interface missing (`BoundOK`); a handler that ended has given both ends back
and a flow nobody opened is empty (`EndsOK`); at most one item is in the relay's
hand, a direction that is done has nothing left and a source that is over or
finished, and only UDP has empty items (`HalfOK`). `QueueOK` says that a flow
waits to be accepted once, and before its handler. The refinement is proved per
flow: a step of another flow stutters, a step of its own moves one item or drops
what is inside.

`UsbmuxProofs` proves, for any phones, byte base and port, whatever is attached,
removed, started or stopped, `UsbmuxTypeCorrect`, `PipeToTheRightPhone`,
`PipeStaysIntact` and `FailuresAreExcused` (no healthy service refuses the
swapped port, whichever it is). The invariant says, for each place of
`transport::connect`, what was asked and what may be on the wire: the answer to
this request, garbage, or nothing yet; that ids are never reused; and that what
follows the result is what the phone said, from its first byte. Attaching and
removing phones only unfolds the list a request was answered from.

`LogsProofs` proves, for any threads, capacities and numbers of lines and
clears, `LogsTypeCorrect`, `EachLineIsOnce` and `NoLineStranded` (the buffer is
never left without a flush, which is what `EveryLineShown` needs from the flag).
The places of a line (ring, backlog, a thread's hand, queue, buffer, main queue,
screen, gone) partition the lines made (`Partition`); an action moves a set of
lines from one place to another (`Moved`) or adds the newest to one (`Added`),
and a push onto a full ring and a batch on a full screen do two such moves. The
partition needs that no place has a line twice (`OnceOK`), which for the queue
needs that one flush is on its way while the flag is up and none otherwise
(`FlushOK`), for `SetCallback` that nothing was replayed before (`RegisterOK`),
and for the file that it has only lines that left the queue (`FileOK`).
`CountOK` keeps a line in reserve for the registration's own. `WhereIs` turns
the partition into the counts of `EachLineOnce`.

Assumptions are the modules' named ones: `AddressAssumption`,
`DesktopAssumption`, `LinkAssumption`, `PhoneCoreAssumption`, `WireAssumption`,
`FlowsAssumption`, `UsbmuxAssumption` and `LogsAssumption`, which TLC evaluates
in the runs. Two are there for the proofs: `FlowsAssumption` has `Flows` finite,
since the accept queue is bounded by it, and `LogsAssumption` has `MaxLines`
positive, since registering the callback logs a line.

Only model-checked: the liveness properties (`DisconnectHonoured`,
`AttemptEnds`, `TeardownCompletes`, `LossNoticed`, `PhoneFreed`, `NoWedge`,
`CallsReturn`, `NextIsServed`, `Reaped`, `DialEnds`, `EveryLineShown`), because
liveness under fairness and ENABLED are out of the prover's reach; and the four
refutations. The theorems cover every other property of every passing run. No
module has a recursive operator.

## Not modelled

- Drawing, log text, rates, `args.rs`, `elevation.rs`, `logging.rs` (the desktop's
  log file), the icon, the adapter's address, DNS and MTU: sequential formatting
  or single calls into Windows, whose values no property tells apart.
- `rn_stats` and `rn_log_set_level` are single loads and stores.
- `KeepAlive.swift` re-asserts an audio session when iOS takes it away; whether
  that keeps the process alive is a matter of iOS. The polling task of
  `RickyNetCore.swift` may publish one sample after `stop()` has zeroed what is
  shown, until the next start.
- The views are presentation.
- ipstack, tokio, Wintun, the kernels and Apple's service are environment: what
  the code relies on is in the definitions marked external.
- A console that is closed is covered as a kill. A peer that vanishes without a
  FIN is not noticed by the code and is excluded by the fairness of `PhoneCore`.
  An `accept` that keeps failing is retried without a pause (`lib.rs:243`), which
  costs time and changes no state.

## Plan

1. Done: `Routing`, `Desktop`, `Tunnel`, `Link`, `PhoneCore`, `Wire`, `Flows`,
   `Usbmux`, `Logs`, and proofs of every safety, action and refinement property the
   passing runs check.
2. Next: safety facts behind the liveness properties, each of which a proof can
   reach: in `Link`, that a joined thread has ended and that nothing is blocked
   while both sides have ended; in `Flows`, that an accepted flow that is over has no socket; in
   `PhoneCore`, that a waiting call always has a thread it waits for. TLC first, as
   invariants of the runs in question.
