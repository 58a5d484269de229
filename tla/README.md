# TLA+ models of esp32-rtk-gateway

The firmware takes RTCM corrections from a GNSS receiver on a UART and passes
them on: to NTRIP casters over the network (the *runtime*, `main/`), to TCP and
UDP clients, or over LoRa from a *base* to a *rover* that feeds its own receiver
(`components/`). This directory holds the TLA+ specifications of the parts that
run concurrently, lose messages or depend on order, their TLC configurations,
and proofs for TLAPS. `PROJECT.json` maps every definition to the lines it
models and lists runs, mutants, hazards, findings and theorems.

    tlc -workers 2 -config MCRuntimeSafety.cfg MCNtripRuntime
    tlapm LoraTxProofs.tla

## 1. Inventory

| Component | State it keeps | Operations | Interacts with | Hard because |
|---|---|---|---|---|
| NTRIP runtime (`main/ntrip_runtime.c`) | per slot: should_run, stop_requested, task_running, task_handle, sock, state, mock mode, stream buffer | supervisor pass, slot task, restart_all, slot_enable, set_mock_mode, fan-out, fake RTCM, self-test | slot store, lwIP sockets, network state, web server, UART events | three kinds of tasks under one mutex they keep releasing; descriptors are reused |
| NTRIP slot store (`main/ntrip_slots.c`) | five slots in RAM, a blob and legacy keys in NVS | load, migrate, set_config, set_all, sync_from_legacy | config, runtime, web server | no mutex; RAM, blob and keys change one after the other |
| LoRa transport (`lora_transport.c`) | next_frame_seq; key, received flags and buffer of one frame | fragment_frame, reassemble_push | both pipelines | loss, reboots, sequence numbers that come back |
| RTK LoRa pipeline, base (`rtk_lora_pipeline.c`) | UART stream, transmit queue, event bits, statistics | parse task, transmit task, radio events | filter, transport, duty cycle, radio | two tasks and an interrupt task; timeouts |
| Rover pipeline (`rover_lora_pipeline.c`) | transport, UART | radio event | radio, transport, filter | runs in the interrupt task |
| LoRa radio (`lora_radio.c`) | s_tx_active, mutex, semaphore; the chip's flags and mode | init, send, start_rx, interrupt task, ISR | SX126x chip, pipelines | edge-triggered interrupt, flags read and cleared in two commands |
| Region profiles | tables | lookup, validation | radio, duty cycle | - |
| Duty cycle (`duty_cycle.c`) | ring of one-second buckets | can_send, record_tx, usage | transmit task | boundaries of the window; check before, charge after |
| RTCM filter (`rtcm_filter.c`) | parser buffer, last time per message type | push_byte, evaluate, mark_sent | pipelines | resynchronisation; armed when queued, not when sent |
| GNSS receiver (`main/receiver.c`) | status, satellite table, parsers, command queue, configured and applied profile | UART handler, poll, apply_profile, queue_command, command task | UART, config, web server | retries overtake; profiles longer than the queue; what is shown ages |
| UART (`main/uart.c`) | handler tables | register, read task, write | everything on the data path | handlers run in the event task |
| Socket server, socket client | client list; one socket variable | accept, receive, UART handler; connect, read, UART handler | UART | shared by two tasks without a mutex |
| Retry delay | attempts | delay, reset | socket client | table bounds |
| Configuration (`main/config.c`) | NVS handles | get, set, commit, restart | everything | writes before commit |
| Web server | - | handlers | runtime, store, receiver, config | calls into everything from its own task; items stored one by one |
| Wi-Fi, Ethernet, network state | link flags, event bits, retry counter | events of the SDK | boot, runtime | flags lag behind the drivers |
| Boot (`main/main.c`) | - | initialisation order | all | waits that end before what they wait for comes |
| W5500 driver (`components/w5500`) | ring pointers, flags of the chip | receive task, transmit, start, stop | SPI, network stack | edge interrupt; polling of a register that is also cleared elsewhere |
| mDNS (`managed_components/espressif__mdns`) | per interface a state and packets to send; action queue; searches and browses | probe, announce, answer, collide; query; browse | network events, application | two tasks and callers under one lock; a queue that refuses; two devices that compete |
| Capabilities, memory policy | limits | get | runtime | - |
| Statistics, LED, log, captive portal, NMEA, core dump | counters, display | - | - | - |
| Legacy NTRIP server, client, caster | - | never started | - | - |

What makes each correct:

* runtime: one task per slot; a slot's descriptor is its own and is not lost;
  honest states; the configured slots, and no others, end up served; stored
  changes take effect; a caster gets pieces in order, cut only where a drop was
  counted;
* slot store: what was acknowledged survives a restart; a failed store is all
  or nothing; a key that cannot be read costs what was in it and nothing else;
  the self-test leaves no trace;
* LoRa path: a frame comes out whole, once and in order, or not at all; one
  whose fragments all arrived comes out; packets are sent in order; what the
  parser takes for a frame and is none costs only the frames that begin in it;
* radio and transmit task: no lost event stops transmission, airtime is
  recorded once per transmission, the receiver of the rover does not go deaf;
* duty cycle: the ring equals the last window; the budget is never exceeded;
* receiver: the profile reported as applied is the one the receiver was sent;
  what a page shows was heard and is not older than it says, as far as 32 bits
  of milliseconds tell;
* socket server and client: every client in the list gets all data since it came
  in, and none that connected is left out of it, but by the one overlap section 2
  names; closed connections are left and
  none leaks;
* settings: what was committed is stored, and in effect after the restart an
  acknowledgement stands for, if that restart could be started;
* boot: an uplink is found with every combination of cable and Wi-Fi, and found
  later when it comes later; the slots use it;
* W5500: frames pass in order, what is reported as sent was sent, no frame
  stays in the ring;
* mDNS: two devices do not keep one name; probing ends; a question is answered
  or ends; what is freed is not used.

## 2. Modules

| Module | Models | Abstract specification |
|---|---|---|
| `NtripRuntime` | supervisor x slot tasks x API clients x link and heap | `SlotWorkers` |
| `RtcmFanout` | event task and fake RTCM generator x stream buffers x slot tasks | the caster's stream as history |
| `NtripStore` | slot configurations in RAM, blob and legacy keys x writers x failing NVS calls and resets | history of what was acknowledged and requested |
| `ConfigStore` | posts of settings item by item x NVS failures and resets x restart | history of what posts meant |
| `Receiver` | HTTP task x command task x answers of the GNSS receiver | - |
| `ReceiverStatus` | bytes from the receiver x parsers x status and satellite table x HTTP task | history of what was reported |
| `RtcmParser` | UART stream buffer, frame parser, filter of the base | the frames as they were written |
| `LoraLink` | base fragmenting and queueing, air, rover reassembly, reboots | `LossyStream` |
| `DutyCycle` | ring of buckets, check before and record after | history of the airtime per second |
| `LoraTx` | transmit task x interrupt task x SX126x chip | `LossyStream` |
| `LoraRx` | boot of a rover x interrupt task x SX126x chip | - |
| `SocketServer` | uart_task x event task x server task x clients | history of what each client got |
| `SocketClient` | client task with its delays x event task x server | - |
| `NetworkBoot` | app_main x event task x drivers x a slot's wait | - |
| `W5500Mac` | receive task x transmit x chip, SPI faults | histories of the wire |
| `MdnsResponder` | timer task x service task of each of two devices x one link | - |
| `MdnsQuery` | callers x timer x service task x answers | - |
| `MdnsBrowse` | application x service task x packets | - |

`NtripRuntimeProofs`, `NtripStoreProofs`, `WebProofs`, `ReceiverStatusProofs`,
`LoraLinkProofs`, `LoraTxProofs`, `LoraRxProofs` and `NetworkProofs` hold the
theorems; the `MC*` modules and `.cfg` files are the instances for TLC.
`NtripStoreProofs`, `LoraLinkProofs`, `LoraTxProofs`, `NetworkProofs` and
`WebProofs` extend the MC module of their run, whose bounds are constants, and
so prove what the run checks of each part. Operators marked as mutants are
plausible bugs: put in place of the operator below them, they must break a
property.

Parts of the system that run beside each other without sharing state share a
run. Such an MC module extends one module and instantiates the others with
variables of their own; `part`, chosen in the initial state, says whose
behaviour it is, and the fairness of each module is asked only where it is the
one that runs. The state spaces add up; none of them is multiplied by another.
`MCNtripStore` runs one module in three settings in the same way.

### NtripRuntime

A step is what happens between two releases of `s_runtime_mutex`, or one
unlocked call. `pc[s]` is the place of slot s's task in
`ntrip_runtime_slot_task` and the functions it calls; `fd[s]` is the local
`sock` of `connect_and_auth`, `sock[s]` the field of the slot. `owner[f]`
says whose connection a descriptor names: `connect_socket` may return any
descriptor nobody owns, so closing a stale one is visible. The supervisor's
pass is one action to begin (safe mode), and per slot one unlocked read of the
configuration (`SupervisorRead`) and one locked section (`SupervisorStops`,
`SupervisorStarts`, `SupervisorStartFails` when `xTaskCreate` fails,
`SupervisorKeeps`), then `SupervisorPublish`. Clients are the HTTP server task
and the self-test task; a call of two locked parts (store, then restart or
enable) keeps its second part in `call[c]`. `live` counts the tasks of a slot
and is history, as is `outdated`: the configuration was stored since the task
copied it.

The link to the abstract level: `SlotWorkers` has per slot a number of workers
and a set of connections. `live` and `{f : owner[f] = s}` map to them; the
handles and flags disappear.

### RtcmFanout

A message is two pieces, so that a buffer can take half of one. `UartData` is
the event handler, `FakeSends` the generator's turn; both copy to the buffer of
every running slot (`Fanout`) and count a drop. `FakeStart`, `FakeStop` and the
generator's way out (`StopSeen`, `FakeLeaves`, `FakeEnds`) set the same two
flags. `held` is what a slot's task has taken and not yet written; `wire` is
history of the connection, `clean` that it began at the start of a message.

### NtripStore

A step is the copy of a part of one slot in RAM, or one NVS call. A store goes
through the slots (`CopyFlags`, `CopyRest`, `Settle`, the last being
`ntrip_slot_sanitize`), then writes the blob (`Save`), the legacy keys of the
first two slots (`SetKeyOn`, `SetKeyHost`) and commits. A post under a legacy key
(`PostKey`) goes the other way: the key, then `ntrip_slots_sync_from_legacy`,
which blanks each slot in RAM and reads it back field by field. Any NVS call may
fail. One that writes ends the store and leaves RAM changed (`Fails`). One that
reads a legacy key does not: `config_get_bool1` and `ntrip_slots.c:278-282` go on
with the default, which is stored then (`ReadOn`, `MissHost`, and `Misreads` where
the store is rebuilt). What such a read lost is blank, silently, until the next
whole configuration of the slot is acknowledged; the history counts the blank as
possible from then on (`WithLoss`) and nothing else. `Reset` may come
between any two steps. `Load` is whatever call
comes first after boot, with the migration from the legacy keys when the blob
is missing or has another size or version.

`host` stands for all the strings that have a legacy key, `tls` for the fields
that have none, `named` for the name without which sanitize puts the slot back
to its default. NVS calls are taken to write through; a reset keeps what was
set. `legit[s]` is history: the configuration acknowledged last for the slot and
all requested since. Two writers that overlap can mix their halves and
each acknowledge the mixture; an acknowledgement therefore clears the history
only when the write was `alone`.

`NtripRuntime` sees of this one register per deployment that changes at once;
`ReadersSeeRequested` says what a task that reads in the middle may see. While
legacy keys are read back that may be a blank slot, and while two tasks store, a
mixture; so `MCNtripStore` says which property is asked in which of its settings,
and `part` is the one a behaviour is of: the HTTP task alone (`reset`), the
same with posts under the legacy keys (`keys`), and the self-test beside it
(`selftest`). `Settings` bounds what is posted and enabled in each for TLC; the
proofs ask of it only that it is within `Posts` and `Enables`.

### ConfigStore

One key per entry of `CONFIG_ITEMS`; widths are scaled by `ByteValues`. A post goes
item by item (`job`), converts each text as its type does, skips what is
unchanged or secret, and commits at the end; an NVS call that fails ends it with
what was set so far. The results of the last two calls are not looked at: the
post is acknowledged though the commit failed or the task that restarts the device
was not created (`Acknowledge`, `RestartFails`). Nor are errors of the getters: a
page, or a service that starts, may have the default of a setting instead
(`Blank`). `page` is what the last GET printed, which a post may send
back. `running` is what the services read at boot, `legit` history of what
committed and later posts meant. `adrift` is history of the two failures after
which the services need not have what is stored: no restart was started for a
post, or a setting was missed at the last start; `TakesEffect` claims nothing
until the next.

### Receiver

`web` is the place of the HTTP server task, in which all handlers run one after
the other: storing the profile, resetting what is known of it (`ResetProfile`),
looking at the type of the receiver, and queueing its commands one by one
(`QueueNext`) until one is refused (`GiveUp`): the queue is full, or the signal
mask in flash is longer than its command can hold (`MaskTooLong`). A profile is
reduced to the number of its commands, the positions that expect an answer and
that of the mask. (A mask that fits is one command more; `Length` is taken with
or without it.) `attempt` is history of the application a poll began, and of its
being given up. `Poll` and `MarkQueued` are the two locked sections of
`receiver_poll`. The command task takes a command (`Receive`), sets busy and the
expected token (`Announce`), writes it, and ends the wait with an answer
(`Done`) or without (`TimesOut`, `Retry`), in any order, because the last look
at `expect_matched` is before the end of the wait. Each accepted command has a
ticket; `tried` and `last` are history over tickets. What the receiver sends is
reduced to its type (`DetectDevice`) and to lines that contain the expected
token (`MatchLine`).

### ReceiverStatus

The other half of `receiver.c`, byte by byte: the UBX parser with its checksum
and length, the line buffer with its overflow, and the updates of status and
satellite table that a sentence, a Unicore log or a UBX packet asks for. The
handler holds the mutex for all updates of a message (`todo`), but time passes
between them. A full table gives up its oldest entry. The HTTP task works out
ages in one locked section and copies the table in another, with the handler in
between. An age is cut to 32 bits of milliseconds (`receiver.c:1211`, `1237`), here
modulo `AgeMod`: once in 49.7 days what is long gone is young again for as long as
`Stale`. `Within` says just that, so that nothing else may be stale. `reported` is
history: when each satellite named so far was last named.

### RtcmParser

A byte is its place in the frame it belongs to, `<<n, i>>`; what the parser sees
of it is `Value`: a small number, or for a checksum the negated number of the
frame. A payload may hold preambles, and a checksum may look like one or like any
length, so that the parser begins a false frame (`Hunt`) inside data or at a
frame the buffer did not take whole (`cut`). `stream` is the buffer that takes
part of a chunk when it is full; `frame` and `expected` are the parser's buffer
and length. `Resync` is what the parser does with a frame whose checksum does not
match. Two histories are for `FewSwallowed`: `misled`, that the parser began a
false frame since it last found one, and `swallowed`, the whole frames whose
first byte it has gone past since it last found a frame or began a false one. A
false frame costs the whole frames that begin among its bytes and no other. How
many false frames follow each other depends on the data and has no bound; with
the sizes of the code (1023 bytes of payload, 6 around it) each costs at most 172.
The filter's interval is armed by
`MarkSent` when a frame was queued, and not when the queue refused it.

### LoraLink

Frames are numbered in the order the parse task fragments them. `BeginFrame`
takes the next `frame_seq`, `EnqueueFragment` is one turn of the loop with its
callback, `QueueFull` the turn that finds no room (the loop returns, what is
queued stays). `PacketArrives` and `PacketLost` are one round of the base's
transmit task together with the rover's interrupt task. `Reassemble` is
`lora_transport_reassemble_push` followed by the RTCM check and the UART write
of the rover: a new key resets, a received index is refused, the last missing
fragment completes. `buffer[i]` names the frame the bytes at fragment i come
from, so that mixtures are visible; a CRC-24 is taken to reject each of them.
Reboots of either side keep what is in the other.

### LoraTx and LoraRx

On the base, one packet at a time, by its number. `LockFree` stands for
`s_radio_mutex`: the interrupt task holds it between reading the flags
(`IrqRead`) and acting on them; events are emitted after it is released
(`IrqEmit`). `Raise` is the chip setting a flag: DIO1 gives the semaphore only
when no flag was set before (a rising edge). `TxSendFails` leaves the chip in
any state the failing SPI command could. The wait of the transmit task ends on
an event, when nothing is to come any more (`TxTimeout`), or, as a fault, too
early (`TxTimeoutEarly`). `LoraLink` takes one round of this task for
`PacketArrives` or `PacketLost`; that packets go on the air in queue order and
at most once, which it relies on, is `ImplementsLossyStream` here.

On the rover, `app_main` builds and checks the configuration, sets up the chip,
starts the reception and registers the pipeline (`boot`); the interrupt task
goes through its SPI commands one by one (`irq`), each of which may fail before
or after it took effect. `named` is the packet the buffer status names, `payload`
what the buffer holds, so that reading a packet that was replaced is visible.

### DutyCycle

One bucket per second of the window. Any number of seconds pass between
`CanSend` and `RecordTx`. `total` is the airtime recorded until the end of each
second, the reference the ring is compared with: what was recorded in a window
is a difference (`Spent`). A policy that is not enforced refuses
nothing and is left out.

### SocketServer and SocketClient

In `SocketServer` the list is its pointers: `head`, `next`, and per task those of
its walk (`cur`, `nxt`). SLIST_INSERT_HEAD is two stores (`Add`, `AddLast`); to
remove a client is to close its socket, to look for the one in front, and to take
it out and free it (`Destroy`, `Find`, `UnlinkAndFree`), in either task and in any
overlap with what the other does. When a task holds, or would reach, a client that
was freed, or SLIST_REMOVE would look for one that is no longer in the list,
memory is used that is not its own (`Raced`): from there the model claims nothing
and does nothing. What is claimed is about behaviours before. One overlap does not
touch freed memory and is seen for what it does: a client that comes in while the
event task removes the first one may be lost from the list (`late`), keeps its
socket and gets no data. `since` is the first chunk the event task took after a
client came in; accept and the socket of a UDP client may fail (`Refuses`). The
driver's buffer and the event queue are bounded and block the tasks that write to
them.

The socket client has one variable `sock` that its task opens, reads and closes
while the event task writes to it and closes it; connections are numbered, so that
a leak is visible. `destroy_socket` looks at the variable, shuts down, closes and
clears it in four steps that read it again each time, in either task. A connection
the client's task stores between two of them can be overwritten and stay open
(`late`); none else. `attempts` and `waited` follow `retry.c`. The negative
values of `connect_socket` are kept apart: what is not -1 the event task takes for
a socket.

### NetworkBoot and W5500Mac

`pc` is the place of `app_main`. The drivers post to a queue (`events`) from
which the event task takes one at a time; the flags the main task decides from
(`linkUp`, `hasIp`, `bits`, ...) change then. The world (cable, lease, coverage)
changes at any moment, up to a bound, and the device may be reset. `slot` is the
wait of an NTRIP task for its interface.

In `W5500Mac` the pin falls when RECV is set and enabled, which notifies the
task once. Each SPI transfer of the receive task and of a transmission is a step
that may fail or garble a header; `link` closes and opens the socket in between. A
length garbled to one that could be moves the read pointer into a frame (`astray`);
what the task passes on from there until the socket is opened again is not
described.

### MdnsResponder, MdnsQuery, MdnsBrowse

The library is kept in the repository but `app_main` does not call it yet.
`MdnsResponder` has for each device its names, its interfaces' states and the
packets to send (`dev`), the action queue, and the place of the timer task while
it holds the service lock (`timer`). The service task takes an action off the
queue before it waits for the lock, so an action in hand counts as queued. A
packet carries the names as they are when it leaves; where `free` and `malloc`
give the same address again, a stale TX_HANDLE can name a new packet
(`FreshId`). Two interfaces of one device hear each other, and the one with the
lesser address stands back (`Dup`) until the other goes (`Disable`). Time
passes in ticks of 120 ms in which everything posted is handled (`Quiet`). The
addresses of the two devices are not nested (one device has both the greatest
and the second): with nested ones each would be beaten on one interface, and
only the random part of the delay, which the model takes as one tick or two,
ends the exchange.

`MdnsQuery` has each search as its caller, the timer, the parser and the service
task see it; a search is freed by its caller alone, and `Freed` makes later uses
visible. What the parser adds to results is translated function by function
(`TakePtr`, `TakeSrv`, `TakeTxt`, `TakeIp`). `MdnsBrowse` is the same for
browsing; it counts how often what is handed to the application is freed, and
stops where that is more than once.

## 3. Runs

| Run | Instance | Shows |
|---|---|---|
| `runtime_safety` | 2 slots, limit 2, 2 descriptors, 2 of {restart, enable, disable, switch of the mock} at any step; 1.7 M states | `OneTaskPerSlot`, `SocketIsOwn`, `NoSocketLeak`, `NoGhostState`, refinement of `SlotWorkers` |
| `runtime_converges` | 2 slots, limit 1, 1 descriptor, 2 of {enable, disable, link, heap} or one store of the whole configuration; 0.6 M | `GrantsWithinLimit`; exactly the chosen slots end up with a task |
| `runtime_limit` | 2 slots, limit 1, one store | **violated**: `ActiveWithinLimit` (section 6) |
| `store` | 3 slots, NVS failures and resets at any step, three settings: one writer, two stores and enable/disable; one writer with two stores and posts under the legacy keys; the self-test beside the HTTP task on a new device; 3.7 M | a reset brings back whole configurations that were asked for (`WholeRecovers`); readers see only such fields (`ReadersSee`); with legacy posts, whose keys may not be readable, each field is one that was asked for or the blank of such a key, and keys and slots agree after an acknowledged store, and the self-test restores what it found unless disturbed (`LegacyRecovers`) |
| `receiver_queue` | profiles of 2 and 3 commands, masks that fit or not, queue of 2, 2 calls, failing store and UART; 4 settings of 4 types, 2 posts, 2 calls that fail, a reset; 3 units of 9 kinds, a table of 2, 3 seconds; 0.6 M | commands in order, an applied profile went out whole, the queue empties, and unless a poll gave up the stored profile ends up applied (`AppliedUnlessGivenUp`); stored settings are meant and come into effect; what the pages show was heard and is fresh, but for the turn of the ages (`AnswersSound`), noise costs little (`SoonHeard`) |
| `receiver_full` | lengths and queue of the code, no calls | **violated**: `ProfileApplied` (section 6) |
| `lora_link` | 4 frames of 1 to 3 fragments, queue of 2, frame_seq modulo 2, 2 reboots; parser with 5 frames, room for 5 bytes; duty cycle with window 3, budget 4, 8 seconds | frames whole, once, in order; complete frames delivered; a false frame costs only those that begin in it; a refused frame does not silence its type; budget kept in every window |
| `lora_tx` | base: queue of 2, 4 packets, 2 faults; rover: 4 builds, 3 packets, one failing command; a slot with mocks: 2 clients, 4 of {mock, restart, store, link}, a store counting as 2; 0.25 M | order, no airtime counted twice, all counted without faults, the transmit task gets on (`NeverStops`); the rover's radio is lawful and reads in order, and is deaf only after the gap (`RoverSound`, `RoverWakes`); a chosen slot with an accepting mock streams, with what was stored last (`MockedRuns`) |
| `network` | boot with 2 changes of the world and a reset; W5500 with a ring of 2, 3 frames in and 2 out, 2 faults, one closing of the socket; client with 2 connections, 22 attempts; fan-out to one slot, 4 messages, 4 calls; two responders, queue of 3, one event; 0.37 M | flags follow the drivers and no wait is blind (`BootSound`); frames pass faithfully (`FramesFaithful`); the caster gets pieces in order, cut only where counted, and no socket is left but by one overlap (`CasterSound`); an uplink comes up, stops are followed, dead connections are left (`NetworkComesUp`); what probes goes on (`RespondersProbe`), no two devices keep one name (`NamesUnique`), all come to rest (`NamesSettle`) |
| `station_uplink` | boot, one change of the world | **violated**: `StationCarries` (section 6) |
| `streams` | one TCP and one UDP client, 2 chunks, 2 connections, 2 of {data, close, refusal}; 4 searches, queue of 2, 2 of them begun, 2 packets; 0.3 M | every client in the list has all data since it came in, none is forgotten but by one overlap, one client per address (`ServerSound`); searches are not used after they were freed and hold what belongs together (`QueriesSound`); data is dispatched, questions return (`NothingHangs`) |
| `browse_sync` | one service, 2 packets, queue of 3, 4 calls | **violated**: `SyncFreedOnce` (section 6) |

Why the bounds are enough. Two descriptors let a closed number come back as the
other slot's connection, two slots suffice for every statement about a pair; two
API calls reach every pair of overlapping operations, and the theorems remove
these bounds for the safety part. In `lora_link` a modulus of 2 makes every
second frame reuse a sequence number, as does a reboot; a queue of 2 with three
fragments fills in the middle of a frame, as a stream of 5 bytes does in the
middle of one; the parser's payloads are empty or end in a preamble, and false
frames of up to 7 bytes reach over two whole ones. Two faults allow an event
that is lost and one that is late in the same transmission. The ring of 3
buckets is turned more than twice.

In `receiver_queue` a profile of 3 commands fills the queue of 2 unless the
command task keeps up, so it is applied in some behaviours and not in others, and
so is every profile with a mask that does not fit (the second command);
two calls let one application follow a failed one, and a retry meet a queue
that filled meanwhile. Three units let a false start, the sentence it ends in
and the one after it follow each other; a table of 2 with three satellites has
to give one up. Ages wrap at 2 seconds and are stale from 1 on, so that within 3
seconds they are fresh, stale and fresh once more. Two posts let a failed one be
followed by another and by the restart of the first, and two failures let a restart
that was not started be followed by a setting that is missed.

In `streams` a driver buffer and an event queue of one are full whenever a task
is slow; with two connections one comes in or goes while either task is removing
or passing the other, and two chunks let the second walk find what the first
left. Two searches with a queue of two meet each other, the timer and a queue
that refuses.

In `network` the world changes twice (a cable that comes and goes, or a cable and
a station). 22 attempts of the client reach the end of the table of delays; a
stream buffer of 3 takes the first half of every second message when nobody
reads it. The responders start in three worlds: both devices on the air by
their stations with services of one name; the gateway alone with both
interfaces; the other device alone, so that the gateway comes later. One event
(a link changes, a packet is lost, a query comes, the host is renamed, a service
is added, removed or renamed) then meets any stage of the probes; a queue of
three overflows in some behaviours (`overflow`), which is why `NamesUnique`
and `NamesSettle` claim nothing after it. Two events in one round of probes do
violate the uniqueness of service names (see `NamesUnique`), so that the
property claims the host name only, beyond one event.

Deadlock is not checked where the bounds stop the behaviour: all frames sent,
all packets sent, the clock at its bound, all events used. The runtime's and the
receiver's runs check it.

### Fairness

* runtime: weak fairness of every task and of a client inside a call (FreeRTOS
  schedules ready tasks; none is starved for good because all of them block).
  Strong fairness of `SupervisorStarts`: `xTaskCreate` may fail for lack of
  memory, but not each time it is tried. Clients need not call at all.
* `Receiver`: weak fairness of both tasks, of `Poll` (an open page of the web
  interface asks for the status every few seconds, `www/c/dashboard.js`) and of
  `DetectDevice` (the receiver sends on its own). Answers are not fair, nor is
  any call. `ConfigStore`: the handler and the restart task.
* `LoraTx`: weak fairness of both tasks, of the end of a transmission
  (`ChipTxDone`), and strong fairness of `TxSend`: the interrupt task holds the
  mutex again and again, but receptions are milliseconds apart and it is free
  in between. `LoraRx`: app_main, the interrupt task, the end of a packet on
  the air. Faults are never fair.
* `RtcmFanout`: the generator. `SocketServer`: uart_task, event task, server
  task, and peers that read, as long as no freed memory was used.
  `SocketClient`: its task and the event task.
* `NetworkBoot`: app_main, the event task, the slot, and the drivers (link
  check, lease, join and loss of the station). `W5500Mac`: receive task, end of
  a transmission, and the poll for it.
* `MdnsResponder`: weak fairness of `Progress`, written out as
  `[]<>AtRest \/ []<><<events' = events>>_vars`; that `AtRest` is where
  `Progress` is not enabled is checked as part of `RespondersProbe`. It is
  weaker than fairness of each task.
* `MdnsQuery`: time, the timer task and callers weakly; the service task
  strongly (`ServiceRuns`, written out as well), because the timer takes the
  lock again and again but not for long.

Liveness properties of the runtime and of the boot assume that link, heap,
cable or coverage are good for ever from some point on (`<>[]`), nothing about
before.

## 4. Proofs

All for any value of the constants under the named assumptions
(`ConstantsAssumption`, `StoreAssumption`, `SettingsAssumption`,
`ReceiverAssumption`, `StatusAssumption`, `ConfigAssumption`, `LinkAssumption`,
`PathAssumption`, `TxAssumption`, `RxAssumption`).

* **NtripRuntime**: `TypeCorrect`; `InvCorrect`, the inductive invariant `IInv`
  that says, for each place of a task, what handle, task_running, sock, the
  local descriptor and the owner of every descriptor may be. None of
  `OneTaskPerSlot`, `SocketIsOwn`, `NoSocketLeak`, `NoGhostState` is inductive
  by itself (they say nothing about handle, on which the supervisor decides);
  each follows from `IInv`. `GrantsCorrect` uses `PassInv`: of the slots the
  pass has been over, no more than `supAllowed` are granted.
  `RuntimeImplementsWorkers` maps every step, with a lemma per task.
* **NtripStore**: `OneWriterRecovers`. With a single writer and no posts under
  legacy keys `Recoverable` holds for any number of slots and any set of
  requests. The invariant says of each place of a store which slots of RAM
  already hold the request, and that blob and keys hold what was legitimate.
  With two writers the statement is false for whole configurations (they mix
  their halves); what is left is proved of each field a reader sees
  (`ReadersNeverInvent`) and of each a reset brings back. `FieldsInv` says of
  RAM and blob that every field is one of the history (`FieldsMeant`), of every
  writer that what it stores was asked for (`AskedBy`), and of one that was
  alone how far its request is in RAM and blob (`DoneBy`), so that nothing older
  is left when history forgets. `LegacyRecoversCorrect` covers the two settings
  where more happens. Posts under the legacy keys: `OneInv` adds that what is in
  the keys is meant (`LegacyMeant`) and how far a store has set them
  (`KeysDone`); while the keys are read back, RAM shows a blank slot and
  `FieldsInv` is false, so `ReadingInv` says instead of each slot of RAM whether
  it is read, being read or still as it was, and of the blob what it said
  before. A key that cannot be read leaves the same invariant with a larger
  history (`LossFacts`, `LoadFacts`): what a read leaves in RAM is meant, or
  named by the history without that key. The self-test: `TestInv` says of one
  that nothing disturbs that it is the only writer (`Undisturbed`), that its
  snapshot is of a store without unnamed slots (`Settled`), which sanitize
  leaves alone, and `DoneBy` that the end of its restoring finds RAM and blob
  equal to it.
* **Receiver**: `ReceiverTypeCorrect`, `CommandsInOrder`, `AppliedProfileSent`.
  The invariant has three parts beside the types: tickets in the queue ascend
  and lie behind everything written, with the command in hand between the two
  (`Ordered`), no accepted command leaves the queue without being tried
  (`Kept`), and the commands of a profile have tickets in a row (`Batch`).
* **ReceiverStatus**: `StatusIsSound`, for any size of table, line and payload,
  any sentences, any noise between them and any width of the ages. `StatusInv`
  has a part for the table (`NewestInv`: every entry's time is the one reported,
  and a full table gives up a satellite only for one that was named later), one
  for the times of messages and answers (`Times`, `AnswersInv`: what the web
  task works out in its two locked sections stays true of what it read in the
  first), and the ranges of line and type (`Words`). `AnswersSoundCorrect` (in
  `WebProofs`) carries it over to the run.
* **ConfigStore** (in `WebProofs`): `StoreIsMeantCorrect`, by `SettingsInv`:
  what the getter's cast makes of the bytes of a text is what the text meant,
  for every type and number (`Bytes`, `Typed`, `Meant`); and of the post at
  hand, that the places it has been over hold its texts (`JobInv`), or else the
  history still has the earlier meanings, as it has when the commit fails.
  `PageKeepsCorrect` adds that a fresh page tells the bytes NVS holds
  (`PageInv`). It assumes of payloads what the parsers of colours and addresses
  leave of them (`Proper`), and of CONFIG_ITEMS that a default is a value of its
  type.
* **LoraLink**: `LinkTypeCorrect`; `LinkOrderCorrect`, that what is queued or
  being cut lies behind everything the rover keeps or wrote (`OrderInv`);
  from it `LinkImplementsStream`. `LinkDeliversWhole`, by `DeliveryInv`, which
  ties the fragments that arrived of each frame to what the rover holds: of the
  frame it heard of last just these (`Collects`), unless it has written it
  (`Finished`) or holds bytes of a frame that came before under the same key
  (`Mixes`); and what is still to come is of later frames or fragments.
* **DutyCycle** (in `LoraLinkProofs`): `BudgetKeptCorrect`. `DutyInv` says of
  each bucket that it holds exactly what was recorded in the last second of the
  window that falls on it, and that `total` grows with them (`Counted`); so the
  ring and the difference `Spent` agree at every second, and a packet that fitted
  when it was checked fits when it is recorded, because in between time passes and
  nothing else is charged. The sum is a recursive function; what the proof needs
  of it (that it exists, that it changes by what one place changes) are lemmas by
  the least counterexample (`LeastNumber`), not by the induction theorems.
* **RtcmParser** (in `LoraLinkProofs`): `FailureDoesNotSilenceCorrect`, because
  `last` and the history of what was queued agree (`Marked`).
  `FewSwallowedCorrect`, for any payloads and checksums: `ParserInv` says that
  the bytes under way are in the order they were written, with gaps only behind
  cut frames (`BytesInOrder`), that a parser which took the beginning of a whole
  frame holds the bytes of that frame and has believed its length (`InStep`),
  how many of the first three bytes of the latest whole frame are still to come
  (`Lag`), and that the whole frames whose beginning it has gone past in a false
  frame fit among the bytes of it (`FewGone`). A whole frame met while hunting
  is therefore found. A frame has three bytes at least, which gives the bound
  for one false frame.
* **LoraTx**: `TxTypeCorrect`; `NoOverAccountingCorrect` by counting: a
  completed transmission is one flag, or event under way, or bit, or record
  (`AccountInv`); `AccountedCorrect` by `QuietInv`, the round of chip,
  interrupt task and transmit task while nothing outside fails;
  `TxImplementsStream` by an order invariant like that of the link.
* **LoraRx**: `TypeCorrect`; `OnlyBlindIsDeaf`, with what the interrupt task
  has still to read (`ReadsAll`) and that the chip is silent before the
  interrupt task exists (`EarlyQuiet`); `RadioIsLawful`, for any set of
  requested configurations; `RxInOrder` and `RxDelivers`, by `DeliveryInv`: how
  often a packet was delivered at each place of the task, as long as its flag is
  set once less (`AtMostTwice`, `AtMostOnce`), and that one that is due was
  delivered or is on its way (`AtLeastOnce`). `RoverSoundCorrect` and
  `RoverWakesCorrect` (in `LoraTxProofs`) carry these over to the rover that
  `MCLoraTx` runs beside the base: every behaviour of the run is one of `LoraRx`.
* **Network** (`NetworkProofs`). `FramesFaithfulCorrect`: the frames in the ring
  ascend and lie behind everything passed on (`RingInv`), and until a
  transmission fails SEND answers the frame at hand (`SendInv`).
  `BootSoundCorrect`: the flags lag behind the drivers by the events in the
  queue, so the invariant is about the queue: the last event about the link that
  waits in it tells the driver's link (`LinkTold`), one about an address waits
  wherever flag and driver differ (`AddressTold`), the first of all is the start
  of the driver (`StartFirst`), and app_main waits only where something was
  started (`OneStarted`). `CasterSoundCorrect`: what a caster has, what its task
  holds and what the buffer holds follow upon each other in the order of all
  pieces (`Ordered`), and without a gap as long as nothing was left over, cut or
  dropped (`Unbroken`, a chain of whole messages up to the last one fed); the
  flag `enabled` stands for exactly one generator until it has left (`OneTask`);
  the one open connection of the socket client is that in `sock`, whichever task
  closes it and at whichever step of that the other is, or one that was stored
  while the event task had closed and not yet cleared (`ClientSockets`).

Only model-checked: the liveness and action properties under fairness (the
prover has no rule for fairness and ENABLED), and `RespondersProbe`, which speaks
of ENABLED; `ResultsBelongTogether` of `MdnsQuery`, whose results are folds and
would need induction over data; `SocketServer`, `MdnsQuery`,
`MdnsResponder` and `MdnsBrowse`; `SoonHeard`.

## 5. Not modelled, and why

* Legacy NTRIP server, client and caster: never started by `app_main`.
* JSON formatting, file serving, authentication and page layout of the web
  server; stream statistics, status LED, log, core dump, NMEA: display, without
  influence on the data path. The captive portal answers DNS queries; that it
  runs is a flag of `NetworkBoot`.
* SX126x driver: a submodule that is not part of the repository; the chip is an
  external part of `LoraTx` and `LoraRx`, written from how `lora_radio.c` uses
  it.
* Airtime estimate and its widths, the policy of priorities: pure arithmetic and
  display; the values come from a validated profile.
* Sleep and re-initialisation of the radio, `config_reset`: nothing calls them.
* LAN8720: its handlers are twins of the W5500's. PHY negotiation, address
  filters and statistics of the W5500.
* mDNS: packet encoding, IPv6, subtypes, delegated hosts, console, the port to
  POSIX sockets, PTR answers and TXT records of the responder (none takes part
  in the choice of a name).
* QoS levels and statistics of the runtime; they change no decision on tasks or
  sockets.

## 6. Findings

`ActiveWithinLimit`: the self-test's scenario `capability_limit_check`
(`main/ntrip_runtime.c:869`) requires `active_slot_count` to stay within
`max_ntrip_slots`. The supervisor bounds the slots it *grants* in a pass
(`GrantsWithinLimit`, proved), but starts the task of a newly granted slot at
once while the task of the slot that lost its grant has only been asked to
stop; until it has, the published count exceeds the limit. `runtime_limit`
shows it with one stored configuration.

`ProfileApplied`: a profile of the GNSS receiver has 18 commands or more, queued
without waiting into a queue of 12 while the command task needs 50 ms and more
for each. The queue fills, the rest of the profile (MODE, RTCMOUTPUT,
SAVECONFIG) is not sent, and when it was a poll that queued it,
`auto_apply_queued` stays set and no later poll tries again. `receiver_full`
shows it for a profile stored before boot. A signal mask too long for its
command has the same effect with room in the queue. `AppliedUnlessGivenUp`
(`receiver_queue`) shows that unless a poll's application was given up the same
operations get every stored profile applied. README.md:115-125 presents the
profiles as supported. A consequence not stated as a property: `survey_active`,
set before the profile is queued (`main/receiver.c:1842`), stays TRUE although
SURVEY START was never sent.

`StationCarries`: a slot waits for the interface that `network_is_ethernet()`
names, and that is Ethernet as soon as the driver of the W5500 was started
(`main/network.c:106`), with a cable or without. `app_main` turns to Wi-Fi when
Ethernet gets no address (`main/main.c:465`) and gets one there, but no slot ever
connects. README.md:11 promises transport over Wi-Fi and Ethernet.

`SyncFreedOnce`: the parser of mDNS packets allocates what a browse is to be
told; the comment there (`mdns.c:3891`) says that `_mdns_browse_sync` frees it. The
parser posts it, or frees it if nothing changed, and then falls through to the
end of the function, where it is freed in either case (`mdns.c:4340`); the
service task frees what was posted once more (`mdns.c:5166`). The firmware does
not browse, so the defect is dormant in it. Two others of the library are
modelled and listed as hazards: an instance that says goodbye is freed by a
function that takes the lock the service task holds (`mdns.c:7773`), and a host
probed again for its address alone does not defend its services meanwhile
(`mdns.c:4268`).
