# Ubertooth: models of the firmware, its bootloader and the host programs

TLA+ modules of the Project Ubertooth code in `src/`: the CC2400 based
Bluetooth receiver's firmware (C and C++ on an LPC175x), its bootloader and USB
stack, and the programs on the host that talk to it. TLC checks the modules on
small instances; TLAPS proves the properties named under "What is proved" for
every value of the constants.

## The system and its parts

| part | state it keeps | operations | talks to |
|---|---|---|---|
| USB packet queue, `ubertooth_usb.c`, `enqueue()` | ring buffer `fifo`, `head`, `tail`, the sticky `status` flags, `last_usb_pkt` | `queue_init`, `usb_enqueue`, `dequeue`, `dequeue_send`, `handle_usb` | receivers (producers), bulk IN endpoint and `UBERTOOTH_POLL` (consumers) |
| basic rate receiver, `bt_stream_rx()` | `rxbuf1/2` and the pointers to them, `rx_tc`, `dma_discard`, levels and their averages, squelch threshold, `cs_trigger` | the stream loop, `DMA_IRQHandler`, `TIMER0_IRQHandler`, `EINT3_IRQHandler` | SSP, DMA controller, CC2400, queue |
| mode control, `main()`, `vendor_request_handler()` | `mode`, `requested_mode`, `modulation`, `ego_mode`, the USB interrupt mask | one function per mode, some 60 vendor requests | everything |
| low energy receiver, `bt_generic_le`, `bt_le_sync`, `bluetooth_le.c` | `le`, `le_promisc`, jamming counters | following, promiscuous recovery, slave, jamming | queue, timer, CC2400 |
| hopping, `bluetooth.c`, `hop()` | `afh_map`, `used_channels`, the precalculated hop registers, `hop_mode`, `last_hop` | `precalc`, `next_hop`, `hop`, eight requests | receivers, timer |
| E-GO modes, `ego.c` | a state machine with timers | follow, continuous, jam | CC2400 |
| CC2400 SPI, `ubertooth.c` | the pins | `cc2400_get/set/strobe` | radio |
| USB stack, `lpcusb` | progress of a control transfer, configuration, endpoint buffers and interrupts | SETUP, data stages, standard requests | host, vendor handler |
| USB serial port, `usb_serial.c`, `serial_fifo.c` | two rings, the state of a chain of packets | bulk and frame handlers, `VCOM_getchar/putchar` | test programs |
| bootloader, `bootloader/` | DFU `state` and `status`, `virginity`, the flash, `bootloader_ctrl` | the DFU class requests, entry, time limit, exit | host tool, flash ROM |
| `ubertooth-dfu` | where it is in a download | download, upload, detach | bootloader |
| `libubertooth` | handle, transfer, two buffers, ring of packets, clock reconstruction | some 60 commands, bulk streaming, callbacks, signals | firmware, tools |
| command line tools | options | sequences of library calls | library |
| Kismet plugin | packet queue, pipe, capture thread, networks | open, poll, close, tracker's timer | library, Kismet |
| Python front ends | windows | drawing, conversion | the tools' output |

What is hard about it:

- *Interrupts against the main context.* DMA, TIMER0 and EINT3 interrupt the
  receivers anywhere. USB is polled in the basic rate modes, in the spectrum
  analysers and in `main()`, but comes as an interrupt in the low energy and
  E-GO modes, so the same request handler runs either inside `handle_usb()` or
  between any two instructions of the main context.
- *Buffers that are swapped and shared* between DMA, handlers and the main
  context, or between callbacks and `libusb`, with counters and flags that are
  read, used and cleared in separate steps.
- *Modes* that each decide by themselves when to look at `requested_mode`, in
  what state to leave the radio, and whether to set `mode`.
- *Time*: hops, time-outs and sleep timers over clocks that wrap (`clkn` at
  2^32, the 100 ns clock at 3276800000, `head` and `tail`), that the host sets,
  and that are read in two steps.
- *A bus* that loses transfers, cancels them, is reset, and a device that is
  unplugged; flash memory whose sectors change their size.
- *Signals and threads* on the host, between any two steps of a tool.

What makes the parts correct: packets leave in order, whole, and losses are
reported (queue); each packet is one block of symbols and says so when the
radio was retuned in it, and its levels are those of its channel (receiver);
each accepted request takes effect and idle is silent (modes); the receiver is
on the channel on which the next packet comes (low energy, hopping, E-GO);
handlers run once, in order, and the host learns what they did (USB); the
bootloader never damages itself, and a reported success is one (update); a
callback sees each block once and reports true times, and a program ends when
it is told to (host). `PROJECT.json` lists the hazards line by line.

## Modules

A definition has the name of the function it models where there is one;
`PROJECT.json` gives its lines. An operator whose comment begins with "Mutant:"
is a faulty variant of the definition after it, with which the properties were
tried out; it is used by nothing.

| module | models | uses |
|---|---|---|
| `PacketFifo` | abstract: a bounded FIFO that reports refusals | |
| `UsbQueue` | the packet queue with its producer and both consumers | implements `PacketFifo` |
| `RxStream` | the basic rate receiver with DMA, timer and carrier interrupts | |
| `Levels` | what the same receiver measures: levels, averages, squelch, carrier trigger | |
| `LeWindow` | the search of promiscuous mode, `bt_generic_le()`: squelch, hold, the two blocks of `unpacked` | |
| `Modes` | `main()`, the requests that choose modes, the life of every mode function | |
| `LeLink` | channels, CRC and hops of a low energy link | |
| `LeFollow` | following a connection: `bt_le_sync()`, `connection_follow_cb()`, hops, countdown, time-out, jamming | |
| `LePromisc` | finding a connection by its packets: `see_aa()`, recovery of CRC, interval and increment, following | `LeLink` |
| `Hopping` | `precalc()`, `next_hop()`, `hop()` and the requests around them | |
| `Ego` | `ego_main()` and its three tables of handlers | |
| `VendorRequests` | every vendor request as a function of the firmware's state | |
| `UsbRequests` | the standard and OS feature requests | |
| `UsbControl` | control transfers on the device's side | `VendorRequests`, `UsbRequests` |
| `Commands` | the commands of `libubertooth` and the host's side of a transfer | `UsbControl` |
| `UsbSerial` | the virtual COM port and the program of `usb_test` | |
| `Dfu` | the bootloader, its DFU state machine and flash driver | |
| `DfuTool` | `ubertooth-dfu` and a lossy bus | `Dfu` |
| `HostTools` | the tools as sequences of library calls, by their options | |
| `HostStream` | the library's transfer, buffers, signals and ends | runs the calls of `HostTools` |
| `HostCallbacks` | what callbacks make of packets; the ring of banks; files | |
| `KismetSource` | capture thread, pipe, main loop and tracker of the plugin | |
| `Host` | one of the three at a time: a tool, a callback at work, the plugin | `HostStream`, `HostCallbacks`, `KismetSource` |
| `UsbQueueProofs`, `RxStreamProofs`, `DfuProofs`, `LeFollowProofs`, `LeWindowProofs`, `EgoProofs`, `HostProofs` | theorems about the module of the name, `DfuProofs` about `Dfu` and `DfuTool` | `ModFacts`: arithmetic of `%` |
| `MC...` | the constants of the runs | |

Three modules are sums: a variable `who`, chosen in the initial state, says
which of several components runs, and the properties of one are stated for the
behaviours in which it does. `MCUsbDevice` joins the commands and the serial
port, two programs for the same controller of which one runs on a device;
`MCRadio` joins four parts of the firmware that run in different modes, with
what they share of its state in common (`channel`, `hop_mode`, `do_hop`), and
extends `Ego`, one of them, so that the property the run checks is the one that
is proved; `Host` joins a tool, a callback at work, and the plugin. `MCHost`
gives `Host` its constants, and its `OptionsKeepOrder` has TLC evaluate, for the
options that each tool's `main()` tells apart, what `HostStream` assumes of a
tool's calls.

**UsbQueue.** `head` and `tail` are the free-running counters, wrapping at
`Modulus` as the `u32` do at 2^32 (a multiple of the ring's size, as there).
An interrupt handler runs to completion, so it is one action; `enqueue()` with
`usb_enqueue()` inlined is split at each access to memory a handler shares:
`ReadHead`, `EnqueueFull`/`EnqueueFree`, `LoadTail`, `StoreTail` (the load and
the store of `++tail`), `Fill`, `Stamp`. In the polled modes `HandleUsb` looks
at the endpoint once and `DequeueSend`, `SendKeepAlive` and `SendNothing` are
the two calls of `dequeue_send()` it permits. With `UsbIrq` the request
`UBERTOOTH_POLL` and `queue_init()` come between any two steps. A packet is a
frame number in its body and one in its status byte, so that a mixture shows.

**RxStream, Levels.** In `RxStream` half a block of symbols is the unit of
data, with its age and whether the radio was retuned during its block. The main
context's program counter follows the loop of `bt_stream_rx()` and the part of
`hop()` that retunes. `skew` and `unmarked` are history variables for two
situations the properties except: a stream that began with its pointers
swapped, and a discard mark that another handler took away. `Levels` has the
same loop from the point of view of its measurements: sums and counts in their
widths, the filter in units of 1/256, the threshold that a hop computes from
it; hops and requests come inside the wait, the handlers anywhere.

**Modes.** The main context's place is `pc`, and `fn` says which of two twin
functions it is in. `vendor_request_handler` holds the requests that bear on
modes; `Polling` says where `handle_usb()` is called and `UsbIsr` serves a
request anywhere else while the interrupt is unmasked. `radio` is what
`FS_LOCK` shows. Both builds, with and without `TX_ENABLE`, are initial states.

**LeFollow.** The unit of time is 1.25 ms, in which `TIMER0_IRQHandler()`
counts once; `due` says that it has yet to, so that the count and a packet of
the same unit come in either order. `air` is the one connection that the
receiver can join: its channel, interval and next event are kept apart from
`le`, and the properties compare the two. `Sound` is the condition under which
the connection can be followed at all: no missed update, the first packet of a
changed interval heard, no request in between that clears `do_hop` or
`hop_mode`. A receiver that joins after the connection's first event counts
events from there (`late`), so an update's instant is off by the events it
missed. As long as counters do not wrap it only comes too late; across the wrap
of `conn_count` it can be read as nearer than it is, and the change is made
early (`Misread`). `Sound` excepts both.

**LePromisc.** From the first packet seen to a followed connection. What is on
the air (`air`) and what the receiver has made of it are apart again; the
checksum and the hop increment are computed as the code does, on the bytes of
two kinds of packet. `inarow` is that two rounds of the channels were heard one
after the other, without which the interval cannot be known; `misled` that a
difference of the clock was taken that is none of two packets of this
connection.

**LeWindow.** The loop of `bt_generic_le()` up to `data_cb()`, with the DMA and
carrier interrupts between any two steps. A block is its number, `unpacked` the
numbers of the blocks that its two halves came from, piece by piece; `swapped`
is that `bt_le_sync()` left the buffers the other way round than `dma_init()`
has them. `tardy` are the blocks whose carrier was sensed when the block before
had ended but was not yet tested for one: it counts for that block.

**Hopping.** The hop selection on the real 79 channels, with the registers and
the bank of `precalc()`, which are state: zero until the first address
(`Unset`), and afterwards what the last address found the map to be. `visited`
and `again` record the channels of a round. The loops of `hop()` that look for a
channel are steps (`seeking`), because they may not end.

**Ego.** One action per handler of the three tables. Time moves on when no
handler has anything to do (`Idle`). The skateboard sends every 11 ms on the next of its
channels, and each packet may be lost.

**UsbControl, Commands.** A vendor request is an operator from the state of the
firmware to its next state and an answer, so that `VendorRequests` is read next
to the `switch` of the handler. `USBHwISR()` is a scan over the endpoints,
between any two of which the host acts. A transfer of `Commands` is queued,
sent packet by packet, cancelled at any point, and its result is interpreted as
the wrapper in `ubertooth_control.c` does. The modes in which requests are
served by polling and those in which they are not are two initial states. `late`
is the one case in which a SETUP is served before an older interrupt.

**UsbSerial.** The two rings with the program's reads and writes of `head` and
`tail` as steps of their own. The endpoint is double-buffered.

**Dfu, DfuTool.** Addresses are counted in blocks of `transfer_size`. A request
is one action because the bootloader polls USB. `PowerCut` may fall after the
erasure of a sector and before its block is programmed. The tool's control
transfers are served, stalled, or lost before or after the device served them;
other hosts, and tools that were killed, have left the device in any state.

**HostStream, HostTools.** A tool is its list of calls; `HostStream` runs them.
`HandleEvents` is `cb_xfer()`, which runs in `ubertooth_bulk_wait()`, in
`ubertooth_bulk_receive()` and in every command, that is also in those that a
callback sends. SIGALRM and SIGINT come between any two steps, and the device
leaves. A tool that uses a handle it does not have ends as `"crashed"`.
`Orderly` is what the tools' lists of calls have in common: the device is looked
for before it is used, no tool looks for it while it streams, a reset comes
before any stream, and the loop that goes on after a stop is that of a tool
whose callback sends no commands and that has no time limit.

**HostCallbacks.** The six callbacks, each on a stream of packets whose true
time is known to the model: true time and what is reported are compared. A
packet that a callback has no use for, because it is to be discarded, is on no
channel of the band or tells of promiscuous mode, is not tracked either, so
that the clock may begin again without anyone seeing it (`Ignored`).

**KismetSource.** `enqueue()` and the drain of `Poll()` hold the lock and are
one action each; the read of the pipe before it is one of its own.

## Runs

| run | module | shows |
|---|---|---|
| `queue_polled` | MCUsbQueue | polled: the queue implements `PacketFifo`; a reading host keeps getting packets or keep-alives across the wrap of `clkn`; queued packets are sent |
| `queue_irq` | MCUsbQueue | from interrupts: finished packets are whole, in order, and not altered or forgotten, unless `queue_init()` fell into `++tail` (`raced`) |
| `queue_torn` | MCUsbQueue | finding 1: a packet delivered before it was filled |
| `rx_stream` | MCRxStream | buffer swaps keep step with DMA, packets copied in time are whole, retuned ones are marked, a stop ends the stream |
| `rx_swap` | MCRxStream | finding 2: the firmware reads the buffer that DMA writes |
| `modes` | MCModes | idle is silent, polled modes are not interrupted by USB, receivers run in a mode the DMA handler acknowledges, an accepted mode request takes effect |
| `modes_specan` | MCModes | finding 3: the spectrum analyser never starts |
| `le_follow` | MCLeFollow | the receiver is on the channel of every event, counts events, changes its interval in the right one, listens again after a link, ends a dead link, and obeys a stop |
| `radio` | MCRadio | `NoChannelTwice`: no channel twice in 64 slots of the hop selection or in a sweep, but for findings 12 and 13; `HopEnds`: each hop ends unless there is no channel to find; `HeardRight`: promiscuous mode follows what was seen often enough, with the connection's own checksum, interval and increment, the levels and triggers of the basic rate receiver are true, and in the search a block with a carrier is not dropped, nor the one after it, and comes behind the one before it, if both were unpacked whole; `EgoInStep`: the follower listens when the skateboard sends, the jammer transmits in its slots only |
| `usb_device` | MCUsbDevice | `InOrder`: handlers run once and in order, serial characters come back in order; `TruthfulResult`: a transfer's result is what happened; `CommandsMeanIt`: the words of a command arrive as they were meant; `AllEnds`: every transfer ends, every character read is sent back |
| `dfu_tool` | MCDfuTool | the bootloader stays intact, the time limit spares a session that writes, success means written, no block programmed twice, every run of the tool ends |
| `host` | MCHost | `PacketsKept`: callbacks get each block in order, Kismet's loop wakes for each packet; `HandleHeld`: who uses a device it does not have; `ReportsRight`: times, levels, trims and channel maps; `HostEnds`: streams, polls and the plugin's thread end |

Every property is preceded by what it says in words. Each property of a passing
run fails when the definition named with it in `PROJECT.json` under "mutants"
is replaced by its faulty variant.

### Bounds

- `UsbQueue`: a ring of 3 slots, 2 laps before the counters wrap, a clock of 4
  ticks with a keep-alive after more than 2, 7 frames polled and 9 from
  interrupts: more frames than the counters have values, so full, empty, and
  every wrap are met with each other. The frame limit is the only reason for
  the runs from interrupts to stop (`CHECK_DEADLOCK FALSE`).
- `RxStream`: 2 channels tell a retuning from none; `rx_tc` is cut at 2 because
  the code only compares it with 0 and 1; streams are restarted without limit.
- `Modes`: no constants; the whole state space is searched. `EGO_CONTINUOUS_RX`
  is joined with `EGO_FOLLOW`, and the two modulations the receivers know are
  joined.
- `LeFollow`: 3 data and 2 advertising channels, so that an increment is not its
  own inverse; intervals of 4 and 5 units, of which the "byte" holds the first;
  counters of 6 values, which wrap; connections of 5 events with one change of
  interval, announced 2 events ahead. One request of the host (jam mode,
  sniffing or a channel) comes in the middle of following.
- `Hopping`: the real 79 channels and registers, one address, one offset of the
  clock, 300 ticks of the hop selection (two segments of 64 slots and their
  border) and 64 hops of a sweep and more, maps of 40 and of all channels, of
  which the second has channel 77, one late hop. Four requests: as many as a
  map, an address, the map's end and the start of hopping, the shortest way to
  hop with what a map left in `bank`; hopping before any address takes one.
- `LePromisc`: 5 data channels, so that every increment has another inverse; a
  list of 2 addresses for 3 that are seen; a clock that wraps at 200 with the
  code's error in proportion; starts far from the wrap and shortly before it.
- `Ego`: 80 ms, seven periods of the skateboard, over a clock that wraps at 23.
- `Levels`: `rssi_count` wraps at 2 and not at 256, with at most 3 readings for a
  block, so that exact and wrapped counts both occur; the filter's weight is 128
  of 256 instead of 3, so that two blocks move it visibly; readings at both ends
  of a byte's useful range.
- `LeWindow`: 3 blocks of 2 pieces, 2 carriers and a DMA error: enough for a
  block whose carrier counts for the one before, that block, and one after.
- `MCUsbDevice`: endpoint 0 has packets of 16 bytes and not 64, so that answers
  of less than one packet, exactly one, exactly two and more occur; every
  command comes first, one of four after it; one cancelled transfer, one bus
  reset. The serial port has rings of 4 and packets of 2.
- `Dfu`, `DfuTool`: 8 blocks with a boundary of sector sizes, two sector sizes,
  the bootloader as the first small sector; values of `wValue` at the border of
  the bootloader, inside a large sector, and beyond the flash. One lost
  transfer per behaviour, at any point.
- `MCHost`: 15 tools and sets of options, of each those that change its calls; 2
  packets per transfer, transfers numbered modulo 4; callbacks see 4 packets
  over a ring of 2 and a clock that wraps at 50; Kismet's queue has a limit of 1
  instead of 20, for 4 packets of 2 networks, one of which is an inquiry's.

The runs with such limits, or with programs that return, may stop, and their
cfg says `CHECK_DEADLOCK FALSE`.

### Fairness

- `queue_polled`: weak fairness of the main context, of the clock, and of the
  host that reads. `Tick` waits for a `handle_usb()` since the last tick: a
  round of the polling loops takes less than the 312.5 us of a tick.
- `rx_stream`: weak fairness of the main context, of the capture of symbols
  while the SSP is open, of the DMA handler, and of `EINT3`, that is, carriers
  recur. The DMA handler runs within the 400 us of the next block.
- `modes`: weak fairness of the main context, whose processor does run, and of
  the arrival of a block at a receiver that is on (the CC2400 clocks out
  symbols whether anybody transmits or not).
- `le_follow`: weak fairness of the main context, of the timer, of time and of
  the end of a packet; strong fairness of the timer's hop in `HOP_NONE`, which
  comes every 128 ticks. That a silent link is timed out rests on the first two.
- `radio`: weak fairness of `hop()`, which the loop of the receiver calls. The
  other components have safety properties only.
- `usb_device`: weak fairness of the device's scan and of the host's controller,
  not of anybody who issues, cancels or resets; for the serial port of the
  interrupt's handlers, with the host that fetches, and of the program.
- `dfu_tool`: weak fairness of the tool. `ToolEnds` excepts a device that has
  gone away, where `enter_dfu_mode()` loops without end.
- `host`: weak fairness of the tool, of the plugin's two threads, and strong
  fairness of a transfer that is filled: a device that sends at all sends at
  least keep-alives, and not every transfer times out first. Signals, and the
  device's departure, are free never to come.

Liveness is stated as `[]<>` of a state wherever the request it answers is
still visible in the state; TLC checks that much faster than `~>`.

## What is proved

All theorems are of the form `Spec => []P`, or `Spec => P` for a property of
steps or an abstract specification, for every value of the constants that
satisfies the named assumptions. Each rests on an inductive invariant that
stands at the end of the component's module or, for `EgoProofs` and
`HostProofs`, next to the proofs, in named parts, and that TLC confirmed on the
component's run before it was proved.

- `UsbQueueProofs`: `TypeCorrect`; `QueuedPacketsWhole`,
  `QueuedPacketsOrdered`; `CompleteNeverLost`. The invariant is `QueueInv`.
  Wholeness alone is not inductive: `ProducerInv` adds what the producer knows
  at each step (the head it read can only be out of date in the direction that
  makes the queue look fuller; until `tail` is stored there is a free slot;
  afterwards its slot is the newest one unless the queue was emptied), and
  `NewestInHand` that the frame in hand is newer than all that is queued. After
  a `queue_init()` inside `++tail` nothing but the types is claimed until the
  next one, hence `~raced => SoundInv`. `ModFacts` and the lemmas on `Cyc` carry
  the arithmetic around the ring; sizes need not be powers of two, but the
  counters' range must be a multiple of the size, as it is in the code.
- `PolledIsFifo`, in the same module: with the USB interrupt masked (`~UsbIrq`)
  the queue implements `PacketFifo`. The FIFO is the sequence of the slots from
  `head` to `tail`, without the newest as long as the producer is still filling
  it; so the producer's `Stamp`, and not its `++tail`, is the abstract
  acceptance, a full queue the refusal, and the sending of a slot the delivery.
  `PolledInv` says what polling adds to `QueueInv`: nothing moves `head` between
  the producer's steps, so the head it has read is the queue's, and the slot it
  has published stays published.
  `PolledDeliversWhole`, from the same invariants: whenever `handle_usb()` runs,
  what is published is finished (`DeliveredWhole`). It is the other half of the
  run `queue_torn`, which finds the packet that the interrupt tears.
- `RxStreamProofs`: `TypeCorrect`, `ParityKept`, `TimelyPacketsWhole`,
  `RetuningsMarked`. The invariant is `StreamInv`: streaming and DMA go
  together, the parity of the swaps, where the block completed last lies
  (`CompletedWhole`), and that the copy reads it (`CopyInStep`). For the
  discard marks `MarkInv` follows a retuning through its block: the mark is in
  `dma_discard` while the block is received (`ProgressMarked`), and in
  `dma_discard` or on its way to `status` when it has ended (`EndedMarked`), or
  another handler took it.
- `LeFollowProofs`: `LeInvariant`, and from it `StaysOnChannel`,
  `CountsEvents`, `UpdatesInTime`, `BackToListening`, for any number of
  channels, any intervals, counters of any width and connections of any length.
  `OnChannel` is a comparison of two clocks, the receiver's `interval_timer` and
  the connection's time to its next event, which no single step relates.
  `InStep` is the equation between them at each point where a hop is due, asked
  for or done; `UpdateKnown` and `Kept` say that the update in hand is the
  connection's; `Counted` that the count is that of the event, or of the next
  one after the hop to it; `Applying` and `Unapplied` what holds in the first
  event of a new interval until its first packet. `InstantAhead` is where the
  proof met the wrap of the counters, see `Misread` above: the run's
  connections are too short for it, and TLC meets it with `Width = 7` and
  `MaxEvents = 8`.
  Assumed (`IntervalAssumption`) are intervals longer than an update's offset by
  more than two units, as an event has to end and `hop()` to retune before the
  next one begins, counters wider than an interval, and updates announced by
  less than `InstantLimit` events. The offset's bound is a limit of the model:
  an offset near the interval is outside of what is proved.
- `LeWindowProofs`: `CarriersHeard`, that is `WindowRight`, for any number of
  blocks, pieces, carriers and DMA errors, if `CS_HOLD_TIME > 1`. `WindowInv`
  says at each step where the carrier of a block is remembered, from the block
  that is being received (`FreshKept`) to the one that was taken (`TakenKept`),
  and follows the pieces of `unpacked` to the blocks they came from
  (`UnpackedInv`, `OlderInv`). The code's hold is 2. Its comment
  (`bluetooth_rxtx.c:57`) allows 1, and TLC finds that a block after a carrier
  is then dropped; hence the hypothesis.
- `DfuProofs`: `TypeCorrect`, `BootloaderProtected`, `SessionNotTimedOut`, by
  `DfuInv`. The point is `SectorsApart`: no block that `write_permitted()` lets
  through lies in one sector with a block of the bootloader. It needs of the
  layout what `SectorAssumption` says, that the bootloader ends at a boundary
  of small sectors, and that the numbers of large sectors lie above those of
  small ones; the chip's layout (64, 256, 16, 128 and 14) satisfies it.
  Of the tool on its lossy bus: `ToolInvariant`, `ToolSparesBootloader`, `SuccessHolds`,
  `SuccessWritten`, `NeverSpoils`. That all blocks are on the device at the end
  is not inductive, as nothing in the answer to block n speaks of the blocks
  before it. `ToolInv` adds that a download goes through the blocks in turn
  (`CountsBlocks`), that the rest of the sector it is in is erased
  (`ErasedFrom`, `TakesErased`), and that the device takes every block and the
  blocks behind it hold the image (`TakesAll`), also when a session that was cut
  off, a reset or another host left the flash in any state. It needs `BorderAssumption`, that
  the change of the sector size is a boundary of both, as on the chip.
  `SuccessHolds` is without a condition on the image: what lies on the flash is
  right. `SuccessWritten` is the property of the run, of an image that fits
  (finding 11).
  `ToolIsHost`: the tool's specification implements `Dfu`, with the device's
  variables for themselves. Each of its steps is a request that a host may send,
  a step of the device, or none, whether a transfer is answered, stalls or is
  lost. So what is proved of the bootloader for any host holds of this one. The
  hypothesis is that `Values` names the blocks of the chip and of the file, as a
  wValue of 16 bits does; the run `dfu_tool`, where other hosts try two
  values only, does not meet it, and nothing there rests on it.
- `EgoProofs`: `FollowerKeepsUp` and `KeptInStep`, for a skateboard that sends
  every 11 ms, as ego.c expects (`Period = 11`), any range of the clock above 22,
  any build and any length of time. `KeepsUp` speaks of the moments at which a
  packet begins, which may be any number of slots after the packet that the
  follower last heard: `InStep` is what holds at each of its steps in between. It
  compares the phase within the slot of 11 ms with the handler's state and timer
  (receiving from phase 7 to phase 3 of the next slot, asleep from 1 or 3 to 7),
  and `channel_index` with the skateboard's channel. That a packet missed costs no
  step, however many are missed, is that both ways around the handlers come back
  to phase 7. `JamsInSlot` follows the beginning of a packet (`anchor`) to the
  jammer's timer; `ClockDifference` says that the code's difference of two
  readings is the time between them on either side of the place where CLK100NS
  begins again.
- `HostProofs`: `HostAlways`, and from it `PacketsAreKept`, `HandleIsHeld` and
  `ReportsAreRight`.
  Of a tool, for any list of calls that is `Orderly`, any number of packets in a
  transfer and any modulus of the transfers' numbers: `ReceivesInOrder` and
  `HandleHeld`, with signals, timeouts and a departing device between any two
  steps. `ToolInv` has the order of a transfer's way through `full_usb_buf`,
  `usb_really_full` and the callback (`InOrder`); what a flag that is set
  proves about the calls before it, from the list alone (`Caused`: a stop needs
  a stream or a time limit before it, a caught alarm a stream with one); what the
  loop that does not test `stop_ubertooth` can meet (`Endless`); that a
  transfer can be left under way by nothing but the race with its time limit
  (`LeftPending`); and which calls a tool without a device can have come to
  (`Missing`). None of them is inductive without the first two: that a callback
  overwrites nothing when its commands handle events rests on what the calls
  before the stream were.
  Of the plugin, for any limit of its queue, any piconets and any number of
  packets: `WakesUp` and `NetsTold`. `QueueInv` says that the bytes in the pipe
  and `pending_packet` account for what is queued; `NetsInv` that what is tracked,
  dirty and told adds up. That `Poll()` handles the queue's packets one after the
  other is an induction over the queue; it is made on the set of the lengths for
  which it fails, by the well-ordering of the natural numbers
  (`WellFoundedInduction`), which needs no operator for a parameter.
  Of a callback at work, for a ring of any size, any channels from 0 up, clock,
  levels and number of packets: `ReportsRight`. `CallbackInv` knows where the
  last packets are (`Ring`), whose turn it is (`Turn`: for `cb_rx`, the oldest
  bank, which before the ring is full was never written), and that no packet's
  turn comes twice (`Logged`), so that a report that was not made for the last
  packet is not of it. `Timing` compares the clock with the time of every packet
  whose turn it was, tracked or passed over, for `TimeTrue`; `Differing` that the
  device's clock and the time are in phase, which gives the difference to the
  packet before on either side of a wrap; `Remembered` puts the packets of each channel, counted from the last,
  against the places of `rssi_history`; `Mapped` each channel's `last_seen`
  against the last packet on it; and the trim is shown to put access codes at
  `CLK_TUNE_TIME` whichever way `Trim` rounds it. Assumed
  (`CallbacksAssumption`) are a time between two packets below the clock's range
  (327 s), as nothing could tell more, a clock that begins again below 2^32,
  and a slot longer than the two offsets in it.

Only model-checked:

- every liveness property: fairness and `ENABLED` are out of the prover's reach;
- `Modes`, which has no constants, so that TLC's search is already complete;
- `NoChannelTwice` and `HopEnds`, as `Hopping` uses `Bitwise`, with which no
  theorem can be stated;
- `InOrder` of the serial port and `CommandsMeanIt`: they are stated with folds
  over sequences, and a statement about all sequences needs induction over data;
- the rest of the runs `radio` (`LePromisc`, which uses `Bitwise` too, and
  `Levels`) and `usb_device`.

## Findings

1. `usb_enqueue()` publishes a slot before `enqueue()` fills it; from the
   interrupt, `UBERTOOTH_POLL` can deliver the old content
   (`ubertooth_usb.c:244`, run `queue_torn`).
2. `dma_init()` starts at `rxbuf1`, but the buffer pointers are what the last
   stream left: after an odd number of blocks the firmware reads the buffer
   that is being written (`bluetooth_rxtx.c:1033`, run `rx_swap`).
3. `specan()` and `led_specan()` wait for the radio to unlock but do not turn it
   off; after `RX_SYMBOLS`, even with a stop in between that `main()` does not
   come to see, they never start and USB is dead (`bluetooth_rxtx.c:2410`, run
   `modes_specan`).

The others are cases that a passing property has to except; `PROJECT.json`
quotes what the repository says of each.

4. `ubertooth-dfu` reports success with blocks missing (`ubertooth-dfu.c:355`,
   `unsure` in `SuccessIsWritten`).
5. `connection_follow_cb()` reads the interval of a `CONNECT_REQ` from one byte
   (`bluetooth_rxtx.c:2070`, `cut` in `IntervalRight`).
6. `rssi_count` wraps while a hopping receiver waits for a carrier, and the
   average of the levels is the sum divided by what is left
   (`bluetooth_rxtx.c:190`, `overrun` in `AverageTrue`).
7. Promiscuous mode adds a wrong constant when the clock wraps, and compares the
   first packet of an attempt with the last of the attempt before
   (`bluetooth_rxtx.c:2157`, `misled` in `Recovered`).
8. It follows an address after four sightings, where the comment says five
   (`bluetooth_rxtx.c:2308`, `Sighted`).
9. After SIGALRM `stream_rx_usb()` waits for a block that no transfer brings
   (`ubertooth.c:208`; `StreamsEnd` states the end of a timeout only for
   `ubertooth-rx -z`). In `rx_afh()` the flag is not reset before the next stream.
10. A callback that sends commands can end its stream by what "should never
    happen" (`ubertooth.c:200`); `ReceivesInOrder` shows that nothing is
    overwritten.

One more was met in proving `SuccessIsWritten`, which needed a bound on the
image that the tool does not check:

11. `download()` sends a file of any length; what the flash has no room for is
    refused, and the tool reports success (`ubertooth-dfu.c:349`, `Fits` in
    `SuccessIsWritten`; without it TLC finds this with an image of seven
    blocks).

Two more were met when `bank` was made state:

12. Hopping that is started before an address was set stays on 2402 MHz, because
    `bank` is zero until `precalc()` (`bluetooth_rxtx.c:620`; `ubertooth-rx -l`
    without `-u` does this; `hopper = Unset` in `NoChannelTwice`).
13. An address that is set with AFH on and channel 77 in the map puts 77 into
    `bank[0]`, and clearing the map leaves it there: 77 comes twice in a segment
    and 0 never (`bluetooth.c:79`; `hopper.bank[0] = 77 /\ tuned = 77` in
    `NoChannelTwice`, which shows that no other channel comes twice even then).

Other conditions in the properties name what the code does not guarantee:

- `raced`, `skew`, `unmarked`, `slaved`, `Stuck`, `blind`, `meddled`, `leftover`:
  `bt_slave_le()` returns with the USB interrupt unmasked (`slaved`); `main()`
  ignores a request that equals `mode`, although `specan()`, `led_specan()` and
  `bt_slave_le()` never set it; a range test without an answer, the repeater, and
  a receiver started with `MOD_80211_FHSS` hold the main context for ever
  (`Stuck`). An update of a connection is lost if no packet is heard in exactly
  its event (`blind`); a link that waits for its first packet is never timed out;
  a stop in the middle of jamming leaves `le_jam_count` behind (`leftover`); a
  torn reading of the 100 ns clock can drop a live connection (`Torn`).
- `Exhausted`: the loops of `hop()` that have no channel to find; `cmd_afh`
  clears the map but `used_channels` stays what the last address made it. The hop
  selection with AFH is unfinished (a loop of `precalc()` has lost its braces,
  and nothing fills `afh_bank`), and `NoChannelTwice` leaves it out
  (`afh_enabled`); what of it remains when AFH is off again is finding 13.
- `locked`: the E-GO follower keeps step once it has heard a packet; before, it
  may sleep whenever the skateboard sends.
- `stray`, `known`: the levels of a block in which a hop came go to the new
  channel; and a sweep that begins on a channel outside the band makes
  `enqueue()` read outside `rssi_iir` until its first block.
- `late`: the IN interrupt of a transfer served after the SETUP of the next.
- `Careless`, `raced` (in `HostStream`): tools that do not look whether
  connecting succeeded, or go on after `ubertooth_stop()`; a transfer that times
  out as it is to be cancelled is submitted again, and is under way when the
  device is closed.
- `Wrap` and `trimmed` in `TimeTrue`: `track_clk100ns()` takes each wrap of a
  clock of 3276800000 for one of 2^32, unless it falls among packets that are
  passed over for as long as a whole turn of the clock, and then sees none; and
  a trim that sets the clock back it takes for a wrap.
- `failed`: a network of which Kismet's clients could not be told is clean.
- `BulkOut()` leaves a packet in its endpoint when the ring is full, and no
  interrupt comes again for it: `SentBack` speaks of what was read.

## Not modelled

- Signal processing, whitening, unpacking of symbols, `libbtbb`, which is a
  library of its own: control depends on what they find, and the models choose
  that freely.
- `usbhw_lpc.c` but for `USBHwISR()`, `lpc17.h`, `ubertooth.c` of the firmware,
  start-up code, clock and pin set-up: register I/O. The bit-banged transactions
  of the CC2400 are not reentrant, and requests served from the interrupt use
  them too (see the hazards); how single pin writes interleave is not something
  the sources' control flow tells more of than that.
- The stack frame that holds the transfer's buffers in `ubertooth_bulk_init()`
  and is gone when the stream runs: undefined behaviour of the whole of
  `HostStream`; the model gives the transfer the buffers that the code means. So
  it is with the buffers of the asynchronous commands of `ubertooth_control.c`,
  which are on the stack of the function that submits them.
- The reasons for which `cb_xfer()` fails to submit a transfer again: in
  `HostStream` it does only when the device has left.
- Option parsing, printing, PCAP and dump formats, BlueZ's side of
  `ubertooth-scan` and `-follow`, `getopt`, `cc2400.c` (a table of register
  names), the DFU suffix; Kismet's user interface, its PHY-neutral copy and the
  dissectors; Python front ends.
- The ToorCon 13 badge and the board tests: demonstrations without protocol
  state.

## What is left

A theorem worth proving next: the averages of `Levels`.
