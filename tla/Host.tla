-------------------------------- MODULE Host --------------------------------
(* A program on the host: a command line tool, a callback at work on what  *)
(* its stream brings, or the plugin for Kismet.  What the others have for  *)
(* variables has no value that matters.                                    *)
EXTENDS Integers, Sequences

CONSTANTS
  Scripts, PKTS_PER_XFER, Numbers,                       \* of HostStream
  Callbacks, NUM_BANKS, Channels, Heard, Levels, Starts, Gaps, Wrap, Modulus, Slot, Preamble,
  CLK_TUNE_TIME, Offsets, packet_counter_max,            \* of HostCallbacks
  Laps, Inquiry, Limit,                                  \* of KismetSource
  MaxPackets                                             \* of both of them

VARIABLES
  who,
  tool, script, pc, at, devh, rx_xfer, outcome, full, buffers, usb_really_full, stop_ubertooth, i,
  handler, alarm, device, sent, taken, raced, ended,
  cb, infile, time, clk, current_bank, usb, bt, start_clk100ns, last_clk100ns, clk100ns_upper,
  abs_start_ns, rssi_history, prev_ts, calibrated, afh_map, last_seen, counter, afh_device,
  report, started, trimmed, tuned, heard, log,
  main, thread, thread_active, ut, lost, found, packet_queue, pending_packet, bytes, piconets,
  first_nets, tracked_nets, dirty, num_packets, told, failed, count

T == INSTANCE HostStream
C == INSTANCE HostCallbacks
K == INSTANCE KismetSource

ASSUME HostAssumption == T!StreamAssumption /\ C!CallbacksAssumption /\ K!KismetAssumption

tools == <<tool, script, pc, at, devh, rx_xfer, outcome, full, buffers, usb_really_full,
           stop_ubertooth, i, handler, alarm, device, sent, taken, raced, ended>>
callbacks == <<cb, infile, time, clk, current_bank, usb, bt, start_clk100ns, last_clk100ns,
               clk100ns_upper, abs_start_ns, rssi_history, prev_ts, calibrated, afh_map,
               last_seen, counter, afh_device, report, started, trimmed, tuned, heard, log>>
kismet == <<main, thread, thread_active, ut, lost, found, packet_queue, pending_packet, bytes,
            piconets, first_nets, tracked_nets, dirty, num_packets, told, failed, count>>
vars == <<who, tools, callbacks, kismet>>

NoTool ==
  /\ tool = "" /\ script = <<>> /\ pc = 0 /\ at = "" /\ devh = "" /\ rx_xfer = "" /\ outcome = ""
  /\ full = 0 /\ buffers = <<>> /\ usb_really_full = FALSE /\ stop_ubertooth = FALSE /\ i = 0
  /\ handler = FALSE /\ alarm = "" /\ device = "" /\ sent = 0 /\ taken = 0 /\ raced = FALSE
  /\ ended = ""

NoCallback ==
  /\ cb = "" /\ infile = FALSE /\ time = 0 /\ clk = 0 /\ current_bank = 0 /\ usb = <<>> /\ bt = <<>>
  /\ start_clk100ns = 0 /\ last_clk100ns = 0 /\ clk100ns_upper = 0 /\ abs_start_ns = 0
  /\ rssi_history = <<>> /\ prev_ts = 0 /\ calibrated = FALSE /\ afh_map = {} /\ last_seen = <<>>
  /\ counter = 0 /\ afh_device = {} /\ report = <<>> /\ started = <<>>
  /\ trimmed = 0 /\ tuned = 0 /\ heard = 0 /\ log = <<>>

NoKismet ==
  /\ main = "" /\ thread = "" /\ thread_active = 0 /\ ut = "" /\ lost = FALSE /\ found = <<>>
  /\ packet_queue = <<>> /\ pending_packet = 0 /\ bytes = 0 /\ piconets = {} /\ first_nets = {}
  /\ tracked_nets = {} /\ dirty = {} /\ num_packets = <<>> /\ told = <<>> /\ failed = {}
  /\ count = <<>>

Init ==
  \/ who = "tool" /\ T!Init /\ NoCallback /\ NoKismet
  \/ who = "callback" /\ C!Init /\ NoTool /\ NoKismet
  \/ who = "kismet" /\ K!Init /\ NoTool /\ NoCallback

Of(name) == who = name /\ UNCHANGED who
Tool     == Of("tool") /\ UNCHANGED <<callbacks, kismet>>
Callback == Of("callback") /\ UNCHANGED <<tools, kismet>>
Kismet   == Of("kismet") /\ UNCHANGED <<tools, callbacks>>

Next == (Tool /\ T!Next) \/ (Callback /\ C!Next) \/ (Kismet /\ K!Next)

Spec ==
  /\ Init /\ [][Next]_vars
  /\ WF_vars(Tool /\ T!Runs) /\ SF_vars(Tool /\ T!Fill)
  /\ WF_vars(Kismet /\ K!Main) /\ WF_vars(Kismet /\ K!Thread)

(* A tool's callbacks get every block in order, and Kismet every packet.   *)
PacketsKept ==
  /\ who = "tool" => T!ReceivesInOrder
  /\ who = "kismet" => K!WakesUp /\ K!NetsTold

(* No tool that is careful uses a device it does not have.                 *)
HandleHeld == who = "tool" => T!HandleHeld

(* What the callbacks report of packets is true.                           *)
ReportsRight == who = "callback" => C!ReportsRight

(* Streams, polls and Kismet's thread end when they are to.                *)
HostEnds == (who = "tool" => T!StreamsEnd) /\ (who = "kismet" => K!SourceCloses)
============================================================================
