----------------------------- MODULE HostStream -----------------------------
(***************************************************************************)
(* A tool that runs with libubertooth: opening and closing the device, the *)
(* bulk transfer and its two buffers, cb_xfer() wherever libusb handles    *)
(* events, which is in the wait for a block and in every command, also in  *)
(* those that a callback sends; SIGALRM, SIGINT, and a device that leaves. *)
(*                                                                         *)
(* What a transfer brings, PKTS_PER_XFER packets, is a number, one more    *)
(* than what the last one brought.  What a command means to the device is  *)
(* the matter of Commands; here it starts or ends what the device sends.   *)
(***************************************************************************)
EXTENDS Integers, Sequences

CONSTANTS
  Scripts,          \* of the tools: from their name and options to their calls
  PKTS_PER_XFER,
  Numbers           \* bound: transfers are numbered modulo this

StreamOps == {"rx_syms", "specan"}
DeviceOps == StreamOps \cup {"cmd", "blink", "poll"}

(* The calls that make the device send.                                    *)
StartsSending(call) ==
  \/ call.op \in StreamOps
  \/ call.op \in {"cmd", "blink"}
     /\ call.arg \in {"rx_syms", "specan", "btle_sniffing", "btle_promisc", "ego"}

(* What the tools' calls have in common: the device is looked for before   *)
(* it is used, and nothing of it runs when it is; the flags of a stream    *)
(* are not reset after it; and the loop that goes on after a stop is that  *)
(* of a tool without a time limit, whose callback sends no commands.       *)
Orderly(calls) ==
  \A k \in DOMAIN calls :
    LET Before(op) == \E j \in 1 .. k - 1 : calls[j].op = op
    IN  /\ calls[k].op \in DeviceOps => Before("connect")
        /\ calls[k].op = "connect" =>
             calls[k].bad \in {"end", "on", "null"} /\ \A j \in 1 .. k - 1 : ~StartsSending(calls[j])
        /\ calls[k].op = "reset" => \A op \in StreamOps : ~Before(op)
        /\ calls[k].op \in StreamOps =>
             \/ calls[k].loop \in {"until 1", "while"}
             \/ /\ calls[k].loop = "until -1" /\ calls[k].arg = "cb_specan"
                /\ \A j \in 1 .. k - 1 : calls[j].op \in {"connect", "handler"}

StreamAssumption ==
  /\ PKTS_PER_XFER \in Nat \ {0} /\ Numbers \in Nat /\ Numbers > 3
  /\ \A t \in DOMAIN Scripts :
       /\ Scripts[t] \in Seq([op : STRING, arg : STRING, loop : STRING, bad : STRING])
       /\ Orderly(Scripts[t])

VARIABLES
  tool, script, pc, \* the tool with its options, its calls, the one it is at
  at,               \* how far it is in this call
  devh,             \* "NULL", "open", or "closed", of which it still has the pointer
  rx_xfer,          \* "NULL", "idle" or "pending"
  outcome,          \* of the transfer, which cb_xfer() has not seen yet
  full,             \* which of the two buffers full_usb_buf is
  buffers, usb_really_full, stop_ubertooth,
  i,                \* of the loop in ubertooth_bulk_receive()
  handler,          \* register_cleanup_handler() has been called
  alarm,            \* "none", "set", "caught" in the wait for a block, "missed" there
  device,           \* "idle", "bulk", "polled" or "gone"
  sent, taken,      \* history: transfers that the device filled, that were processed
  raced,            \* history: a transfer timed out as it was to be cancelled
  ended             \* "no", "returned", "killed", "crashed"

xfer   == <<rx_xfer, outcome, full, usb_really_full>>
place  == <<tool, script, pc>>
vars == <<tool, script, pc, at, devh, rx_xfer, outcome, full, buffers, usb_really_full,
          stop_ubertooth, i, handler, alarm, device, sent, taken, raced, ended>>

Running == ended = "no"
here == script[pc]
At(op) == Running /\ pc <= Len(script) /\ here.op = op
Streams == At("rx_syms") \/ At("specan")

(* In a synchronous transfer.                                              *)
Commanding == Running /\ at \in {"busy", "starting", "calling", "stopping"}
(* In libusb_handle_events(), for ubertooth_bulk_wait() and _receive().    *)
Waiting == Running /\ at \in {"wait", "receive"} /\ ~usb_really_full

Advance == pc' = pc + 1 /\ at' = "start" /\ UNCHANGED <<tool, script, ended>>
End(how) == ended' = how /\ UNCHANGED <<place, at>>
Local(a) == at' = a /\ UNCHANGED <<place, ended>>
(* ubertooth-util -I blinks for good.                                      *)
Done  == IF here.op = "blink" THEN Local("start") ELSE Advance
Fails == IF here.bad = "end" THEN End("returned") ELSE Done

-----------------------------------------------------------------------------
(* The transfer                                                            *)

(* Mutant: a transfer that timed out is not submitted again.               *)
ResubmitNever == rx_xfer' = "idle"

Resubmit == rx_xfer' = IF device = "gone" THEN "idle" ELSE "pending"

(* Mutant: whether the block was processed is not asked.                   *)
DroppedLate == stop_ubertooth

Dropped == usb_really_full \/ stop_ubertooth

cb_xfer ==
  /\ outcome # "none" /\ outcome' = "none"
  /\ CASE outcome = "timed out" ->
            Resubmit /\ UNCHANGED <<full, usb_really_full, stop_ubertooth>>
       [] outcome \in {"error", "cancelled"} ->
            rx_xfer' = "NULL" /\ UNCHANGED <<full, usb_really_full, stop_ubertooth>>
       [] outcome = "full" /\ Dropped ->
            rx_xfer' = "idle" /\ stop_ubertooth' = TRUE /\ UNCHANGED <<full, usb_really_full>>
       [] OTHER ->
            /\ full' = 1 - full /\ usb_really_full' = TRUE
            /\ rx_xfer' = (IF device = "gone" THEN "idle" ELSE "pending")
            /\ UNCHANGED stop_ubertooth

HandleEvents ==
  /\ Commanding \/ Waiting
  /\ cb_xfer
  /\ at' = IF at = "receive" THEN "received" ELSE at
  /\ UNCHANGED <<place, devh, buffers, i, handler, alarm, device, sent, taken, raced, ended>>

(* Mutant: the transfer is left to itself.                                 *)
CancelNot == UNCHANGED <<outcome, raced>>

libusb_cancel_transfer ==
  /\ outcome' = IF rx_xfer = "pending" /\ outcome = "none" THEN "cancelled" ELSE outcome
  /\ raced' = (raced \/ (rx_xfer = "pending" /\ outcome = "timed out"))

(* The buffers are on the stack of this function, and used after it.       *)
ubertooth_bulk_init ==
  /\ Streams /\ at = "start"
  /\ full' = 1 /\ usb_really_full' = FALSE /\ outcome' = "none" /\ taken' = sent
  /\ IF devh # "open" THEN rx_xfer' = "idle" /\ End("crashed")
     ELSE IF device = "gone" THEN rx_xfer' = "idle" /\ Fails
     ELSE rx_xfer' = "pending" /\ at' = "starting" /\ UNCHANGED <<place, ended>>
  /\ UNCHANGED <<devh, buffers, stop_ubertooth, i, handler, alarm, device, sent, raced>>

-----------------------------------------------------------------------------
(* Commands                                                                *)

Begin ==
  /\ At("cmd") \/ At("blink")
  /\ at = "start"
  /\ IF devh # "open" THEN End("crashed") ELSE Local("busy")
  /\ UNCHANGED <<devh, xfer, buffers, stop_ubertooth, i, handler, alarm, device, sent, taken, raced>>

Sending(name) ==
  CASE name \in {"rx_syms", "specan"} -> "bulk"
    [] name \in {"btle_sniffing", "btle_promisc", "ego"} -> "polled"
    [] name \in {"stop", "reset"} -> "idle"
    [] OTHER -> device

(* The events of transfers that ended before it are handled in a command.  *)
Finish ==
  /\ Commanding /\ outcome = "none"
  /\ CASE at = "busy" ->
            \/ device # "gone" /\ device' = Sending(here.arg) /\ Done
            \/ UNCHANGED device /\ Fails
       [] at = "starting" ->
            \/ device # "gone" /\ device' = Sending(here.op) /\ Local("wait")
            \/ device = "gone" /\ UNCHANGED device /\ Fails
       [] at = "calling" -> at' = "called" /\ UNCHANGED <<device, place, ended>>
       [] at = "stopping" ->
            device' = (IF device = "gone" THEN device ELSE "idle") /\ Advance
  /\ devh' = IF at = "stopping" THEN "closed" ELSE devh
  /\ UNCHANGED <<xfer, buffers, stop_ubertooth, i, handler, alarm, sent, taken, raced>>

-----------------------------------------------------------------------------
(* ubertooth_bulk_wait() and ubertooth_bulk_receive(), in the loops around *)

WaitEnds ==
  /\ Running /\ at = "wait" /\ usb_really_full
  /\ Local("receive")
  /\ UNCHANGED <<devh, xfer, buffers, stop_ubertooth, i, handler, alarm, device, sent, taken, raced>>

Return(r) ==
  CASE here.loop = "until 1"  -> IF r = 1 THEN Advance ELSE Local("wait")
    [] here.loop = "while"    -> IF stop_ubertooth THEN Advance ELSE Local("wait")
    [] here.loop = "until -1" -> IF r = -1 THEN End("returned") ELSE Local("wait")

(* libusb_handle_events() returns after a minute without an event.         *)
ReceiveBegins ==
  /\ Running /\ at \in {"receive", "received"}
  /\ IF usb_really_full
     THEN Local("process") /\ i' = 1 /\ taken' = (taken + 1) % Numbers
     ELSE (at = "receive" => outcome = "none") /\ Return(-1) /\ UNCHANGED <<i, taken>>
  /\ UNCHANGED <<devh, xfer, buffers, stop_ubertooth, handler, alarm, device, sent, raced>>

(* A callback may send a command, as those for channel maps do and cb_rx() *)
(* does with the clock, or find what the stream was for.                   *)
Callback ==
  /\ Running /\ at = "process"
  /\ \/ Local("called") /\ UNCHANGED stop_ubertooth
     \/ here.arg \in {"cb_afh_initial", "cb_afh_monitor", "cb_afh_r", "cb_rx"}
        /\ Local("calling") /\ UNCHANGED stop_ubertooth
     \/ here.arg = "cb_br_rx" /\ Local("called") /\ stop_ubertooth' = TRUE
  /\ UNCHANGED <<devh, xfer, buffers, i, handler, alarm, device, sent, taken, raced>>

(* Mutant: the block stays full.                                           *)
KeptFull == UNCHANGED usb_really_full

Emptied == usb_really_full' = FALSE

Called ==
  /\ Running /\ at = "called"
  /\ IF stop_ubertooth
     THEN Return(1) /\ libusb_cancel_transfer /\ UNCHANGED <<i, usb_really_full>>
     ELSE /\ UNCHANGED <<outcome, raced>>
          /\ IF i < PKTS_PER_XFER
             THEN Local("process") /\ i' = i + 1 /\ UNCHANGED usb_really_full
             ELSE Return(0) /\ Emptied /\ UNCHANGED i
  /\ UNCHANGED <<devh, rx_xfer, full, buffers, stop_ubertooth, handler, alarm, device, sent, taken>>

-----------------------------------------------------------------------------
(* The other calls                                                         *)

(* A device that is found but cannot be claimed is closed again.           *)
ubertooth_connect ==
  /\ At("connect")
  /\ \/ device # "gone" /\ devh' = "open" /\ Advance
     \/ /\ devh' \in {"NULL", "closed"}
        /\ IF here.bad = "null" THEN End("crashed") ELSE Fails
  /\ UNCHANGED <<xfer, buffers, stop_ubertooth, i, handler, alarm, device, sent, taken, raced>>

register_cleanup_handler ==
  /\ At("handler") /\ handler' = TRUE /\ Advance
  /\ UNCHANGED <<devh, xfer, buffers, stop_ubertooth, i, alarm, device, sent, taken, raced>>

ubertooth_set_timeout ==
  /\ At("timeout") /\ alarm' = "set" /\ Advance
  /\ UNCHANGED <<devh, xfer, buffers, stop_ubertooth, i, handler, device, sent, taken, raced>>

Reset ==
  /\ At("reset") /\ stop_ubertooth' = FALSE /\ usb_really_full' = FALSE /\ Advance
  /\ UNCHANGED <<devh, rx_xfer, outcome, full, buffers, i, handler, alarm, device, sent, taken, raced>>

(* The loop around cmd_poll() ends with an error only.                     *)
PollFails ==
  /\ At("poll")
  /\ IF devh # "open" THEN End("crashed") ELSE device = "gone" /\ Advance
  /\ UNCHANGED <<devh, xfer, buffers, stop_ubertooth, i, handler, alarm, device, sent, taken, raced>>

ubertooth_stop ==
  /\ At("stop") /\ at = "start"
  /\ IF devh = "closed" THEN End("crashed") /\ UNCHANGED <<outcome, raced, devh>>
     ELSE /\ libusb_cancel_transfer
          /\ IF devh = "NULL" THEN Advance ELSE Local("stopping")
          /\ UNCHANGED devh
  /\ UNCHANGED <<rx_xfer, full, usb_really_full, buffers, stop_ubertooth, i, handler, alarm, device,
                 sent, taken>>

Returns ==
  /\ Running /\ pc > Len(script) /\ End("returned")
  /\ UNCHANGED <<devh, xfer, buffers, stop_ubertooth, i, handler, alarm, device, sent, taken, raced>>

-----------------------------------------------------------------------------
(* Signals                                                                 *)

(* stop_transfers().  A signal in the wait ends it, unless it comes just   *)
(* before the system call.                                                 *)
stop_transfers ==
  /\ Running /\ alarm = "set"
  /\ stop_ubertooth' = TRUE
  /\ \/ alarm' = "missed" /\ UNCHANGED at
     \/ Waiting /\ at = "wait" /\ outcome = "none" /\ alarm' = "caught" /\ at' = "receive"
  /\ UNCHANGED <<place, devh, xfer, buffers, i, handler, device, sent, taken, raced, ended>>

(* cleanup(): ubertooth_stop() and exit().  From within libusb, cmd_stop() *)
(* need not succeed.                                                       *)
cleanup ==
  /\ Running /\ handler
  /\ IF devh = "closed" THEN End("crashed") ELSE End("killed")
  /\ devh' = IF devh = "open" THEN "closed" ELSE devh
  /\ device' \in IF devh # "open" \/ device = "gone" THEN {device}
                 ELSE IF Commanding \/ Waiting THEN {device, "idle"} ELSE {"idle"}
  /\ UNCHANGED <<xfer, buffers, stop_ubertooth, i, handler, alarm, sent, taken, raced>>

-----------------------------------------------------------------------------
(* The device and the host controller                                      *)

Fill ==
  /\ Running /\ rx_xfer = "pending" /\ outcome = "none" /\ device = "bulk"
  /\ sent' = (sent + 1) % Numbers
  /\ buffers' = [buffers EXCEPT ![1 - full] = sent']
  /\ outcome' = "full"
  /\ UNCHANGED <<place, at, devh, rx_xfer, full, usb_really_full, stop_ubertooth, i, handler, alarm,
                 device, taken, raced, ended>>

TimesOut ==
  /\ Running /\ rx_xfer = "pending" /\ outcome = "none"
  /\ outcome' = "timed out"
  /\ UNCHANGED <<place, at, devh, rx_xfer, full, usb_really_full, buffers, stop_ubertooth, i, handler,
                 alarm, device, sent, taken, raced, ended>>

Leave ==
  /\ Running /\ device # "gone" /\ device' = "gone"
  /\ outcome' = IF rx_xfer = "pending" /\ outcome = "none" THEN "error" ELSE outcome
  /\ UNCHANGED <<place, at, devh, rx_xfer, full, usb_really_full, buffers, stop_ubertooth, i, handler,
                 alarm, sent, taken, raced, ended>>

Init ==
  /\ tool \in DOMAIN Scripts /\ script = Scripts[tool] /\ pc = 1 /\ at = "start"
  /\ devh = "NULL" /\ rx_xfer = "NULL" /\ outcome = "none" /\ full = 1
  /\ buffers = [b \in 0 .. 1 |-> 0] /\ usb_really_full = FALSE /\ stop_ubertooth = FALSE
  /\ i = 0 /\ handler = FALSE /\ alarm = "none" /\ device = "idle" /\ sent = 0 /\ taken = 0
  /\ raced = FALSE /\ ended = "no"

Runs ==
  \/ ubertooth_bulk_init \/ Begin \/ Finish \/ HandleEvents
  \/ WaitEnds \/ ReceiveBegins \/ Callback \/ Called
  \/ ubertooth_connect \/ register_cleanup_handler \/ ubertooth_set_timeout \/ Reset
  \/ PollFails \/ ubertooth_stop \/ Returns

Next == Runs \/ stop_transfers \/ cleanup \/ Fill \/ TimesOut \/ Leave

(* The tool runs, and what the device sends arrives before a timeout again *)
(* and again: it sends a keep-alive when it has nothing else.              *)
Fairness == WF_vars(Runs) /\ SF_vars(Fill)

Spec == Init /\ [][Next]_vars /\ Fairness

-----------------------------------------------------------------------------
(* What a callback gets is what the transfer after the one before brought: *)
(* no block twice, none passed over, and none overwritten while callbacks  *)
(* are at it, though their commands run cb_xfer() (ubertooth_bulk_receive) *)
ReceivesInOrder == Running /\ at = "process" => buffers[full] = taken

(* Which tools use a device they do not have: those that do not look       *)
(* whether they got it, those that go on after ubertooth_stop(), and any   *)
(* that is interrupted after it.                                           *)
Careless ==
  \/ \E k \in 1 .. Len(script) :
       /\ script[k].op = "connect" /\ (script[k].bad = "null" \/ script[k].bad = "on")
       /\ k <= pc
  \/ \E k \in 1 .. pc - 1 : script[k].op = "stop" /\ (handler \/ pc <= Len(script))

(* No other tool uses a device that is not open; and when one is closed,   *)
(* no transfer of it is under way and it sends no more, unless a transfer  *)
(* timed out just as ubertooth_stop() wanted to cancel it.                 *)
HandleHeld ==
  /\ ended = "crashed" => Careless
  /\ devh = "closed" /\ ended \in {"no", "returned"} =>
       /\ rx_xfer # "pending" \/ raced
       /\ device \in {"idle", "gone"}

InLoop == Running /\ at \in {"wait", "receive", "received", "process", "calling", "called"}

(* A stream flows for as long as nothing stops it; a block that is being   *)
(* processed as the stop comes is the last of its stream; a timeout that   *)
(* comes in the wait ends ubertooth-rx; and polling ends with the device.  *)
StreamsEnd ==
  /\ []<>(~InLoop \/ at = "process" \/ stop_ubertooth \/ device = "gone")
  /\ InLoop /\ stop_ubertooth /\ usb_really_full ~> ~InLoop
  /\ alarm = "caught" /\ At("rx_syms") /\ here.loop = "while" ~> ended # "no"
  /\ At("poll") /\ device = "gone" ~> ~At("poll")
==============================================================================
