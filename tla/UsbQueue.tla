------------------------------ MODULE UsbQueue ------------------------------
(***************************************************************************)
(* The packet queue of the firmware (ubertooth_usb.c) with its producer,   *)
(* enqueue() in bluetooth_rxtx.c, and its two consumers:                   *)
(*   - in the polled modes (basic rate, spectrum analysis, main loop) the  *)
(*     main context itself calls handle_usb(), which moves packets to the  *)
(*     double-buffered bulk IN endpoint;                                   *)
(*   - in the low energy modes USB interrupts are enabled and the vendor   *)
(*     request UBERTOOTH_POLL takes a packet from interrupt context, at    *)
(*     any instruction of the main context.                                *)
(* An interrupt handler runs to completion before the main context goes    *)
(* on, so a handler is one action; enqueue() is split at each access to    *)
(* memory that a handler shares.                                           *)
(***************************************************************************)
EXTENDS Naturals, Sequences

CONSTANTS
  Size,         \* slots of the ring buffer (128)
  Laps,         \* laps around the ring before head and tail wrap (2^25)
  UsbIrq,       \* TRUE in the modes that serve USB from interrupts
  HostResets,   \* the host may restart LE sniffing while the receiver runs
  KeepAlive,    \* USB_KEEP_ALIVE, in ticks of clkn
  ClkModulus,   \* one more than the largest value of clkn
  MaxFrames     \* how many frames the receiver captures (bounds the model)

(* One more than the largest value of the u32 counters head and tail. *)
Modulus == Laps * Size

ASSUME SizeAssumption ==
  /\ Size \in Nat /\ Size > 1
  /\ Laps \in Nat /\ Laps > 0

ASSUME FlagAssumption == UsbIrq \in BOOLEAN /\ HostResets \in BOOLEAN

ASSUME ClockAssumption ==
  /\ KeepAlive \in Nat
  /\ ClkModulus \in Nat
  /\ KeepAlive + 1 < ClkModulus

ASSUME BoundAssumption == MaxFrames \in Nat

VARIABLES
  head, tail,     \* the free-running counters, masked when used
  fifo,           \* the slots
  overflow,       \* FIFO_OVERFLOW in the status byte the next packet gets
  pc,             \* where the main context is
  h, claim, reg,  \* its locals: the masked head, the slot claimed, ++tail's register
  frame,          \* frames captured so far: the number of the latest one
  room,           \* dequeue_send() calls left in this handle_usb()
  epFull,         \* full buffers of the bulk IN endpoint
  clkn, last_usb_pkt,
  now,            \* the clkn that handle_usb() was called with
  ticked,         \* clkn has advanced since the last handle_usb()
  out,            \* the packet handed to USB last
  raced           \* history: the latest queue_init() fell into ++tail

counters == <<head, tail>>
locals   == <<h, claim, reg>>
usb      == <<room, epFull, last_usb_pkt>>
clock    == <<clkn, now, ticked>>
vars == <<head, tail, fifo, overflow, pc, h, claim, reg, frame, room, epFull,
          clkn, last_usb_pkt, now, ticked, out, raced>>

Counter == 0 .. Modulus - 1
Slot    == 0 .. Size - 1
Clock   == 0 .. ClkModulus - 1

Packet(f, ovf) == [body |-> f, stamp |-> f, overflow |-> ovf]
Zeroed == Packet(0, FALSE)

(* head & 0x7F, tail & 0x7F *)
Mask(c) == c % Size

(* The slot after s and the way from slot a to slot b, around the ring. *)
Succ(s)   == IF s = Size - 1 THEN 0 ELSE s + 1
Cyc(a, b) == IF b >= a THEN b - a ELSE b + Size - a

(* How many slots are published and not dequeued, and which they are. *)
Used   == Cyc(Mask(head), Mask(tail))
Queued == {s \in Slot : Cyc(Mask(head), s) < Used}

Enqueueing == pc \in {"tail", "load", "store", "fill", "stamp"}
Filling    == pc \in {"fill", "stamp"}

(* enqueue() is followed by handle_usb() in the polled modes only. *)
Done == IF UsbIrq THEN "idle" ELSE "serve"

Init ==
  /\ head = 0 /\ tail = 0
  /\ fifo = [s \in Slot |-> Zeroed]
  /\ overflow = FALSE
  /\ pc = "idle"
  /\ h = 0 /\ claim = 0 /\ reg = 0
  /\ frame = 0
  /\ room = 0 /\ epFull = 0
  /\ clkn = 0 /\ last_usb_pkt = 0 /\ now = 0 /\ ticked = FALSE
  /\ out = Zeroed /\ raced = FALSE

-----------------------------------------------------------------------------
(* The producer: enqueue() and, inlined, usb_enqueue().                    *)

(* A frame is there; usb_enqueue() reads head. *)
ReadHead ==
  /\ pc = "idle"
  /\ frame < MaxFrames
  /\ frame' = frame + 1
  /\ h' = Mask(head)
  /\ pc' = "tail"
  /\ UNCHANGED <<counters, fifo, overflow, claim, reg, usb, clock, out, raced>>

(* Mutant: the test for a full queue forgets to mask. *)
QueueFullNoWrap == Mask(tail) + 1 = h

QueueFull == (Mask(tail) + 1) % Size = h

(* usb_enqueue() reads tail and finds the queue full: enqueue() records    *)
(* the loss and gives up the frame.                                        *)
EnqueueFull ==
  /\ pc = "tail"
  /\ QueueFull
  /\ overflow' = TRUE
  /\ pc' = Done
  /\ UNCHANGED <<counters, fifo, locals, frame, usb, clock, out, raced>>

(* Mutant: the slot is taken from the tail after ++tail. *)
EnqueueFreeAfter ==
  /\ pc = "tail"
  /\ ~QueueFull
  /\ claim' = Succ(Mask(tail))
  /\ pc' = "load"
  /\ UNCHANGED <<counters, fifo, overflow, h, reg, frame, usb, clock, out, raced>>

EnqueueFree ==
  /\ pc = "tail"
  /\ ~QueueFull
  /\ claim' = Mask(tail)
  /\ pc' = "load"
  /\ UNCHANGED <<counters, fifo, overflow, h, reg, frame, usb, clock, out, raced>>

(* ++tail is a load, an addition and a store. *)
LoadTail ==
  /\ pc = "load"
  /\ reg' = tail
  /\ pc' = "store"
  /\ UNCHANGED <<counters, fifo, overflow, h, claim, frame, usb, clock, out, raced>>

StoreTail ==
  /\ pc = "store"
  /\ tail' = (reg + 1) % Modulus
  /\ pc' = "fill"
  /\ UNCHANGED <<head, fifo, overflow, locals, frame, usb, clock, out, raced>>

(* The header and the data go into the slot that is already published. *)
Fill ==
  /\ pc = "fill"
  /\ fifo' = [fifo EXCEPT ![claim].body = frame]
  /\ pc' = "stamp"
  /\ UNCHANGED <<counters, overflow, locals, frame, usb, clock, out, raced>>

(* f->status = status; status = 0 *)
Stamp ==
  /\ pc = "stamp"
  /\ fifo' = [fifo EXCEPT ![claim].stamp = frame, ![claim].overflow = overflow]
  /\ overflow' = FALSE
  /\ pc' = Done
  /\ UNCHANGED <<counters, locals, frame, usb, clock, out, raced>>

Enqueue == ReadHead \/ EnqueueFull \/ EnqueueFree \/ LoadTail \/ StoreTail \/ Fill \/ Stamp

-----------------------------------------------------------------------------
(* The consumers.                                                          *)

QueueEmpty == Mask(head) = Mask(tail)

(* Mutant: ++head before the slot is read. *)
DequeueAhead ==
  /\ out' = fifo[Mask(head + 1)]
  /\ head' = (head + 1) % Modulus

Dequeue ==
  /\ out' = fifo[Mask(head)]
  /\ head' = (head + 1) % Modulus

(* Mutant: the endpoint's status is not looked at. *)
HandleUsbBlind ==
  /\ ~UsbIrq
  /\ pc \in {"idle", "serve"}
  /\ pc' = "usb"
  /\ room' = 2
  /\ now' = clkn
  /\ ticked' = FALSE
  /\ UNCHANGED <<counters, fifo, overflow, locals, frame, epFull, last_usb_pkt, clkn, out, raced>>

(* Mutant: a full buffer is taken for an empty one. *)
HandleUsbInverted ==
  /\ ~UsbIrq
  /\ pc \in {"idle", "serve"}
  /\ pc' = "usb"
  /\ room' = epFull
  /\ now' = clkn
  /\ ticked' = FALSE
  /\ UNCHANGED <<counters, fifo, overflow, locals, frame, epFull, last_usb_pkt, clkn, out, raced>>

(* handle_usb(), after enqueue() or from an idle iteration of a main loop:  *)
(* the endpoint's status is read once and bounds the writes that follow.   *)
HandleUsb ==
  /\ ~UsbIrq
  /\ pc \in {"idle", "serve"}
  /\ pc' = "usb"
  /\ room' = 2 - epFull
  /\ now' = clkn
  /\ ticked' = FALSE
  /\ UNCHANGED <<counters, fifo, overflow, locals, frame, epFull, last_usb_pkt, clkn, out, raced>>

(* dequeue_send() with a packet in the queue. *)
DequeueSend ==
  /\ pc = "usb" /\ room > 0
  /\ ~QueueEmpty
  /\ Dequeue
  /\ last_usb_pkt' = now
  /\ room' = room - 1
  /\ epFull' = epFull + 1
  /\ UNCHANGED <<tail, fifo, overflow, pc, locals, frame, clock, raced>>

(* Mutant: the elapsed time does not survive the wrap of clkn. *)
QuietNoWrap == IF now >= last_usb_pkt THEN now - last_usb_pkt ELSE 0

(* clkn - last_usb_pkt in dequeue_send(), on the width of the clock *)
Quiet == (now + ClkModulus - last_usb_pkt) % ClkModulus

(* dequeue_send() with nothing to send: a keep-alive packet when the bulk  *)
(* endpoint has been quiet for too long.                                   *)
SendKeepAlive ==
  /\ pc = "usb" /\ room > 0
  /\ QueueEmpty
  /\ Quiet > KeepAlive
  /\ last_usb_pkt' = now
  /\ room' = room - 1
  /\ epFull' = epFull + 1
  /\ UNCHANGED <<counters, fifo, overflow, pc, locals, frame, clock, out, raced>>

SendNothing ==
  /\ pc = "usb" /\ room > 0
  /\ QueueEmpty
  /\ Quiet <= KeepAlive
  /\ room' = room - 1
  /\ UNCHANGED <<counters, fifo, overflow, pc, locals, frame, epFull, last_usb_pkt, clock, out, raced>>

(* Mutant: only head is reset. *)
queue_initHead ==
  /\ head' = 0 /\ tail' = tail
  /\ fifo' = [s \in Slot |-> Zeroed]

queue_init ==
  /\ head' = 0 /\ tail' = 0
  /\ fifo' = [s \in Slot |-> Zeroed]

(* The polled USBHwISR() at the end of handle_usb(): a vendor request may  *)
(* call queue_init(), as does the next mode the main loop starts.          *)
PolledIsr ==
  /\ pc = "usb" /\ room = 0
  /\ pc' = "idle"
  /\ \/ UNCHANGED <<counters, fifo>>
     \/ HostResets /\ queue_init
  /\ UNCHANGED <<overflow, locals, frame, usb, clock, out, raced>>

(* UBERTOOTH_POLL served by USB_IRQHandler: dequeue() and the copy of the  *)
(* slot, between any two steps of the main context.                        *)
PollIsr ==
  /\ UsbIrq
  /\ ~QueueEmpty
  /\ Dequeue
  /\ UNCHANGED <<tail, fifo, overflow, pc, locals, frame, usb, clock, raced>>

(* UBERTOOTH_BTLE_SNIFFING or UBERTOOTH_BTLE_PROMISC served by             *)
(* USB_IRQHandler while the receiver runs.                                 *)
ResetIsr ==
  /\ UsbIrq /\ HostResets
  /\ queue_init
  /\ raced' = (pc \in {"load", "store"})
  /\ UNCHANGED <<overflow, pc, locals, frame, usb, clock, out>>

(* TIMER0 advances clkn.  Only handle_usb() looks at it here, and every    *)
(* loop that streams calls it more than once in a tick of 312.5 us.        *)
Tick ==
  /\ ~UsbIrq
  /\ ~ticked
  /\ ticked' = TRUE
  /\ clkn' = (clkn + 1) % ClkModulus
  /\ UNCHANGED <<counters, fifo, overflow, pc, locals, frame, usb, now, out, raced>>

(* The host reads one buffer of the bulk IN endpoint. *)
HostRead ==
  /\ epFull > 0
  /\ epFull' = epFull - 1
  /\ UNCHANGED <<counters, fifo, overflow, pc, locals, frame, room, last_usb_pkt, clock, out, raced>>

ServeUsb == HandleUsb \/ DequeueSend \/ SendKeepAlive \/ SendNothing \/ PolledIsr

Main == Enqueue \/ ServeUsb

Next == Main \/ PollIsr \/ ResetIsr \/ Tick \/ HostRead

Spec == Init /\ [][Next]_vars

(* The main context never stops, the timer runs, and the host, while it    *)
(* streams, keeps a transfer pending on the endpoint.                      *)
FairSpec == Spec /\ WF_vars(Main) /\ WF_vars(Tick) /\ WF_vars(HostRead)

-----------------------------------------------------------------------------
(* What the queue guarantees.                                              *)

Packets == [body : Nat, stamp : Nat, overflow : BOOLEAN]

(* Every counter stays within its width and the endpoint is never given a  *)
(* third packet: handle_usb() writes at most what one look at B1FULL and   *)
(* B2FULL allows.                                                          *)
TypeOK ==
  /\ head \in Counter /\ tail \in Counter
  /\ fifo \in [Slot -> Packets]
  /\ overflow \in BOOLEAN
  /\ pc \in {"idle", "tail", "load", "store", "fill", "stamp", "serve", "usb"}
  /\ h \in Slot /\ claim \in Slot /\ reg \in Counter
  /\ frame \in 0 .. MaxFrames
  /\ room \in 0 .. 2 /\ epFull \in 0 .. 2
  /\ (pc = "usb" => room + epFull <= 2)
  /\ clkn \in Clock /\ last_usb_pkt \in Clock /\ now \in Clock /\ ticked \in BOOLEAN
  /\ out \in Packets /\ raced \in BOOLEAN

(* The published slots the producer has finished. *)
Complete == {s \in Queued : ~(Filling /\ s = claim)}

Whole(p) == p.body = p.stamp /\ p.body > 0

AllWhole == \A s \in Complete : Whole(fifo[s])

InOrder ==
  \A s \in Complete :
    /\ fifo[s].body <= frame
    /\ \A t \in Complete :
         Cyc(Mask(head), s) < Cyc(Mask(head), t) => fifo[s].body < fifo[t].body

(* Every slot the consumer can take, other than the one the producer is    *)
(* still writing, holds the body and the status byte of one capture - as   *)
(* long as no queue_init() of an interrupt falls between the choice of the *)
(* slot and the store of tail, and again from the next queue_init() on.    *)
QueuedWhole == ~raced => AllWhole

(* Under the same condition the finished slots are queued in the order of  *)
(* capture.                                                                *)
QueuedInOrder == ~raced => InOrder

(* No step of either side alters or forgets a packet once enqueue() has    *)
(* finished with it: it stays queued as it is, or is the one delivered, or *)
(* the whole queue is emptied.                                             *)
CompleteUntouched ==
  [][\A s \in Complete :
       \/ raced
       \/ s \in Complete' /\ fifo'[s] = fifo[s]
       \/ s = Mask(head) /\ head' # head /\ out' = fifo[s]
       \/ queue_init]_vars

(* A packet handed to USB is one capture, completely written. *)
DeliveredWhole == out = Zeroed \/ Whole(out)

(* The abstract queue: the finished packets from head on.  *)
Finished == IF Filling THEN Used - 1 ELSE Used
At(k)    == IF Mask(head) + k < Size THEN Mask(head) + k ELSE Mask(head) + k - Size

Fifo == INSTANCE PacketFifo WITH
          Capacity <- Size - 1,
          queue <- [k \in 1 .. Finished |-> fifo[At(k - 1)]],
          loss <- overflow,
          offered <- frame,
          pending <- Enqueueing

(* Polled, the ring buffer is the bounded queue PacketFifo promises:       *)
(* captures leave in order, none is lost while it is queued, and a refused *)
(* one is reported by the next accepted.                                   *)
FifoSpec == Fifo!Spec

(* A host that keeps reading gets a packet again and again, captures or    *)
(* not: the keep-alive fires whatever value clkn has wrapped to.           *)
StreamAlive == []<>(epFull > 0)

(* A packet that is queued is eventually sent, or dropped by queue_init(). *)
EventuallySent == \A s \in Slot : []<>(s \notin Complete)
-----------------------------------------------------------------------------
(* The inductive invariant behind these properties.                        *)

(* What the producer knows at each of its steps: the head it has read may  *)
(* be out of date, but only in the direction that makes the queue look     *)
(* fuller; from the full check to the store of tail there is a free slot   *)
(* for the packet; afterwards its slot is the newest, unless the queue has *)
(* been emptied, which leaves the slot outside it.                         *)
ProducerInv ==
  /\ (pc = "tail" => Used <= Cyc(h, Mask(tail)))
  /\ (pc \in {"load", "store"} => claim = Mask(tail) /\ Used < Size - 1)
  /\ (pc = "store" => reg = tail)
  /\ (Filling => \/ Used = 0
                 \/ /\ Mask(tail) = Succ(claim)
                    /\ pc = "stamp" => fifo[claim].body = frame)

(* The frame being enqueued is newer than every finished slot. *)
NewestInHand == Enqueueing => \A s \in Complete : fifo[s].body < frame

FrameInHand == Enqueueing => frame > 0

SoundInv == TypeOK /\ FrameInHand /\ ProducerInv /\ AllWhole /\ InOrder /\ NewestInHand

QueueInv == TypeOK /\ FrameInHand /\ (~raced => SoundInv)

(* Polled, nothing comes between the steps of enqueue(): the head that it  *)
(* has read is the queue's, and its slot stays published.                  *)
PolledInv ==
  /\ ~raced
  /\ (pc = "tail" => h = Mask(head))
  /\ (Filling => Used > 0)
=============================================================================
