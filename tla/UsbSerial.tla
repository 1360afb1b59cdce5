------------------------------ MODULE UsbSerial ------------------------------
(***************************************************************************)
(* The USB serial port: its two rings of characters (serial_fifo.c), the   *)
(* handlers that run in the USB interrupt, and a program that sends every  *)
(* character back (usb_test.c).  The program is interrupted between any    *)
(* two of its accesses to a ring; the handlers are not.                    *)
(*                                                                         *)
(* Characters are numbered as the host sends them.                         *)
(***************************************************************************)
EXTENDS Integers, Sequences, SequencesExt

CONSTANTS
  VCOM_FIFO_SIZE, MAX_PACKET_SIZE,
  MaxChars,       \* bound: characters that the host sends
  MaxBusResets    \* bound

SerialAssumption ==
  /\ MAX_PACKET_SIZE \in Nat \ {0} /\ VCOM_FIFO_SIZE \in Nat /\ VCOM_FIFO_SIZE > MAX_PACKET_SIZE
  /\ MaxChars \in Nat /\ MaxBusResets \in Nat

VARIABLES
  txfifo, rxfifo,
  fBulkInBusy, fChainDone,
  step, c,        \* of the program's loop, and the character that it has
  OutBuffers,     \* of the endpoint: packets that were not read
  OutInterrupt,
  InBuffer,       \* of the endpoint: the packet that was not fetched, if there is one
  sent,           \* history: characters the host sent
  returned,       \* history: what the host got, packet by packet
  dropped,        \* history: characters the program could not send back
  resets          \* history

rings == <<txfifo, rxfifo>>
chain == <<fBulkInBusy, fChainDone>>
vars == <<txfifo, rxfifo, fBulkInBusy, fChainDone, step, c, OutBuffers, OutInterrupt, InBuffer, sent,
          returned, dropped, resets>>

-----------------------------------------------------------------------------
(* serial_fifo.c                                                           *)

fifo_init == [head |-> 0, tail |-> 0, buf |-> [k \in 0 .. VCOM_FIFO_SIZE - 1 |-> 0]]

After(index) == (index + 1) % VCOM_FIFO_SIZE

(* Mutant: a ring may be filled to its last place.                         *)
IsFullNever(fifo) == FALSE

IsFull(fifo) == After(fifo.head) = fifo.tail

fifo_avail(fifo) == (VCOM_FIFO_SIZE + fifo.head - fifo.tail) % VCOM_FIFO_SIZE
fifo_free(fifo)  == VCOM_FIFO_SIZE - 1 - fifo_avail(fifo)

(* In the interrupt: nothing comes in between.                             *)
fifo_put(fifo, char) ==
  IF IsFull(fifo) THEN fifo
  ELSE [fifo EXCEPT !.buf[fifo.head] = char, !.head = After(@)]

Held(fifo) == [k \in 1 .. fifo_avail(fifo) |-> fifo.buf[(fifo.tail + k - 1) % VCOM_FIFO_SIZE]]

-----------------------------------------------------------------------------
(* Handlers of the interrupt                                               *)

(* Mutant: a packet is read when there is room for a character.            *)
RoomForOne(fifo) == fifo_free(fifo) > 0

Room(fifo) == fifo_free(fifo) >= MAX_PACKET_SIZE

(* Of what is left of a packet when the ring is full the rest is lost.     *)
BulkOut ==
  /\ OutInterrupt
  /\ IF Room(rxfifo) /\ OutBuffers # <<>>
     THEN /\ rxfifo' = FoldLeft(fifo_put, rxfifo, Head(OutBuffers))
          /\ OutBuffers' = Tail(OutBuffers)
     ELSE UNCHANGED <<rxfifo, OutBuffers>>
  /\ OutInterrupt' \in {FALSE, OutBuffers' # OutBuffers /\ OutBuffers' # <<>>}
  /\ UNCHANGED <<txfifo, chain, step, c, InBuffer, sent, returned, dropped, resets>>

Shorter(a, b) == IF a < b THEN a ELSE b

(* Mutant: a chain ends with its last character.                           *)
LastIfEmpty(n) == n = fifo_avail(txfifo)

LastOfChain(n) == n < MAX_PACKET_SIZE

SendNextBulkIn(fFirstPacket) ==
  IF fChainDone /\ ~fFirstPacket
  THEN fBulkInBusy' = FALSE /\ UNCHANGED <<fChainDone, txfifo, InBuffer>>
  ELSE LET n == Shorter(MAX_PACKET_SIZE, fifo_avail(txfifo))
       IN  /\ txfifo' = [txfifo EXCEPT !.tail = (@ + n) % VCOM_FIFO_SIZE]
           /\ InBuffer' = <<SubSeq(Held(txfifo), 1, n)>>
           /\ fBulkInBusy' = TRUE
           /\ fChainDone' = LastOfChain(n)

(* The host fetched the packet.                                            *)
BulkIn ==
  /\ InBuffer # <<>>
  /\ returned' = Append(returned, InBuffer[1])
  /\ IF fChainDone THEN fBulkInBusy' = FALSE /\ InBuffer' = <<>> /\ UNCHANGED <<fChainDone, txfifo>>
     ELSE SendNextBulkIn(FALSE)
  /\ UNCHANGED <<rxfifo, step, c, OutBuffers, OutInterrupt, sent, dropped, resets>>

USBFrameHandler ==
  /\ ~fBulkInBusy /\ fifo_avail(txfifo) # 0
  /\ SendNextBulkIn(TRUE)
  /\ UNCHANGED <<rxfifo, step, c, OutBuffers, OutInterrupt, sent, returned, dropped, resets>>

(* A reset of the bus: the endpoints forget their packets.                 *)
USBDevIntHandler ==
  /\ resets < MaxBusResets /\ resets' = resets + 1
  /\ fBulkInBusy' = FALSE
  /\ OutBuffers' = <<>> /\ OutInterrupt' = FALSE /\ InBuffer' = <<>>
  /\ UNCHANGED <<rings, fChainDone, step, c, sent, returned, dropped>>

-----------------------------------------------------------------------------
(* The program                                                             *)

VCOM_getchar ==
  \/ /\ step = "get" /\ fifo_avail(rxfifo) # 0 /\ step' = "take"
     /\ UNCHANGED <<rxfifo, c>>
  \/ /\ step = "take" /\ step' = "taken"
     /\ c' = rxfifo.buf[rxfifo.tail] /\ UNCHANGED rxfifo
  \/ /\ step = "taken" /\ step' = "put"
     /\ rxfifo' = [rxfifo EXCEPT !.tail = After(@)] /\ UNCHANGED c

VCOM_putchar ==
  \/ /\ step = "put" /\ IsFull(txfifo) /\ step' = "get"
     /\ dropped' = dropped \cup {c} /\ UNCHANGED txfifo
  \/ /\ step = "put" /\ ~IsFull(txfifo) /\ step' = "store"
     /\ UNCHANGED <<txfifo, dropped>>
  \/ /\ step = "store" /\ step' = "stored"
     /\ txfifo' = [txfifo EXCEPT !.buf[txfifo.head] = c] /\ UNCHANGED dropped
  \/ /\ step = "stored" /\ step' = "get"
     /\ txfifo' = [txfifo EXCEPT !.head = After(@)] /\ UNCHANGED dropped

main ==
  /\ \/ VCOM_getchar /\ UNCHANGED <<txfifo, dropped>>
     \/ VCOM_putchar /\ UNCHANGED <<rxfifo, c>>
  /\ UNCHANGED <<chain, OutBuffers, OutInterrupt, InBuffer, sent, returned, resets>>

(* The host sends a packet into one of the endpoint's two buffers.         *)
HostSends ==
  /\ Len(OutBuffers) < 2
  /\ \E n \in 1 .. MAX_PACKET_SIZE :
       /\ sent + n <= MaxChars /\ sent' = sent + n
       /\ OutBuffers' = Append(OutBuffers, [k \in 1 .. n |-> sent + k])
  /\ OutInterrupt' = TRUE
  /\ UNCHANGED <<rings, chain, step, c, InBuffer, returned, dropped, resets>>

(* VCOM_init().                                                            *)
Init ==
  /\ txfifo = fifo_init /\ rxfifo = fifo_init /\ fBulkInBusy = FALSE /\ fChainDone = TRUE
  /\ step = "get" /\ c = 0 /\ OutBuffers = <<>> /\ OutInterrupt = FALSE /\ InBuffer = <<>>
  /\ sent = 0 /\ returned = <<>> /\ dropped = {} /\ resets = 0

Interrupt == BulkOut \/ BulkIn \/ USBFrameHandler

Next == Interrupt \/ main \/ USBDevIntHandler \/ HostSends

(* Interrupts are served, frames pass and the host fetches what there is;  *)
(* the program runs.                                                       *)
Fairness == WF_vars(Interrupt) /\ WF_vars(main)

Spec == Init /\ [][Next]_vars /\ Fairness

-----------------------------------------------------------------------------
Increasing(s) == \A k \in 1 .. Len(s) - 1 : s[k] < s[k + 1]

InHand == IF step \in {"put", "store", "stored", "taken"} THEN <<c>> ELSE <<>>

(* From what came back last to what waits to be read all characters are in *)
(* the order they were sent in, and none is there twice, however the       *)
(* interrupt and the program use the rings (serial_fifo.c); while the bus  *)
(* is not reset none is lost that the program did not drop, and none in    *)
(* the middle of a packet ("overflow... :(", usb_serial.c).                *)
CharactersInOrder ==
  LET rx  == IF step = "taken" THEN Tail(Held(rxfifo)) ELSE Held(rxfifo)
      all == FlattenSeq(returned) \o FlattenSeq(InBuffer) \o Held(txfifo) \o InHand \o rx
             \o FlattenSeq(OutBuffers)
  IN  /\ Increasing(all)
      /\ resets = 0 => ToSet(all) \cup dropped = 1 .. sent

(* Every chain ends with a short packet, which the host's driver waits for *)
(* (USBFrameHandler): when none is under way, none was left without.       *)
ChainsEnd ==
  resets = 0 /\ ~fBulkInBusy /\ returned # <<>> => Len(Last(returned)) < MAX_PACKET_SIZE

(* All that was read is sent back or dropped in the end, and the last      *)
(* chain ends.  (What an endpoint's buffer holds may stay there: when the  *)
(* ring has no room BulkOut() leaves it, and no interrupt comes again.)    *)
SentBack ==
  <>[](rxfifo.head = rxfifo.tail /\ txfifo.head = txfifo.tail /\ ~fBulkInBusy)
==============================================================================
