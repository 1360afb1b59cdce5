------------------------------ MODULE RxStream ------------------------------
(***************************************************************************)
(* The basic rate receiver of bluetooth_rxtx.c: the main context runs      *)
(* bt_stream_rx() and hop(); the SSP and the DMA controller fill rxbuf1    *)
(* and rxbuf2 in turn; the DMA, TIMER0 and EINT3 handlers interrupt the    *)
(* main context anywhere (they have one priority and never nest).  USB is  *)
(* polled, so a vendor request is served inside handle_usb() only.         *)
(*                                                                         *)
(* Half a block of symbols is the grain of the data.  A half in memory is   *)
(* described by its age - 0: of the block being captured, 1: of the block  *)
(* completed last, 2: older - and a block by whether the radio was retuned *)
(* while it was received.                                                  *)
(* The packet queue is UsbQueue's; here it takes or refuses a packet.      *)
(* Clock, channel and RSSI stamps and the squelch are left out, and so is  *)
(* the DMA error, which neither the SSP nor SRAM can raise.                *)
(***************************************************************************)
EXTENDS Naturals

CONSTANT Channels

ASSUME ChannelAssumption == Channels # {}

VARIABLES
  pc,             \* where the main context is
  requested_mode, \* "rx": MODE_RX_SYMBOLS or MODE_BT_FOLLOW; "other"
  hop_mode, channel,
  do_hop,
  radio,          \* the channel the CC2400 is tuned to
  ssel,           \* DIO_SSEL is asserted (low): the SSP takes the symbols
  dma,            \* the half the DMA channel writes next, or "off"
  dst,            \* the buffer it writes: 1 for rxbuf1, 2 for rxbuf2
  tc,             \* the terminal count interrupt is pending
  buf,
  turned,         \* the radio was retuned since the block's first half
  active_rxbuf,   \* the other buffer is idle_rxbuf
  rx_tc,
  dma_discard,
  status,
  copy,           \* enqueue()'s argument and the age of the half it has copied
  skew,           \* history: this stream began with rxbuf2 as active_rxbuf
  unmarked        \* history: the mark of the latest retuning went astray

mode_vars  == <<requested_mode, hop_mode, channel>>
dma_vars   == <<dma, dst, tc, buf, turned>>
swap_vars  == <<active_rxbuf, rx_tc>>
local_vars == <<status, copy>>
vars == <<pc, requested_mode, hop_mode, channel, do_hop, radio, ssel, dma, dst, tc, buf,
          turned, active_rxbuf, rx_tc, dma_discard, status, copy, skew, unmarked>>

Ages == 0 .. 2
Blocks == [front : Ages, back : Ages, mixed : BOOLEAN]

(* Outside enqueue() there is no argument. *)
NoCopy == [src |-> 0, front |-> 2]

(* rx_tc is only ever compared with 0 and with 1: 2 stands for every       *)
(* greater value.                                                          *)
TcCap == 2

Other(b) == 3 - b
idle_rxbuf == Other(active_rxbuf)

Older(age) == IF age < 2 THEN age + 1 ELSE 2

AllOld == [i \in 1 .. 2 |-> [front |-> 2, back |-> 2, mixed |-> FALSE]]

Init ==
  /\ pc = "idle" /\ requested_mode = "other"
  /\ hop_mode = "none" /\ channel \in Channels /\ radio = channel
  /\ do_hop = FALSE
  /\ ssel = FALSE
  /\ dma = "off" /\ dst = 1 /\ tc = FALSE
  /\ buf = AllOld
  /\ turned = FALSE
  /\ active_rxbuf = 1 /\ rx_tc = 0
  /\ dma_discard = FALSE
  /\ status = {} /\ copy = NoCopy
  /\ skew = FALSE /\ unmarked = FALSE

-----------------------------------------------------------------------------
(* Vendor requests served by the polled USBHwISR() of handle_usb().        *)

RequestMode(m) ==
  /\ requested_mode' = m
  /\ UNCHANGED <<hop_mode, channel, do_hop, ssel, dma_discard>>

SetChannel(c, h) ==
  /\ channel' = c /\ hop_mode' = h
  /\ UNCHANGED <<requested_mode, do_hop, ssel, dma_discard>>

StartHopping ==
  /\ hop_mode' = "bluetooth"
  /\ dma_discard' = TRUE
  /\ ssel' = FALSE
  /\ requested_mode' = "rx"
  /\ UNCHANGED <<channel, do_hop>>

RequestHop ==
  /\ do_hop' = TRUE
  /\ UNCHANGED <<mode_vars, ssel, dma_discard>>

handle_usb ==
  \/ UNCHANGED <<mode_vars, do_hop, ssel, dma_discard>>
  \/ \E m \in {"rx", "other"} : RequestMode(m)
  \/ \E c \in Channels, h \in {"none", "sweep"} : SetChannel(c, h)
  \/ StartHopping
  \/ RequestHop

-----------------------------------------------------------------------------
(* The main context.                                                       *)

(* main() outside bt_stream_rx(). *)
Idle ==
  /\ pc = "idle" /\ requested_mode = "other"
  /\ handle_usb
  /\ UNCHANGED <<pc, radio, dma_vars, swap_vars, local_vars, skew, unmarked>>

(* bt_stream_rx() up to its loop: dma_init() points the DMA channel at     *)
(* rxbuf1, dio_ssp_start() and cc2400_rx() let it run.                     *)
Start ==
  /\ pc = "idle" /\ requested_mode = "rx"
  /\ pc' = "loop"
  /\ dma' = "front" /\ dst' = 1 /\ tc' = FALSE
  /\ rx_tc' = 0
  /\ ssel' = TRUE
  /\ radio' = channel
  /\ skew' = (active_rxbuf # 1)
  /\ UNCHANGED <<mode_vars, do_hop, active_rxbuf, dma_discard, local_vars, buf, turned, unmarked>>

Loop ==
  /\ pc = "loop"
  /\ pc' = IF requested_mode = "rx" THEN "wait" ELSE "stop"
  /\ UNCHANGED <<mode_vars, do_hop, radio, ssel, dma_vars, swap_vars, dma_discard, local_vars,
                 skew, unmarked>>

(* while (!rx_tc) *)
Wait ==
  /\ pc = "wait"
  /\ pc' = IF rx_tc = 0 THEN "poll" ELSE "woken"
  /\ UNCHANGED <<mode_vars, do_hop, radio, ssel, dma_vars, swap_vars, dma_discard, local_vars,
                 skew, unmarked>>

(* An iteration of the wait loop: handle_usb(), then the test of do_hop. *)
Poll ==
  /\ pc = "poll"
  /\ handle_usb
  /\ pc' = IF do_hop' THEN "hop" ELSE "wait"
  /\ UNCHANGED <<radio, dma_vars, swap_vars, local_vars, skew, unmarked>>

(* hop() chooses a channel; without hopping it only goes on when another   *)
(* one has been set.                                                       *)
HopPick ==
  /\ pc = "hop"
  /\ do_hop' = FALSE
  /\ IF hop_mode = "none" THEN UNCHANGED channel ELSE channel' \in Channels
  /\ pc' = IF hop_mode = "none" /\ radio = channel THEN "wait" ELSE "tune"
  /\ UNCHANGED <<requested_mode, hop_mode, radio, ssel, dma_vars, swap_vars, dma_discard,
                 local_vars, skew, unmarked>>

(* Mutant: the block in progress is not marked. *)
HopTuneUnmarked ==
  /\ pc = "tune"
  /\ radio' = channel
  /\ turned' = (turned \/ radio # channel)
  /\ unmarked' = (tc \/ rx_tc > 0)
  /\ pc' = "wait"
  /\ UNCHANGED <<mode_vars, do_hop, ssel, dma, dst, tc, buf, swap_vars, dma_discard, local_vars,
                 skew>>

(* hop() retunes with the receiver off, when the CC2400 gives no symbols,  *)
(* and marks the block in progress.                                        *)
HopTune ==
  /\ pc = "tune"
  /\ radio' = channel
  /\ turned' = (turned \/ radio # channel)
  /\ dma_discard' = TRUE
  /\ unmarked' = (tc \/ rx_tc > 0)
  /\ pc' = "wait"
  /\ UNCHANGED <<mode_vars, do_hop, ssel, dma, dst, tc, buf, swap_vars, local_vars, skew>>

(* Mutant: enqueue() is given the buffer the DMA channel writes. *)
FlagsActive ==
  /\ pc = "woken"
  /\ status' = status \cup (IF rx_tc > 1 THEN {"DMA_OVERFLOW"} ELSE {})
                      \cup (IF dma_discard THEN {"DISCARD"} ELSE {})
  /\ dma_discard' = FALSE
  /\ copy' = [src |-> active_rxbuf, front |-> 2]
  /\ pc' = "copy"
  /\ UNCHANGED <<mode_vars, do_hop, radio, ssel, dma_vars, swap_vars, skew, unmarked>>

(* Mutant: enqueue() is called without a buffer. *)
FlagsNull ==
  /\ pc = "woken"
  /\ status' = status \cup (IF rx_tc > 1 THEN {"DMA_OVERFLOW"} ELSE {})
                      \cup (IF dma_discard THEN {"DISCARD"} ELSE {})
  /\ dma_discard' = FALSE
  /\ copy' = NoCopy
  /\ pc' = "copy"
  /\ UNCHANGED <<mode_vars, do_hop, radio, ssel, dma_vars, swap_vars, skew, unmarked>>

(* A block is there: the status of its packet and enqueue()'s argument. *)
Flags ==
  /\ pc = "woken"
  /\ status' = status \cup (IF rx_tc > 1 THEN {"DMA_OVERFLOW"} ELSE {})
                      \cup (IF dma_discard THEN {"DISCARD"} ELSE {})
  /\ dma_discard' = FALSE
  /\ copy' = [src |-> idle_rxbuf, front |-> 2]
  /\ pc' = "copy"
  /\ UNCHANGED <<mode_vars, do_hop, radio, ssel, dma_vars, swap_vars, skew, unmarked>>

(* enqueue() copies the block or, with the queue full, keeps the status    *)
(* for a later packet.                                                     *)
CopyFront ==
  /\ pc = "copy"
  /\ copy' = [copy EXCEPT !.front = buf[copy.src].front]
  /\ pc' = "back"
  /\ UNCHANGED <<mode_vars, do_hop, radio, ssel, dma_vars, swap_vars, dma_discard, status,
                 skew, unmarked>>

Refused ==
  /\ pc = "copy"
  /\ copy' = NoCopy
  /\ pc' = "serve"
  /\ UNCHANGED <<mode_vars, do_hop, radio, ssel, dma_vars, swap_vars, dma_discard, status,
                 skew, unmarked>>

CopyBack ==
  /\ pc = "back"
  /\ status' = {} /\ copy' = NoCopy
  /\ pc' = "serve"
  /\ UNCHANGED <<mode_vars, do_hop, radio, ssel, dma_vars, swap_vars, dma_discard, skew, unmarked>>

(* handle_usb() after enqueue(). *)
Serve ==
  /\ pc = "serve"
  /\ handle_usb
  /\ pc' = "next"
  /\ UNCHANGED <<radio, dma_vars, swap_vars, local_vars, skew, unmarked>>

(* rx_tc = 0; rx_err = 0 *)
NextBlock ==
  /\ pc = "next"
  /\ rx_tc' = 0
  /\ pc' = "loop"
  /\ UNCHANGED <<mode_vars, do_hop, radio, ssel, dma_vars, active_rxbuf, dma_discard, local_vars,
                 skew, unmarked>>

(* dio_ssp_stop().  From here on all that is in memory is old. *)
SspStop ==
  /\ pc = "stop"
  /\ ssel' = FALSE
  /\ dma' = "off" /\ tc' = FALSE
  /\ buf' = AllOld /\ turned' = FALSE
  /\ skew' = FALSE /\ unmarked' = FALSE
  /\ pc' = "csoff"
  /\ UNCHANGED <<mode_vars, do_hop, radio, dst, swap_vars, dma_discard, local_vars>>

(* cs_trigger_disable(), and back in main() *)
TriggerOff ==
  /\ pc = "csoff"
  /\ pc' = "idle"
  /\ UNCHANGED <<mode_vars, do_hop, radio, ssel, dma_vars, swap_vars, dma_discard, local_vars,
                 skew, unmarked>>

-----------------------------------------------------------------------------
(* The hardware and the interrupt handlers.                                *)

(* The DMA channel moves what the SSP receives.  At the end of the buffer  *)
(* it raises the interrupt and follows the linked list to the other one.   *)
CaptureFront ==
  /\ dma = "front" /\ ssel
  /\ buf' = [buf EXCEPT ![dst].front = 0]
  /\ turned' = FALSE
  /\ dma' = "back"
  /\ UNCHANGED <<pc, mode_vars, do_hop, radio, ssel, dst, tc, swap_vars, dma_discard, local_vars,
                 skew, unmarked>>

(* The handler runs within the 400 us of a block. *)
CaptureBack ==
  /\ dma = "back" /\ ssel /\ ~tc
  /\ LET written == [buf EXCEPT ![dst].back = 0, ![dst].mixed = turned]
     IN  buf' = [i \in 1 .. 2 |-> [written[i] EXCEPT !.front = Older(@), !.back = Older(@)]]
  /\ copy' = [copy EXCEPT !.front = Older(@)]
  /\ dma' = "front" /\ dst' = Other(dst) /\ tc' = TRUE
  /\ UNCHANGED <<pc, mode_vars, do_hop, radio, ssel, turned, swap_vars, dma_discard, status,
                 skew, unmarked>>

(* Mutant: the buffers are not swapped when a block is still unserved. *)
DmaIsrKeeps ==
  /\ tc
  /\ tc' = FALSE
  /\ ssel' = (ssel /\ hop_mode # "bluetooth")
  /\ active_rxbuf' = IF rx_tc = 0 THEN idle_rxbuf ELSE active_rxbuf
  /\ rx_tc' = IF rx_tc < TcCap THEN rx_tc + 1 ELSE TcCap
  /\ UNCHANGED <<pc, mode_vars, do_hop, radio, dma, dst, buf, turned, dma_discard, local_vars,
                 skew, unmarked>>

(* bt_stream_dma_handler() *)
DmaIsr ==
  /\ tc
  /\ tc' = FALSE
  /\ ssel' = (ssel /\ hop_mode # "bluetooth")
  /\ active_rxbuf' = idle_rxbuf
  /\ rx_tc' = IF rx_tc < TcCap THEN rx_tc + 1 ELSE TcCap
  /\ UNCHANGED <<pc, mode_vars, do_hop, radio, dma, dst, buf, turned, dma_discard, local_vars,
                 skew, unmarked>>

(* Mutant: the carrier opens the SSP in the Bluetooth hopping mode only. *)
EINT3IsrHopping ==
  /\ pc # "idle"
  /\ ssel' = (ssel \/ hop_mode = "bluetooth")
  /\ dma_discard' = (dma_discard /\ hop_mode # "bluetooth")
  /\ unmarked' = (unmarked \/ (dma # "off" /\ dma_discard /\ hop_mode = "bluetooth"))
  /\ UNCHANGED <<pc, mode_vars, do_hop, radio, dma_vars, swap_vars, local_vars, skew>>

(* EINT3_IRQHandler(): the carrier sense pin has fallen. *)
EINT3Isr ==
  /\ pc # "idle"
  /\ ssel' = TRUE
  /\ dma_discard' = (dma_discard /\ hop_mode # "bluetooth")
  /\ unmarked' = (unmarked \/ (dma # "off" /\ dma_discard /\ hop_mode = "bluetooth"))
  /\ UNCHANGED <<pc, mode_vars, do_hop, radio, dma_vars, swap_vars, local_vars, skew>>

(* TIMER0_IRQHandler(), at the ticks that ask for a hop *)
Timer0Isr ==
  /\ do_hop' = TRUE
  /\ UNCHANGED <<pc, mode_vars, radio, ssel, dma_vars, swap_vars, dma_discard, local_vars,
                 skew, unmarked>>

Capture == CaptureFront \/ CaptureBack

Main == \/ Idle \/ Start \/ Loop \/ Wait \/ Poll \/ HopPick \/ HopTune \/ Flags \/ CopyFront
        \/ Refused \/ CopyBack \/ Serve \/ NextBlock \/ SspStop \/ TriggerOff

Next == Main \/ Capture \/ DmaIsr \/ EINT3Isr \/ Timer0Isr

Spec == Init /\ [][Next]_vars

(* The processor runs, the receiver delivers symbols, a pending interrupt  *)
(* is taken, and some transmitter raises the carrier sense again.          *)
FairSpec == Spec /\ WF_vars(Main) /\ WF_vars(Capture) /\ WF_vars(DmaIsr) /\ WF_vars(EINT3Isr)

-----------------------------------------------------------------------------
(* What the receiver guarantees.                                           *)

TypeOK ==
  /\ pc \in {"idle", "loop", "wait", "poll", "hop", "tune", "woken", "copy", "back", "serve",
             "next", "stop", "csoff"}
  /\ requested_mode \in {"rx", "other"}
  /\ hop_mode \in {"none", "sweep", "bluetooth"}
  /\ channel \in Channels /\ radio \in Channels
  /\ do_hop \in BOOLEAN /\ ssel \in BOOLEAN /\ tc \in BOOLEAN /\ dma_discard \in BOOLEAN
  /\ skew \in BOOLEAN /\ unmarked \in BOOLEAN
  /\ dma \in {"off", "front", "back"} /\ dst \in 1 .. 2
  /\ buf \in [1 .. 2 -> Blocks] /\ turned \in BOOLEAN
  /\ active_rxbuf \in 1 .. 2 /\ rx_tc \in 0 .. TcCap
  /\ status \subseteq {"DMA_OVERFLOW", "DISCARD"}
  /\ copy \in [src : 0 .. 2, front : Ages]
  /\ (pc \in {"copy", "back"} => copy.src \in 1 .. 2)

Streaming == pc \notin {"idle", "csoff"}

(* The comment on the buffers: DMA writes active_rxbuf, idle_rxbuf is the  *)
(* firmware's.  It can only be expected when no swap is pending.           *)
ActiveIsWritten == Streaming /\ ~tc => dst = active_rxbuf

(* Within a stream the handler's swaps keep step with the DMA channel: the *)
(* two disagree exactly while a swap is pending - or, for all of a stream  *)
(* that began with rxbuf2 active, exactly while none is.                   *)
BufferParity == Streaming => (dst = active_rxbuf <=> tc = skew)

(* With the buffers in step, a packet copied before the next block ends is *)
(* the block completed last, whole, whatever the interrupts in between.    *)
PacketWhole ==
  pc = "back" /\ ~skew /\ ~tc /\ rx_tc = 1 =>
    copy.front = 1 /\ buf[copy.src].back = 1

(* Such a packet that spans a retuning carries DISCARD, unless hop() had   *)
(* retuned with a block end still unserved, or a carrier has withdrawn the *)
(* mark.                                                                   *)
RetunedMarked ==
  pc = "back" /\ ~skew /\ ~tc /\ rx_tc = 1 /\ buf[copy.src].mixed =>
    "DISCARD" \in status \/ unmarked

(* A stop request ends the stream: the wait for a block is not endless as  *)
(* long as carriers open the SSP again.                                    *)
StopHonoured == []<>(pc = "idle" \/ requested_mode = "rx")

-----------------------------------------------------------------------------
(* The inductive invariant behind BufferParity and PacketWhole.            *)

(* The block completed last is where the DMA channel is not. *)
CompletedWhole ==
  /\ (dma = "back" => buf[dst].front = 0)
  /\ (Streaming /\ (tc \/ rx_tc > 0) => buf[Other(dst)].front = 1 /\ buf[Other(dst)].back = 1)

(* enqueue() runs on a block, and reads the one completed last until the   *)
(* next one ends.                                                          *)
CopyInStep ==
  /\ (pc \in {"woken", "copy", "back"} => rx_tc > 0)
  /\ (pc \in {"copy", "back"} /\ ~skew /\ ~tc /\ rx_tc = 1 => copy.src = Other(dst))

StreamInv ==
  /\ TypeOK
  /\ (Streaming <=> dma # "off")
  /\ (tc => Streaming)
  /\ BufferParity
  /\ CompletedWhole
  /\ CopyInStep
  /\ PacketWhole

(* The invariant behind RetunedMarked: where the mark of a retuning is.    *)

(* The block in progress has its mark in dma_discard, which no older block *)
(* is left to take.                                                        *)
ProgressMarked ==
  dma = "back" /\ turned => unmarked \/ (dma_discard /\ ~tc /\ rx_tc = 0)

(* A block that has just ended keeps it there, and once it is served the   *)
(* mark moves to the status of its packet.                                 *)
EndedMarked ==
  Streaming /\ buf[Other(dst)].mixed =>
    /\ (tc => unmarked \/ (dma_discard /\ rx_tc = 0))
    /\ (~tc /\ rx_tc = 1 =>
          \/ unmarked
          \/ pc \in {"copy", "back"} /\ "DISCARD" \in status
          \/ pc \in {"serve", "next"}
          \/ pc \notin {"copy", "back", "serve", "next"} /\ dma_discard)

MarkInv == StreamInv /\ ProgressMarked /\ EndedMarked
=============================================================================
