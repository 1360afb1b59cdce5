--------------------------- MODULE RxStreamProofs ---------------------------
(***************************************************************************)
(* Proofs about RxStream: the buffer swaps keep step with the DMA channel  *)
(* within a stream, a packet copied in time is one whole block, and it is  *)
(* marked if the radio was retuned in that block.                          *)
(***************************************************************************)
EXTENDS RxStream, TLAPS

(* The two buffers. *)
LEMMA OtherBuffer ==
  \A b \in 1 .. 2 : Other(b) \in 1 .. 2 /\ Other(b) # b /\ Other(Other(b)) = b
  BY DEF Other

LEMMA OlderAge ==
  /\ \A a \in Ages : Older(a) \in Ages
  /\ Older(0) = 1
  BY DEF Older, Ages

LEMMA UsbRequests ==
  ASSUME TypeOK, handle_usb
  PROVE  /\ requested_mode' \in {"rx", "other"}
         /\ hop_mode' \in {"none", "sweep", "bluetooth"}
         /\ channel' \in Channels
         /\ do_hop' \in BOOLEAN /\ ssel' \in BOOLEAN /\ dma_discard' \in BOOLEAN
<1> USE DEF TypeOK, mode_vars
<1>1. CASE UNCHANGED <<mode_vars, do_hop, ssel, dma_discard>>
  BY <1>1
<1>2. CASE \E m \in {"rx", "other"} : RequestMode(m)
  BY <1>2 DEF RequestMode
<1>3. CASE \E c \in Channels, g \in {"none", "sweep"} : SetChannel(c, g)
  BY <1>3 DEF SetChannel
<1>4. CASE StartHopping
  BY <1>4 DEF StartHopping
<1>5. CASE RequestHop
  BY <1>5 DEF RequestHop
<1> QED BY <1>1, <1>2, <1>3, <1>4, <1>5 DEF handle_usb

(* What a completed block leaves in memory. *)
LEMMA BlockDone ==
  ASSUME TypeOK, CaptureBack
  PROVE  /\ buf' \in [1 .. 2 -> Blocks]
         /\ copy' \in [src : 0 .. 2, front : Ages] /\ copy'.src = copy.src
         /\ buf'[dst].front = Older(buf[dst].front) /\ buf'[dst].back = 1
<1> DEFINE written == [buf EXCEPT ![dst].back = 0, ![dst].mixed = turned]
<1>1. /\ written \in [1 .. 2 -> Blocks]
      /\ written[dst].front = buf[dst].front /\ written[dst].back = 0
  BY DEF TypeOK, Blocks, Ages
<1>2. buf' = [i \in 1 .. 2 |-> [written[i] EXCEPT !.front = Older(@), !.back = Older(@)]]
  BY DEF CaptureBack
<1> HIDE DEF written
<1>3. buf' \in [1 .. 2 -> Blocks]
  BY <1>1, <1>2, OlderAge DEF Blocks
<1>4. buf'[dst].front = Older(buf[dst].front) /\ buf'[dst].back = 1
  BY <1>1, <1>2, OlderAge DEF Blocks, TypeOK
<1>5. copy' \in [src : 0 .. 2, front : Ages] /\ copy'.src = copy.src
  BY OlderAge DEF CaptureBack, TypeOK
<1> QED BY <1>3, <1>4, <1>5

LEMMA TypeInit == Init => TypeOK
<1> SUFFICES ASSUME Init PROVE TypeOK
  OBVIOUS
<1>1. /\ buf \in [1 .. 2 -> Blocks] /\ copy \in [src : 0 .. 2, front : Ages]
      /\ dst \in 1 .. 2 /\ active_rxbuf \in 1 .. 2 /\ rx_tc \in 0 .. TcCap
  BY DEF Init, AllOld, Blocks, Ages, NoCopy, TcCap
<1>2. /\ do_hop \in BOOLEAN /\ ssel \in BOOLEAN /\ tc \in BOOLEAN /\ dma_discard \in BOOLEAN
      /\ skew \in BOOLEAN /\ unmarked \in BOOLEAN /\ turned \in BOOLEAN
  BY DEF Init
<1> QED BY <1>1, <1>2 DEF Init, TypeOK

(* TypeOK in two parts: what few steps change, and what many do.           *)
Memory ==
  /\ dma \in {"off", "front", "back"} /\ dst \in 1 .. 2
  /\ buf \in [1 .. 2 -> Blocks] /\ turned \in BOOLEAN /\ tc \in BOOLEAN
  /\ active_rxbuf \in 1 .. 2 /\ rx_tc \in 0 .. TcCap
  /\ copy \in [src : 0 .. 2, front : Ages]

Places == {"idle", "loop", "wait", "poll", "hop", "tune", "woken", "copy", "back", "serve",
           "next", "stop", "csoff"}

Control ==
  /\ requested_mode \in {"rx", "other"}
  /\ hop_mode \in {"none", "sweep", "bluetooth"}
  /\ channel \in Channels /\ radio \in Channels
  /\ do_hop \in BOOLEAN /\ ssel \in BOOLEAN /\ dma_discard \in BOOLEAN
  /\ skew \in BOOLEAN /\ unmarked \in BOOLEAN
  /\ status \subseteq {"DMA_OVERFLOW", "DISCARD"}

Argument == pc \in {"copy", "back"} => copy.src \in 1 .. 2

LEMMA TypeParts == TypeOK <=> pc \in Places /\ Control /\ Memory /\ Argument
  BY DEF TypeOK, Places, Control, Memory, Argument

LEMMA TypePartsNext == TypeOK' <=> pc' \in Places /\ Control' /\ Memory' /\ Argument'
  BY DEF TypeOK, Places, Control, Memory, Argument

(* A step of the main context that leaves memory and enqueue() alone.      *)
LEMMA ControlStep ==
  ASSUME TypeOK, Control', UNCHANGED <<dma_vars, swap_vars, copy>>,
         pc' \in Places, pc' \notin {"copy", "back"} \/ pc' = pc
  PROVE  TypeOK'
<1>1. Memory'
  BY TypeParts DEF Memory, dma_vars, swap_vars
<1>2. Argument'
  BY TypeParts DEF Argument
<1> QED BY <1>1, <1>2, TypePartsNext

LEMMA TypeStep == TypeOK /\ [Next]_vars => TypeOK'
<1> SUFFICES ASSUME TypeOK, [Next]_vars PROVE TypeOK'
  OBVIOUS
<1>0. pc \in Places /\ Control /\ Memory /\ Argument
  BY TypeParts
<1> USE DEF mode_vars
<1>1. CASE Idle
  <2>1. Control' BY <1>0, <1>1, UsbRequests DEF Idle, Control, local_vars
  <2> QED BY <1>0, <1>1, <2>1, ControlStep DEF Idle, local_vars
<1>2. CASE Start
  <2>1. Control' /\ pc' = "loop"
    BY <1>0, <1>2 DEF Start, Control, local_vars
  <2>2. dma' = "front" /\ dst' = 1 /\ rx_tc' = 0
    BY <1>2 DEF Start
  <2>3. tc' \in BOOLEAN
    BY <1>2 DEF Start
  <2>4. UNCHANGED <<active_rxbuf, copy, buf>>
    BY <1>2 DEF Start, local_vars
  <2>5. turned' = turned
    BY <1>2 DEF Start
  <2>6. Memory'
    BY <1>0, <2>2, <2>3, <2>4, <2>5 DEF Memory, TcCap
  <2> QED BY <2>1, <2>6, TypePartsNext DEF Places, Argument
<1>3. CASE Loop
  <2>1. Control' BY <1>0, <1>3 DEF Loop, Control, local_vars
  <2> QED BY <1>3, <2>1, ControlStep DEF Loop, Places, local_vars
<1>4. CASE Wait
  <2>1. Control' BY <1>0, <1>4 DEF Wait, Control, local_vars
  <2> QED BY <1>4, <2>1, ControlStep DEF Wait, Places, local_vars
<1>5. CASE Poll
  <2>1. Control' BY <1>0, <1>5, UsbRequests DEF Poll, Control, local_vars
  <2> QED BY <1>5, <2>1, ControlStep DEF Poll, Places, local_vars
<1>6. CASE HopPick
  <2>1. Control' BY <1>0, <1>6 DEF HopPick, Control, local_vars
  <2> QED BY <1>6, <2>1, ControlStep DEF HopPick, Places, local_vars
<1>7. CASE HopTune
  <2>1. Control' /\ pc' = "wait"
    BY <1>0, <1>7 DEF HopTune, Control, Memory, TcCap, local_vars
  <2>2. Memory'
    BY <1>0, <1>7 DEF HopTune, Control, Memory, swap_vars, local_vars
  <2> QED BY <2>1, <2>2, TypePartsNext DEF Places, Argument
<1>8. CASE Flags
  <2>1. copy' \in [src : 0 .. 2, front : Ages] /\ copy'.src \in 1 .. 2
    BY <1>0, <1>8, OtherBuffer DEF Flags, Memory, idle_rxbuf, Ages
  <2>2. Memory'
    BY <1>0, <1>8, <2>1 DEF Flags, Memory, dma_vars, swap_vars
  <2>3. Control' /\ pc' = "copy"
    BY <1>0, <1>8 DEF Flags, Control
  <2> QED BY <2>1, <2>2, <2>3, TypePartsNext DEF Places, Argument
<1>9. CASE CopyFront
  <2>1. copy' \in [src : 0 .. 2, front : Ages] /\ copy'.src \in 1 .. 2
    BY <1>0, <1>9 DEF CopyFront, Memory, Argument, Blocks
  <2>2. Memory'
    BY <1>0, <1>9, <2>1 DEF CopyFront, Memory, dma_vars, swap_vars
  <2>3. Control' /\ pc' = "back"
    BY <1>0, <1>9 DEF CopyFront, Control
  <2> QED BY <2>1, <2>2, <2>3, TypePartsNext DEF Places, Argument
<1>10. CASE Refused \/ CopyBack
  <2>1. copy' = NoCopy /\ pc' = "serve" /\ UNCHANGED <<dma_vars, swap_vars>>
    BY <1>10 DEF Refused, CopyBack
  <2>2. Memory'
    BY <1>0, <2>1 DEF Memory, NoCopy, Ages, dma_vars, swap_vars
  <2>3. Control'
    BY <1>0, <1>10 DEF Refused, CopyBack, Control
  <2> QED BY <2>1, <2>2, <2>3, TypePartsNext DEF Places, Argument
<1>11. CASE Serve
  <2>1. Control' BY <1>0, <1>11, UsbRequests DEF Serve, Control, local_vars
  <2> QED BY <1>11, <2>1, ControlStep DEF Serve, Places, local_vars
<1>12. CASE NextBlock
  <2>1. Control' /\ pc' = "loop"
    BY <1>0, <1>12 DEF NextBlock, Control, local_vars
  <2>2. Memory'
    BY <1>0, <1>12 DEF NextBlock, Memory, dma_vars, local_vars, TcCap
  <2> QED BY <2>1, <2>2, TypePartsNext DEF Places, Argument
<1>13. CASE SspStop
  <2>1. AllOld \in [1 .. 2 -> Blocks]
    BY DEF AllOld, Blocks, Ages
  <2>2. Control' /\ pc' = "csoff"
    BY <1>0, <1>13 DEF SspStop, Control, local_vars
  <2>3. Memory'
    BY <1>0, <1>13, <2>1 DEF SspStop, Memory, swap_vars, local_vars
  <2> QED BY <2>2, <2>3, TypePartsNext DEF Places, Argument
<1>14. CASE TriggerOff
  <2>1. Control' BY <1>0, <1>14 DEF TriggerOff, Control, local_vars
  <2> QED BY <1>14, <2>1, ControlStep DEF TriggerOff, Places, local_vars
<1>15. CASE CaptureFront
  <2>1. buf' \in [1 .. 2 -> Blocks]
    BY <1>0, <1>15 DEF CaptureFront, Memory, Blocks, Ages
  <2>2. Memory'
    BY <1>0, <1>15, <2>1 DEF CaptureFront, Memory, swap_vars, local_vars
  <2>3. Control' /\ UNCHANGED <<pc, copy>>
    BY <1>0, <1>15 DEF CaptureFront, Control, local_vars
  <2> QED BY <1>0, <2>2, <2>3, TypePartsNext DEF Argument
<1>16. CASE CaptureBack
  <2>1. dst' \in 1 .. 2
    BY <1>0, <1>16, OtherBuffer DEF CaptureBack, Memory
  <2>2. Memory'
    BY <1>0, <1>16, <2>1, BlockDone DEF CaptureBack, Memory, swap_vars
  <2>3. Control' /\ pc' = pc /\ copy'.src = copy.src
    BY <1>0, <1>16, BlockDone DEF CaptureBack, Control
  <2> QED BY <1>0, <2>2, <2>3, TypePartsNext DEF Argument
<1>17. CASE DmaIsr
  <2>1. active_rxbuf' \in 1 .. 2 /\ rx_tc' \in 0 .. 2 /\ tc' = FALSE
    BY <1>0, <1>17, OtherBuffer DEF DmaIsr, Memory, idle_rxbuf, TcCap
  <2>2. Memory'
    BY <1>0, <1>17, <2>1 DEF DmaIsr, Memory, local_vars, TcCap
  <2>3. Control' /\ UNCHANGED <<pc, copy>>
    BY <1>0, <1>17 DEF DmaIsr, Control, local_vars
  <2> QED BY <1>0, <2>2, <2>3, TypePartsNext DEF Argument
<1>18. CASE EINT3Isr
  <2>1. Control' BY <1>0, <1>18 DEF EINT3Isr, Control, local_vars
  <2> QED BY <1>0, <1>18, <2>1, ControlStep DEF EINT3Isr, local_vars
<1>19. CASE Timer0Isr
  <2>1. Control' BY <1>0, <1>19 DEF Timer0Isr, Control, local_vars
  <2> QED BY <1>0, <1>19, <2>1, ControlStep DEF Timer0Isr, local_vars
<1>20. CASE UNCHANGED vars
  <2>1. Control' BY <1>0, <1>20 DEF vars, Control
  <2> QED BY <1>0, <1>20, <2>1, ControlStep DEF vars, dma_vars, swap_vars
<1> QED
  BY <1>1, <1>2, <1>3, <1>4, <1>5, <1>6, <1>7, <1>8, <1>9, <1>10, <1>11, <1>12, <1>13,
     <1>14, <1>15, <1>16, <1>17, <1>18, <1>19, <1>20 DEF Next, Main, Capture

(* Every variable of the receiver keeps its type. *)
THEOREM TypeCorrect == Spec => []TypeOK
<1>1. Init => TypeOK
  BY TypeInit
<1>2. TypeOK /\ [Next]_vars => TypeOK'
  BY TypeStep
<1> QED BY <1>1, <1>2, PTL DEF Spec

-----------------------------------------------------------------------------
(* The buffers.                                                            *)

LEMMA StreamInit == Init => StreamInv
<1> SUFFICES ASSUME Init PROVE StreamInv
  OBVIOUS
<1>1. pc = "idle" /\ dma = "off" /\ tc = FALSE
  BY DEF Init
<1> QED
  BY <1>1, TypeInit
     DEF StreamInv, Streaming, BufferParity, CompletedWhole, CopyInStep, PacketWhole

(* A step of the main context that leaves memory, the DMA channel and the  *)
(* handler's counters alone.                                               *)
LEMMA QuietStep ==
  ASSUME StreamInv, TypeOK', UNCHANGED <<dma, dst, tc, buf, active_rxbuf, rx_tc, skew, copy>>,
         Streaming' = Streaming, pc' \notin {"copy", "back"} \/ pc' = pc,
         pc' = "woken" => rx_tc > 0
  PROVE  StreamInv'
<1>1. BufferParity'
  BY DEF StreamInv, BufferParity
<1>2. CompletedWhole'
  BY DEF StreamInv, CompletedWhole
<1>3. CopyInStep'
  BY DEF StreamInv, CopyInStep
<1>4. PacketWhole'
  BY DEF StreamInv, PacketWhole
<1> QED BY <1>1, <1>2, <1>3, <1>4 DEF StreamInv

LEMMA MainStep ==
  ASSUME StreamInv, TypeOK', Main
  PROVE  StreamInv'
<1> USE DEF mode_vars, dma_vars, swap_vars, local_vars, Streaming
<1>0. /\ TypeOK /\ (Streaming <=> dma # "off") /\ (tc => Streaming)
      /\ BufferParity /\ CompletedWhole /\ CopyInStep /\ PacketWhole
  BY DEF StreamInv
<1>1. CASE Idle
  BY <1>1, QuietStep DEF Idle
<1>2. CASE Start
  <2>1. /\ pc' = "loop" /\ dma' = "front" /\ dst' = 1 /\ tc' = FALSE /\ rx_tc' = 0
        /\ active_rxbuf' = active_rxbuf /\ skew' = (active_rxbuf # 1)
    BY <1>2 DEF Start
  <2>2. BufferParity'
    BY <2>1 DEF BufferParity
  <2>3. CompletedWhole' /\ CopyInStep' /\ PacketWhole'
    BY <2>1 DEF CompletedWhole, CopyInStep, PacketWhole
  <2> QED BY <2>1, <2>2, <2>3 DEF StreamInv
<1>3. CASE Loop
  BY <1>3, QuietStep DEF Loop
<1>4. CASE Wait
  <2>1. rx_tc # 0 => rx_tc > 0
    BY <1>0 DEF TypeOK, TcCap
  <2> QED BY <1>4, <2>1, QuietStep DEF Wait
<1>5. CASE Poll
  BY <1>5, QuietStep DEF Poll
<1>6. CASE HopPick
  BY <1>6, QuietStep DEF HopPick
<1>7. CASE HopTune
  <2>1. UNCHANGED <<dma, dst, tc, buf, active_rxbuf, rx_tc, skew, copy>>
    BY <1>7 DEF HopTune
  <2> QED BY <1>7, <2>1, QuietStep DEF HopTune
<1>8. CASE Flags
  <2>1. /\ UNCHANGED <<dma, dst, tc, buf, active_rxbuf, rx_tc, skew>>
        /\ pc = "woken" /\ pc' = "copy" /\ copy'.src = idle_rxbuf
    BY <1>8 DEF Flags
  <2>2. ~tc /\ ~skew => dst = active_rxbuf
    BY <1>0, <2>1 DEF BufferParity, TypeOK
  <2>3. CopyInStep'
    BY <1>0, <2>1, <2>2 DEF CopyInStep, idle_rxbuf
  <2>4. BufferParity' /\ CompletedWhole' /\ PacketWhole'
    BY <1>0, <2>1 DEF BufferParity, CompletedWhole, PacketWhole
  <2> QED BY <1>0, <2>1, <2>3, <2>4 DEF StreamInv
<1>9. CASE CopyFront
  <2>1. /\ UNCHANGED <<dma, dst, tc, buf, active_rxbuf, rx_tc, skew>>
        /\ pc = "copy" /\ pc' = "back"
        /\ copy'.src = copy.src /\ copy'.front = buf[copy.src].front
    BY <1>0, <1>9 DEF CopyFront, TypeOK
  <2>2. CopyInStep' /\ BufferParity' /\ CompletedWhole'
    BY <1>0, <2>1 DEF CopyInStep, BufferParity, CompletedWhole
  <2>3. PacketWhole'
    BY <1>0, <2>1 DEF CopyInStep, CompletedWhole, PacketWhole
  <2> QED BY <1>0, <2>1, <2>2, <2>3 DEF StreamInv
<1>10. CASE Refused \/ CopyBack
  <2>1. /\ UNCHANGED <<dma, dst, tc, buf, active_rxbuf, rx_tc, skew>>
        /\ pc \in {"copy", "back"} /\ pc' = "serve"
    BY <1>10 DEF Refused, CopyBack
  <2>2. BufferParity' /\ CompletedWhole' /\ CopyInStep' /\ PacketWhole'
    BY <1>0, <2>1 DEF BufferParity, CompletedWhole, CopyInStep, PacketWhole
  <2> QED BY <1>0, <2>1, <2>2 DEF StreamInv
<1>11. CASE Serve
  BY <1>11, QuietStep DEF Serve
<1>12. CASE NextBlock
  <2>1. /\ UNCHANGED <<dma, dst, tc, buf, active_rxbuf, skew>>
        /\ pc = "next" /\ pc' = "loop" /\ rx_tc' = 0
    BY <1>12 DEF NextBlock
  <2>2. BufferParity' /\ CompletedWhole' /\ CopyInStep' /\ PacketWhole'
    BY <1>0, <2>1 DEF BufferParity, CompletedWhole, CopyInStep, PacketWhole
  <2> QED BY <1>0, <2>1, <2>2 DEF StreamInv
<1>13. CASE SspStop
  <2>1. pc' = "csoff" /\ dma' = "off" /\ tc' = FALSE
    BY <1>13 DEF SspStop
  <2> QED BY <2>1 DEF StreamInv, BufferParity, CompletedWhole, CopyInStep, PacketWhole
<1>14. CASE TriggerOff
  BY <1>14, QuietStep DEF TriggerOff
<1> QED
  BY <1>1, <1>2, <1>3, <1>4, <1>5, <1>6, <1>7, <1>8, <1>9, <1>10, <1>11, <1>12, <1>13, <1>14
     DEF Main

LEMMA HardwareStep ==
  ASSUME StreamInv, TypeOK', Capture \/ DmaIsr \/ EINT3Isr \/ Timer0Isr
  PROVE  StreamInv'
<1> USE DEF mode_vars, dma_vars, swap_vars, local_vars, Streaming
<1>0. /\ TypeOK /\ (Streaming <=> dma # "off") /\ (tc => Streaming)
      /\ BufferParity /\ CompletedWhole /\ CopyInStep /\ PacketWhole
      /\ Other(dst) \in 1 .. 2 /\ Other(dst) # dst /\ Other(Other(dst)) = dst
  BY OtherBuffer DEF StreamInv, TypeOK
<1>1. CASE CaptureFront
  <2>1. /\ UNCHANGED <<pc, dst, tc, active_rxbuf, rx_tc, skew, copy>>
        /\ dma = "front" /\ dma' = "back"
        /\ buf'[dst].front = 0 /\ buf'[Other(dst)] = buf[Other(dst)]
    BY <1>0, <1>1 DEF CaptureFront, TypeOK, Blocks
  <2>2. BufferParity' /\ CopyInStep'
    BY <1>0, <2>1 DEF BufferParity, CopyInStep
  <2>3. CompletedWhole'
    BY <1>0, <2>1 DEF CompletedWhole, Other
  <2>4. PacketWhole'
    BY <1>0, <2>1 DEF PacketWhole, CopyInStep
  <2> QED BY <1>0, <2>1, <2>2, <2>3, <2>4 DEF StreamInv
<1>2. CASE CaptureBack
  <2>1. /\ UNCHANGED <<pc, active_rxbuf, rx_tc, skew>>
        /\ ~tc /\ tc' = TRUE /\ dst' = Other(dst)
        /\ dma = "back" /\ dma' = "front"
        /\ buf'[dst].front = 1 /\ buf'[dst].back = 1
    BY <1>0, <1>2, BlockDone, OlderAge DEF CaptureBack, CompletedWhole
  <2>2. BufferParity'
    <3>1. dst \in 1 .. 2 /\ active_rxbuf \in 1 .. 2
      BY <1>0 DEF TypeOK
    <3>2. dst' = active_rxbuf' <=> ~(dst = active_rxbuf)
      BY <2>1, <3>1 DEF Other
    <3> QED BY <1>0, <2>1, <3>2 DEF BufferParity, TypeOK
  <2>3. CompletedWhole'
    BY <1>0, <2>1 DEF CompletedWhole
  <2>4. CopyInStep' /\ PacketWhole'
    BY <1>0, <2>1 DEF CopyInStep, PacketWhole
  <2> QED BY <1>0, <2>1, <2>2, <2>3, <2>4 DEF StreamInv
<1>3. CASE DmaIsr
  <2>1. /\ UNCHANGED <<pc, dma, dst, buf, skew, copy>>
        /\ tc /\ tc' = FALSE /\ active_rxbuf' = Other(active_rxbuf)
    BY <1>3 DEF DmaIsr, idle_rxbuf
  <2>2. rx_tc' > 0 /\ (rx_tc > 0 => rx_tc' = 2)
    BY <1>0, <1>3 DEF DmaIsr, TypeOK, TcCap
  <2>3. BufferParity'
    <3>1. dst \in 1 .. 2 /\ active_rxbuf \in 1 .. 2
      BY <1>0 DEF TypeOK
    <3>2. dst' = active_rxbuf' <=> ~(dst = active_rxbuf)
      BY <2>1, <3>1 DEF Other
    <3> QED BY <1>0, <2>1, <3>2 DEF BufferParity, TypeOK
  <2>4. CompletedWhole'
    BY <1>0, <2>1 DEF CompletedWhole
  <2>5. CopyInStep' /\ PacketWhole'
    BY <1>0, <2>1, <2>2 DEF CopyInStep, PacketWhole
  <2> QED BY <1>0, <2>1, <2>3, <2>4, <2>5 DEF StreamInv
<1>4. CASE EINT3Isr
  BY <1>4, QuietStep DEF EINT3Isr, StreamInv, CopyInStep
<1>5. CASE Timer0Isr
  BY <1>5, QuietStep DEF Timer0Isr, StreamInv, CopyInStep
<1> QED BY <1>1, <1>2, <1>3, <1>4, <1>5 DEF Capture

LEMMA StreamInvariant == Spec => []StreamInv
<1>1. Init => StreamInv
  BY StreamInit
<1>2. StreamInv /\ [Next]_vars => StreamInv'
  <2> SUFFICES ASSUME StreamInv, [Next]_vars PROVE StreamInv'
    OBVIOUS
  <2>1. TypeOK'
    BY TypeStep DEF StreamInv
  <2>2. CASE UNCHANGED vars
    BY <2>1, <2>2, QuietStep DEF vars, StreamInv, Streaming, CopyInStep
  <2> QED BY <2>1, <2>2, MainStep, HardwareStep DEF Next
<1> QED BY <1>1, <1>2, PTL DEF Spec

(* The handler's swaps follow the DMA channel through a whole stream; a    *)
(* stream that began with the buffers the wrong way round never recovers.  *)
THEOREM ParityKept == Spec => []BufferParity
<1>1. StreamInv => BufferParity
  BY DEF StreamInv
<1> QED BY <1>1, StreamInvariant, PTL

(* With the buffers in step, no order of the interrupts gives the host a   *)
(* packet made of two blocks, or of an old one, without a block having     *)
(* ended while it was copied.                                              *)
THEOREM TimelyPacketsWhole == Spec => []PacketWhole
<1>1. StreamInv => PacketWhole
  BY DEF StreamInv
<1> QED BY <1>1, StreamInvariant, PTL

-----------------------------------------------------------------------------
(* The mark of a retuning.                                                 *)

LEMMA MarkInit == Init => ProgressMarked /\ EndedMarked
<1> SUFFICES ASSUME Init PROVE ProgressMarked /\ EndedMarked
  OBVIOUS
<1>1. pc = "idle" /\ dma = "off"
  BY DEF Init
<1> QED BY <1>1 DEF ProgressMarked, EndedMarked, Streaming

LEMMA UsbKeepsMark ==
  ASSUME handle_usb, dma_discard
  PROVE  dma_discard'
  BY DEF handle_usb, RequestMode, SetChannel, StartHopping, RequestHop

(* A step that leaves memory and the packet's status alone, loses no mark  *)
(* and does not reach enqueue().                                           *)
LEMMA MarkFrame ==
  ASSUME ProgressMarked, EndedMarked, UNCHANGED <<dma, dst, tc, buf, turned, rx_tc, status>>,
         Streaming' => Streaming, unmarked => unmarked',
         dma # "off" /\ dma_discard => dma_discard' \/ unmarked', Streaming => dma # "off",
         \/ pc' = pc
         \/ pc \notin {"copy", "back", "serve", "next"} /\ pc' \notin {"copy", "back"}
         \/ pc \in {"copy", "back", "serve"} /\ pc' \in {"serve", "next"}
  PROVE  ProgressMarked' /\ EndedMarked'
<1>1. ProgressMarked'
  BY DEF ProgressMarked
<1>2. EndedMarked'
  BY DEF EndedMarked
<1> QED BY <1>1, <1>2

LEMMA MarkStep ==
  ASSUME MarkInv, StreamInv', [Next]_vars
  PROVE  ProgressMarked' /\ EndedMarked'
<1> USE DEF mode_vars, dma_vars, swap_vars, local_vars, Streaming
<1>0. /\ TypeOK /\ ProgressMarked /\ EndedMarked /\ CopyInStep
      /\ (Streaming <=> dma # "off") /\ (Streaming' <=> dma' # "off")
      /\ Other(dst) \in 1 .. 2 /\ Other(dst) # dst /\ Other(Other(dst)) = dst
      /\ unmarked \in BOOLEAN /\ unmarked' \in BOOLEAN
  BY OtherBuffer DEF MarkInv, StreamInv, TypeOK
<1>1. CASE Idle \/ TriggerOff
  <2>1. dma = "off" /\ dma' = "off"
    BY <1>0, <1>1 DEF Idle, TriggerOff
  <2> QED BY <1>0, <2>1 DEF ProgressMarked, EndedMarked
<1>2. CASE Start
  <2>1. dma' = "front" /\ tc' = FALSE /\ rx_tc' = 0
    BY <1>2 DEF Start
  <2> QED BY <2>1 DEF ProgressMarked, EndedMarked
<1>3. CASE Loop \/ Wait \/ HopPick
  <2>1. UNCHANGED <<dma, dst, tc, buf, turned, rx_tc, status, unmarked, dma_discard>>
    BY <1>3 DEF Loop, Wait, HopPick
  <2>2. pc \in {"loop", "wait", "hop"} /\ pc' \in {"wait", "stop", "poll", "woken", "tune"}
    BY <1>3 DEF Loop, Wait, HopPick
  <2> QED BY <1>0, <2>1, <2>2, MarkFrame
<1>4. CASE Poll \/ Serve
  <2>1. UNCHANGED <<dma, dst, tc, buf, turned, rx_tc, status, unmarked>>
    BY <1>4 DEF Poll, Serve
  <2>2. \/ pc = "poll" /\ pc' \in {"hop", "wait"}
        \/ pc = "serve" /\ pc' = "next"
    BY <1>4 DEF Poll, Serve
  <2>3. dma_discard => dma_discard'
    BY <1>4, UsbKeepsMark DEF Poll, Serve
  <2> QED BY <1>0, <2>1, <2>2, <2>3, MarkFrame
<1>5. CASE HopTune
  <2>1. /\ UNCHANGED <<dma, dst, tc, buf, rx_tc, status>>
        /\ dma_discard' = TRUE /\ pc' = "wait"
    BY <1>5 DEF HopTune
  <2>2. tc \/ rx_tc > 0 => unmarked'
    BY <1>5 DEF HopTune
  <2>3. ~tc /\ ~(rx_tc > 0) => ~tc' /\ rx_tc' = 0
    BY <1>0, <2>1 DEF TypeOK, TcCap
  <2>4. ProgressMarked'
    BY <2>1, <2>2, <2>3 DEF ProgressMarked
  <2>5. EndedMarked'
    BY <2>1, <2>2 DEF EndedMarked
  <2> QED BY <2>4, <2>5
<1>6. CASE Flags
  <2>1. /\ UNCHANGED <<dma, dst, tc, buf, turned, rx_tc, unmarked>>
        /\ pc = "woken" /\ pc' = "copy" /\ rx_tc > 0
    BY <1>0, <1>6 DEF Flags, CopyInStep
  <2>2. dma_discard => "DISCARD" \in status'
    BY <1>6 DEF Flags
  <2>3. rx_tc # 0
    BY <1>0, <2>1 DEF TypeOK, TcCap
  <2>4. ProgressMarked'
    BY <1>0, <2>1, <2>3 DEF ProgressMarked
  <2>5. EndedMarked'
    BY <1>0, <2>1, <2>2, <2>3 DEF EndedMarked
  <2> QED BY <2>4, <2>5
<1>7. CASE CopyFront
  <2>1. UNCHANGED <<dma, dst, tc, buf, turned, rx_tc, unmarked, dma_discard, status>>
    BY <1>7 DEF CopyFront
  <2>2. pc = "copy" /\ pc' = "back"
    BY <1>7 DEF CopyFront
  <2>3. ProgressMarked'
    BY <1>0, <2>1 DEF ProgressMarked
  <2>4. EndedMarked'
    BY <1>0, <2>1, <2>2 DEF EndedMarked
  <2> QED BY <2>3, <2>4
<1>8. CASE Refused \/ CopyBack
  <2>1. UNCHANGED <<dma, dst, tc, buf, turned, rx_tc, unmarked, dma_discard>>
    BY <1>8 DEF Refused, CopyBack
  <2>2. pc \in {"copy", "back"} /\ pc' = "serve"
    BY <1>8 DEF Refused, CopyBack
  <2>3. ProgressMarked'
    BY <1>0, <2>1 DEF ProgressMarked
  <2>4. EndedMarked'
    BY <1>0, <2>1, <2>2 DEF EndedMarked
  <2> QED BY <2>3, <2>4
<1>9. CASE NextBlock
  <2>1. /\ UNCHANGED <<dma, dst, tc, buf, turned, unmarked, dma_discard>>
        /\ rx_tc' = 0 /\ pc = "next"
    BY <1>9 DEF NextBlock
  <2>2. ProgressMarked'
    BY <1>0, <2>1 DEF ProgressMarked
  <2>3. EndedMarked'
    BY <1>0, <2>1 DEF EndedMarked
  <2> QED BY <2>2, <2>3
<1>10. CASE SspStop
  <2>1. dma' = "off" /\ pc' = "csoff"
    BY <1>10 DEF SspStop
  <2> QED BY <2>1 DEF ProgressMarked, EndedMarked
<1>11. CASE CaptureFront
  <2>1. /\ UNCHANGED <<pc, dst, tc, rx_tc, unmarked, dma_discard, status>>
        /\ turned' = FALSE /\ buf'[Other(dst)] = buf[Other(dst)]
    BY <1>0, <1>11 DEF CaptureFront, TypeOK, Blocks
  <2>2. EndedMarked'
    BY <1>0, <2>1 DEF EndedMarked
  <2> QED BY <2>1, <2>2 DEF ProgressMarked
<1>12. CASE CaptureBack
  <2>1. /\ UNCHANGED <<rx_tc, unmarked, dma_discard>>
        /\ dst' = Other(dst) /\ dma = "back" /\ dma' = "front" /\ tc' = TRUE
    BY <1>12 DEF CaptureBack
  <2>2. buf'[dst].mixed = turned
    BY <1>0, <1>12 DEF CaptureBack, TypeOK, Blocks
  <2>3. EndedMarked'
    BY <1>0, <2>1, <2>2 DEF EndedMarked, ProgressMarked
  <2> QED BY <2>1, <2>3 DEF ProgressMarked
<1>13. CASE DmaIsr
  <2>1. /\ UNCHANGED <<pc, dma, dst, buf, turned, dma_discard, status, unmarked>>
        /\ tc /\ tc' = FALSE
    BY <1>13 DEF DmaIsr
  <2>2. rx_tc' = 1 => rx_tc = 0
    BY <1>0, <1>13 DEF DmaIsr, TypeOK, TcCap
  <2>3. ProgressMarked'
    BY <1>0, <2>1 DEF ProgressMarked
  <2>4. pc \in {"copy", "back"} => rx_tc # 0
    BY <1>0 DEF CopyInStep, TypeOK, TcCap
  <2>5. EndedMarked'
    BY <1>0, <2>1, <2>2, <2>4 DEF EndedMarked
  <2> QED BY <2>3, <2>5
<1>14. CASE EINT3Isr
  <2>1. UNCHANGED <<pc, dma, dst, tc, buf, turned, rx_tc, status>>
    BY <1>14 DEF EINT3Isr
  <2>2. unmarked => unmarked'
    BY <1>14 DEF EINT3Isr
  <2>3. dma # "off" /\ dma_discard => dma_discard' \/ unmarked'
    BY <1>14 DEF EINT3Isr
  <2> QED BY <1>0, <2>1, <2>2, <2>3, MarkFrame
<1>15. CASE Timer0Isr \/ UNCHANGED vars
  <2>1. UNCHANGED <<pc, dma, dst, tc, buf, turned, rx_tc, status, unmarked, dma_discard>>
    BY <1>15 DEF Timer0Isr, vars
  <2> QED BY <1>0, <2>1, MarkFrame
<1> QED
  BY <1>1, <1>2, <1>3, <1>4, <1>5, <1>6, <1>7, <1>8, <1>9, <1>10, <1>11, <1>12, <1>13, <1>14,
     <1>15 DEF Next, Main, Capture

(* A packet copied in time whose block the radio was retuned in tells the  *)
(* host so, in whatever order the retuning, the end of the block, the      *)
(* carrier sense and the copy come, but for the two ways in which the mark *)
(* itself goes astray.                                                     *)
THEOREM RetuningsMarked == Spec => []RetunedMarked
<1>1. Init => ProgressMarked /\ EndedMarked
  BY MarkInit
<1>2. StreamInv /\ StreamInv' /\ ProgressMarked /\ EndedMarked /\ [Next]_vars
        => ProgressMarked' /\ EndedMarked'
  BY MarkStep DEF MarkInv
<1>3. StreamInv /\ EndedMarked => RetunedMarked
  <2> SUFFICES ASSUME StreamInv, EndedMarked, pc = "back", ~skew, ~tc, rx_tc = 1,
                      buf[copy.src].mixed
               PROVE  "DISCARD" \in status \/ unmarked
    BY DEF RetunedMarked
  <2>1. copy.src = Other(dst)
    BY DEF StreamInv, CopyInStep
  <2> QED BY <2>1 DEF EndedMarked, Streaming
<1> QED BY <1>1, <1>2, <1>3, StreamInvariant, PTL DEF Spec
=============================================================================
