--------------------------- MODULE LeWindowProofs ---------------------------
(***************************************************************************)
(* Proofs about LeWindow: the search hears every carrier and joins what    *)
(* belongs together, however many blocks come, are missed or pass while    *)
(* the loop is busy, and wherever the interrupts come in.                  *)
(***************************************************************************)
EXTENDS LeWindow, TLAPS

Hyp == WindowAssumption /\ CS_HOLD_TIME > 1

LEMMA WindowInit == ASSUME Hyp, Init PROVE WindowInv
<1> USE DEF Hyp, WindowAssumption
<1>1. NoBlock \in Seq(Int) /\ Len(NoBlock) = Pieces /\ \A i \in 1 .. Pieces : NoBlock[i] = 0
  BY DEF NoBlock
<1>2. WindowTypes
  <2>1. unpacked.front = NoBlock /\ unpacked.back = NoBlock
        /\ unpacked \in [front : Seq(Int), back : Seq(Int)]
    BY <1>1 DEF Init
  <2> QED BY <1>1, <2>1 DEF Init, WindowTypes
<1>3. TakenInTurn /\ KeptInv
  BY DEF Init, TakenInTurn, Due, KeptInv, FreshKept, LastKept, NextKept, TakenKept, CarrierHeard, Deciding
<1>4. UnpackedInv
  BY DEF Init, UnpackedInv
<1>5. OlderInv
  BY <1>1 DEF Init, OlderInv, Due
<1> QED BY <1>2, <1>3, <1>4, <1>5 DEF WindowInv

(* The next piece of a block. *)
LEMMA Unpacking ==
  ASSUME WindowTypes, Unpack
  PROVE  \E b \in idle_rxbuf :
           /\ b \in Int /\ unpacked'.front = unpacked.front
           /\ unpacked' \in [front : Seq(Int), back : Seq(Int)]
           /\ Len(unpacked'.back) = Len(unpacked.back) + 1
           /\ \A i \in 1 .. Len(unpacked.back) : unpacked'.back[i] = unpacked.back[i]
           /\ unpacked'.back[Len(unpacked.back) + 1] = b
<1>1. unpacked \in [front : Seq(Int), back : Seq(Int)] /\ blocks \in Nat
  BY DEF WindowTypes
<1>2. PICK b \in idle_rxbuf : unpacked' = [unpacked EXCEPT !.back = Append(@, b)]
  BY DEF Unpack
<1>3. b \in Int
  BY <1>1 DEF idle_rxbuf
<1>4. unpacked'.front = unpacked.front /\ unpacked'.back = Append(unpacked.back, b)
      /\ unpacked' \in [front : Seq(Int), back : Seq(Int)]
  <2> DEFINE longer == Append(unpacked.back, b)
  <2>1. longer \in Seq(Int)
    BY <1>1, <1>3
  <2>2. unpacked' = [front |-> unpacked.front, back |-> longer]
    BY <1>1, <1>2
  <2> HIDE DEF longer
  <2>3. unpacked'.front = unpacked.front /\ unpacked'.back = longer
        /\ unpacked' \in [front : Seq(Int), back : Seq(Int)]
    BY <1>1, <2>1, <2>2
  <2> QED BY <2>3 DEF longer
<1> QED BY <1>1, <1>3, <1>4

LEMMA TypesStep ==
  ASSUME Hyp, WindowInv, [Next]_vars
  PROVE  WindowTypes' /\ TakenInTurn'
<1> USE DEF Hyp, WindowAssumption, WindowInv, WindowTypes, TakenInTurn, Body, Due, Between, receiver, past
<1>1. CASE Again
  BY <1>1 DEF Again
<1>2. CASE Sample
  BY <1>2 DEF Sample
<1>3. CASE Woken
  BY <1>3 DEF Woken, UnpackedInv
<1>4. CASE Test \/ Clear \/ Level
  BY <1>4 DEF Test, Clear, Level, Hold
<1>5. CASE Squelch
  BY <1>5 DEF Squelch
<1>6. CASE MoveToFront
  BY <1>6 DEF MoveToFront
<1>7. CASE Unpack
  <2>1. /\ unpacked' \in [front : Seq(Int), back : Seq(Int)] /\ unpacked'.front = unpacked.front
        /\ Len(unpacked'.back) = Len(unpacked.back) + 1
    BY <1>7, Unpacking
  <2>2. at = "unpack" /\ Len(unpacked.back) < Pieces /\ at' = (IF Len(unpacked'.back) < Pieces THEN "unpack" ELSE "call")
        /\ whole' \in {whole, whole \cup {taken}}
        /\ UNCHANGED <<rx_tc, hold, taken, squelched, blocks, sensed>>
    BY <1>7 DEF Unpack
  <2> QED BY <2>1, <2>2
<1>8. CASE data_cb
  BY <1>8 DEF data_cb
<1>9. CASE rx_continue
  BY <1>9 DEF rx_continue
<1>10. CASE bt_stream_dma_handler
  BY <1>10 DEF bt_stream_dma_handler
<1>11. CASE EINT3_IRQHandler
  BY <1>11 DEF EINT3_IRQHandler
<1>12. CASE UNCHANGED vars
  BY <1>12 DEF vars
<1> QED BY <1>1, <1>2, <1>3, <1>4, <1>5, <1>6, <1>7, <1>8, <1>9, <1>10, <1>11, <1>12 DEF Next

LEMMA KeptStep ==
  ASSUME Hyp, WindowInv, [Next]_vars
  PROVE  KeptInv'
<1> USE DEF Hyp, WindowAssumption, Body, Due, Between, Deciding, Held, Covers, KeptInv
<1>0. WindowTypes /\ TakenInTurn /\ FreshKept /\ LastKept /\ NextKept /\ TakenKept /\ CarrierHeard
  BY DEF WindowInv
<1>1. CASE Again \/ Sample
  BY <1>0, <1>1 DEF Again, Sample, WindowTypes, FreshKept, LastKept, NextKept, TakenKept, CarrierHeard
<1>3. CASE Woken
  BY <1>0, <1>3 DEF Woken, WindowTypes, FreshKept, LastKept, NextKept, TakenKept, CarrierHeard
<1>4. CASE Test \/ Clear \/ Level
  <2>1. CASE Test
    BY <1>0, <2>1 DEF Test, Hold, WindowTypes, FreshKept, LastKept, NextKept, TakenKept, CarrierHeard
  <2>2. CASE Clear
    BY <1>0, <2>2 DEF Clear, WindowTypes, TakenInTurn, FreshKept, LastKept, NextKept, TakenKept,
                      CarrierHeard
  <2>3. CASE Level
    BY <1>0, <2>3 DEF Level, Hold, WindowTypes, FreshKept, LastKept, NextKept, TakenKept, CarrierHeard
  <2> QED BY <1>4, <2>1, <2>2, <2>3
<1>5. CASE Squelch
  BY <1>0, <1>5 DEF Squelch, WindowTypes, FreshKept, LastKept, NextKept, TakenKept, CarrierHeard
<1>6. CASE MoveToFront \/ Unpack \/ data_cb \/ rx_continue
  <2>1. CASE MoveToFront
    BY <1>0, <2>1 DEF MoveToFront, WindowTypes, FreshKept, LastKept, NextKept, TakenKept, CarrierHeard
  <2>2. CASE Unpack
    <3>1. at = "unpack" /\ at' \in {"unpack", "call"}
          /\ UNCHANGED <<cs_trigger, tardy, sensed, hold, taken, squelched, blocks, rx_tc>>
      BY <2>2 DEF Unpack
    <3> QED BY <1>0, <3>1 DEF FreshKept, LastKept, NextKept, TakenKept, CarrierHeard
  <2>3. CASE data_cb
    BY <1>0, <2>3 DEF data_cb, WindowTypes, FreshKept, LastKept, NextKept, TakenKept, CarrierHeard
  <2>4. CASE rx_continue
    BY <1>0, <2>4 DEF rx_continue, WindowTypes, FreshKept, LastKept, NextKept, TakenKept, CarrierHeard
  <2> QED BY <1>6, <2>1, <2>2, <2>3, <2>4
<1>10. CASE bt_stream_dma_handler
  <2>1. /\ at # "off" /\ UNCHANGED <<at, cs_trigger, hold, taken, sensed, tardy, squelched>>
        /\ \/ blocks' = blocks + 1 /\ rx_tc' = rx_tc + 1
           \/ UNCHANGED <<rx_tc, blocks>>
    BY <1>10 DEF bt_stream_dma_handler, receiver, past
  <2>2. CASE UNCHANGED <<rx_tc, blocks>>
    BY <1>0, <2>1, <2>2 DEF FreshKept, LastKept, NextKept, TakenKept, CarrierHeard
  <2>3. CASE blocks' = blocks + 1 /\ rx_tc' = rx_tc + 1
    <3>1. FreshKept'
      BY <1>0, <2>1, <2>3 DEF WindowTypes, FreshKept
    <3>2. LastKept'
      BY <1>0, <2>1, <2>3 DEF WindowTypes, FreshKept, LastKept
    <3>3. NextKept'
      BY <1>0, <2>1, <2>3 DEF WindowTypes, LastKept, NextKept
    <3>4. TakenKept' /\ CarrierHeard'
      BY <1>0, <2>1 DEF TakenKept, CarrierHeard
    <3> QED BY <3>1, <3>2, <3>3, <3>4
  <2> QED BY <2>1, <2>2, <2>3
<1>11. CASE EINT3_IRQHandler
  BY <1>0, <1>11 DEF EINT3_IRQHandler, receiver, WindowTypes, TakenInTurn, FreshKept, LastKept, NextKept,
                     TakenKept, CarrierHeard
<1>12. CASE UNCHANGED vars
  BY <1>0, <1>12 DEF vars, receiver, past, FreshKept, LastKept, NextKept, TakenKept, CarrierHeard
<1> QED BY <1>1, <1>3, <1>4, <1>5, <1>6, <1>10, <1>11, <1>12 DEF Next

LEMMA UnpackedStep ==
  ASSUME Hyp, WindowInv, [Next]_vars
  PROVE  UnpackedInv'
<1> USE DEF Hyp, WindowAssumption, Body, Due, Between
<1>0. WindowTypes /\ TakenInTurn /\ UnpackedInv
  BY DEF WindowInv
<1>1. CASE Again \/ Sample \/ Test \/ Clear \/ Level \/ Squelch \/ data_cb \/ rx_continue
  BY <1>0, <1>1 DEF Again, Sample, Test, Clear, Level, Squelch, data_cb, rx_continue, WindowTypes,
                    UnpackedInv, All
<1>2. CASE Woken
  <2>1. /\ at = "wait" /\ UNCHANGED <<unpacked, whole, rx_tc, blocks>>
        /\ \/ rx_tc > 0 /\ at' = "test" /\ taken' = blocks
           \/ rx_tc = 0 /\ at' = "continue" /\ taken' = taken
    BY <1>0, <1>2 DEF Woken, WindowTypes
  <2>2. taken \in whole => unpacked.back = All(taken)
    BY <1>0, <2>1 DEF UnpackedInv
  <2>3. CASE rx_tc > 0 /\ at' = "test" /\ taken' = blocks
    <3>1. taken < blocks
      BY <1>0, <2>1, <2>3 DEF TakenInTurn
    <3>2. blocks \notin whole /\ (blocks - 1 \in whole => blocks - 1 = taken)
      BY <1>0, <3>1 DEF WindowTypes
    <3> QED BY <2>1, <2>2, <2>3, <3>2 DEF UnpackedInv, All
  <2>4. CASE rx_tc = 0 /\ at' = "continue" /\ taken' = taken
    BY <2>1, <2>2, <2>4 DEF UnpackedInv, All
  <2> QED BY <2>1, <2>3, <2>4
<1>3. CASE MoveToFront
  BY <1>0, <1>3 DEF MoveToFront, WindowTypes, UnpackedInv, All
<1>4. CASE Unpack
  <2>1. /\ at = "unpack" /\ at' \in {"unpack", "call"} /\ taken' = taken
        /\ whole' = whole \/ (whole' = whole \cup {taken} /\ unpacked'.back = All(taken))
    BY <1>4 DEF Unpack
  <2>2. unpacked'.front = unpacked.front
    BY <1>0, <1>4, Unpacking
  <2>3. taken \notin whole /\ (taken - 1 \in whole => unpacked.front = All(taken - 1)) /\ taken \in Int
    BY <1>0, <2>1 DEF UnpackedInv, WindowTypes
  <2>4. taken - 1 \in whole' => taken - 1 \in whole
    BY <2>1, <2>3
  <2>5. /\ at' = "call" /\ taken \in whole' => unpacked'.back = All(taken)
        /\ at' = "unpack" => taken \notin whole'
    <3>1. at' = "unpack" => whole' = whole
      BY <1>4 DEF Unpack
    <3> QED BY <2>1, <2>3, <3>1
  <2> QED BY <2>1, <2>2, <2>3, <2>4, <2>5 DEF UnpackedInv, All
<1>5. CASE bt_stream_dma_handler \/ EINT3_IRQHandler \/ UNCHANGED vars
  BY <1>0, <1>5 DEF bt_stream_dma_handler, EINT3_IRQHandler, vars, receiver, past, UnpackedInv, All
<1> QED BY <1>1, <1>2, <1>3, <1>4, <1>5 DEF Next

LEMMA OlderStep ==
  ASSUME Hyp, WindowInv, [Next]_vars
  PROVE  OlderInv'
<1> USE DEF Hyp, WindowAssumption, Body, Due, Between
<1>0. WindowTypes /\ TakenInTurn /\ OlderInv
  BY DEF WindowInv
<1>1. CASE Again \/ Sample \/ Test \/ Clear \/ Level
  <2>1. /\ at # "off" /\ UNCHANGED <<unpacked, swapped, taken, blocks, rx_tc>>
        /\ at' = "off" \/ (at = "head" /\ at' = "wait") \/ at' = at
           \/ (at \in {"test", "clear", "level"} /\ at' \in {"clear", "level", "hold"})
    BY <1>1 DEF Again, Sample, Test, Clear, Level
  <2> QED BY <1>0, <2>1 DEF OlderInv
<1>2. CASE Woken
  BY <1>0, <1>2 DEF Woken, WindowTypes, TakenInTurn, OlderInv
<1>3. CASE MoveToFront
  BY <1>0, <1>3 DEF MoveToFront, WindowTypes, OlderInv
<1>4. CASE Unpack
  <2>1. PICK b \in idle_rxbuf :
           /\ b \in Int /\ unpacked'.front = unpacked.front
           /\ unpacked' \in [front : Seq(Int), back : Seq(Int)]
           /\ Len(unpacked'.back) = Len(unpacked.back) + 1
           /\ \A i \in 1 .. Len(unpacked.back) : unpacked'.back[i] = unpacked.back[i]
           /\ unpacked'.back[Len(unpacked.back) + 1] = b
    BY <1>0, <1>4, Unpacking
  <2>2. at = "unpack" /\ at' \in {"unpack", "call"} /\ UNCHANGED <<taken, blocks, swapped>>
    BY <1>4 DEF Unpack
  <2>3. Len(unpacked.back) \in Nat
    BY <1>0 DEF WindowTypes
  <2>4. ~swapped => b = blocks
    BY DEF idle_rxbuf
  <2>5. ~swapped => \A i \in 1 .. Len(unpacked'.back) : unpacked'.back[i] <= blocks
    <3>1. ~swapped => \A i \in 1 .. Len(unpacked.back) : unpacked.back[i] <= blocks
      BY <1>0, <2>2 DEF OlderInv
    <3>2. blocks \in Nat
      BY <1>0 DEF WindowTypes
    <3> SUFFICES ASSUME ~swapped, NEW i \in 1 .. Len(unpacked'.back)
                 PROVE  unpacked'.back[i] <= blocks
      OBVIOUS
    <3>3. CASE i \in 1 .. Len(unpacked.back)
      <4>1. unpacked'.back[i] = unpacked.back[i]
        BY <2>1, <3>3
      <4>2. unpacked.back[i] <= blocks
        BY <3>1, <3>3
      <4> QED BY <4>1, <4>2
    <3>4. CASE i = Len(unpacked.back) + 1
      BY <2>1, <2>4, <3>2, <3>4
    <3> QED BY <2>1, <2>3, <3>3, <3>4
  <2> QED BY <1>0, <2>1, <2>2, <2>5 DEF OlderInv
<1>5. CASE bt_stream_dma_handler \/ EINT3_IRQHandler \/ UNCHANGED vars
  <2>1. /\ UNCHANGED <<at, unpacked, swapped, taken>>
        /\ \/ blocks' = blocks + 1 /\ rx_tc' = rx_tc + 1
           \/ UNCHANGED <<rx_tc, blocks>>
    BY <1>5 DEF bt_stream_dma_handler, EINT3_IRQHandler, vars, receiver, past
  <2>2. blocks \in Nat /\ rx_tc \in Nat /\ unpacked.back \in Seq(Int)
    BY <1>0 DEF WindowTypes
  <2>3. \A i \in 1 .. Len(unpacked.back) : unpacked.back[i] \in Int
    BY <2>2
  <2> QED BY <1>0, <2>1, <2>2, <2>3 DEF OlderInv
<1>6. CASE Squelch \/ data_cb \/ rx_continue
  <2>1. /\ UNCHANGED <<unpacked, swapped, taken, blocks>>
        /\ \/ at = "hold" /\ at' = "continue"
           \/ at = "call" /\ at' \in {"continue", "off"}
           \/ at = "continue" /\ at' = "head" /\ rx_tc' = 0
    BY <1>6 DEF Squelch, data_cb, rx_continue
  <2>2. blocks \in Nat /\ taken \in 0 .. blocks /\ unpacked.back \in Seq(Int)
    BY <1>0 DEF WindowTypes
  <2>3. \A i \in 1 .. Len(unpacked.back) : unpacked.back[i] \in Int
    BY <2>2
  <2>4. ~swapped => \A i \in 1 .. Len(unpacked.back) : unpacked.back[i] <= blocks
    <3>1. CASE at = "hold"
      <4>1. ~swapped => \A i \in 1 .. Len(unpacked.back) : unpacked.back[i] <= taken - 1
        BY <1>0, <3>1 DEF OlderInv
      <4> QED BY <2>2, <2>3, <4>1
    <3>2. CASE at \in {"call", "continue"}
      BY <1>0, <3>2 DEF OlderInv
    <3> QED BY <2>1, <3>1, <3>2
  <2>5. (at' \notin {"unpack", "call", "test", "clear", "level", "hold"} /\ ~(Due')) \/ at' = "off"
    BY <2>1
  <2> QED BY <2>1, <2>4, <2>5 DEF OlderInv
<1> QED BY <1>1, <1>2, <1>3, <1>4, <1>5, <1>6 DEF Next

(* A packet whose carrier was sensed is found although it is in two        *)
(* blocks: the squelch drops no block in which a carrier begins, and       *)
(* data_cb() gets what belongs together.  The hold must last for two       *)
(* blocks at the least.                                                    *)
THEOREM CarriersHeard ==
  ASSUME WindowAssumption, CS_HOLD_TIME > 1
  PROVE  Spec => []WindowRight
<1>1. Hyp
  BY DEF Hyp
<1>2. Init => WindowInv
  BY <1>1, WindowInit
<1>3. WindowInv /\ [Next]_vars => WindowInv'
  BY <1>1, TypesStep, KeptStep, UnpackedStep, OlderStep DEF WindowInv
<1>4. WindowInv => WindowRight
  <2> SUFFICES ASSUME WindowInv, at = "call", taken \in whole, ~swapped
               PROVE  \A i \in 1 .. Pieces : unpacked.front[i] < taken
    BY DEF WindowInv, KeptInv, WindowRight, InTurn, UnpackedInv
  <2> QED BY DEF WindowInv, OlderInv
<1> QED BY <1>2, <1>3, <1>4, PTL DEF Spec
=============================================================================
