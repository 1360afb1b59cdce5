-------------------------------- MODULE Modes --------------------------------
(***************************************************************************)
(* The operating modes of the firmware: main() and the mode functions of   *)
(* bluetooth_rxtx.c, ego.c and cc2400_rangetest.c, with the vendor         *)
(* requests that choose between them.  A host may send any request at any  *)
(* time.  The basic rate modes, the spectrum analysers and main() poll     *)
(* USB, so a request reaches them inside handle_usb() only; the low energy *)
(* modes and the E-GO mode unmask the USB interrupt, and a request may     *)
(* arrive between any two of their steps.                                  *)
(* What a mode does with the symbols it receives is left to the modules of *)
(* its receiver; here a block arrives, or a packet ends the function.      *)
(***************************************************************************)
EXTENDS Naturals

VARIABLES
  tx_enable,       \* build option: the firmware was built with TX_ENABLE
  pc, fn,          \* where the main context is, and in which function
  mode, requested_mode,
  modulation, target_set, ego_mode,
  usb_irq,         \* the USB interrupt is unmasked
  dma,             \* DMA and its interrupt are on
  radio,           \* what the CC2400 does: its synthesiser is locked unless "off"
  slaved           \* history: bt_slave_le() left the USB interrupt unmasked

settings == <<requested_mode, modulation, target_set, ego_mode>>
machine  == <<usb_irq, dma, radio, slaved>>
vars == <<tx_enable, pc, fn, mode, requested_mode, modulation, target_set, ego_mode,
          usb_irq, dma, radio, slaved>>

(* The modes that a request can ask for. *)
Requestable == {"IDLE", "RX_SYMBOLS", "BT_FOLLOW", "AFH", "BT_FOLLOW_LE", "BT_PROMISC_LE",
                "BT_SLAVE_LE", "SPECAN", "LED_SPECAN", "EGO", "RESET"}
TxModes == {"TX_TEST", "RANGE_TEST", "REPEATER"}
Modes   == Requestable \cup TxModes

(* "FOLLOW" stands for EGO_CONTINUOUS_RX too, and "known" for the two      *)
(* modulations that the receivers and cc2400_txtest() know.                *)
EgoModes    == {"FOLLOW", "JAM", "unknown"}
Modulations == {"known", "80211_FHSS"}

(* The state after a reset; TxEnable stays what it was built with. *)
Restarted(pc1, fn1, mode1, requested1, modulation1, target1, ego1, irq1, dma1, radio1, slaved1) ==
  /\ pc1 = "main" /\ fn1 = "none"
  /\ mode1 = "IDLE" /\ requested1 = "IDLE"
  /\ modulation1 = "known" /\ target1 = FALSE /\ ego1 = "FOLLOW"
  /\ irq1 = FALSE /\ dma1 = FALSE /\ radio1 = "off" /\ slaved1 = FALSE

Init ==
  /\ tx_enable \in BOOLEAN
  /\ Restarted(pc, fn, mode, requested_mode, modulation, target_set, ego_mode,
               usb_irq, dma, radio, slaved)

Restart ==
  /\ Restarted(pc', fn', mode', requested_mode', modulation', target_set', ego_mode',
               usb_irq', dma', radio', slaved')
  /\ UNCHANGED tx_enable

-----------------------------------------------------------------------------
(* vendor_request_handler()                                                *)

RequestMode(m) ==
  /\ requested_mode' = m
  /\ UNCHANGED <<modulation, target_set, ego_mode>>

(* UBERTOOTH_EGO.  Without TX_ENABLE it is refused while ego_mode, not the *)
(* parameter, is EGO_JAM.                                                  *)
RequestEgo(e) ==
  /\ tx_enable \/ ego_mode # "JAM"
  /\ requested_mode' = "EGO" /\ ego_mode' = e
  /\ UNCHANGED <<modulation, target_set>>

SetModulation(m) ==
  /\ modulation' = m
  /\ UNCHANGED <<requested_mode, target_set, ego_mode>>

(* UBERTOOTH_SET_ACCESS_ADDRESS, UBERTOOTH_BTLE_SET_TARGET *)
SetTarget ==
  /\ target_set' = TRUE
  /\ UNCHANGED <<requested_mode, modulation, ego_mode>>

(* The requests that bear on the modes, but UBERTOOTH_FLASH. *)
vendor_request_handler ==
  \/ \E m \in Requestable \ {"EGO"} : RequestMode(m)
  \/ tx_enable /\ \E m \in TxModes : RequestMode(m)
  \/ \E e \in EgoModes : RequestEgo(e)
  \/ \E m \in Modulations : SetModulation(m)
  \/ SetTarget

(* Where the main context calls handle_usb(). *)
Polling == pc \in {"main", "stream", "sweep"}

handle_usb == vendor_request_handler \/ UNCHANGED settings

(* USB_IRQHandler, between two steps of the main context. *)
UsbIsr ==
  /\ usb_irq
  /\ vendor_request_handler
  /\ UNCHANGED <<tx_enable, pc, fn, mode, machine>>

(* UBERTOOTH_FLASH resets at once, and ends in the bootloader, whose exit  *)
(* starts this program again; so does the user who plugs the device in.    *)
Flash   == (Polling \/ usb_irq) /\ Restart
Replug  == Restart

-----------------------------------------------------------------------------
(* main()                                                                  *)

Goto(p) == pc' = p /\ UNCHANGED fn

Poll ==
  /\ pc = "main"
  /\ handle_usb
  /\ Goto("test")
  /\ UNCHANGED <<tx_enable, mode, machine>>

Test ==
  /\ pc = "test"
  /\ Goto(IF requested_mode # mode THEN "switch" ELSE "main")
  /\ UNCHANGED <<tx_enable, mode, settings, machine>>

Dispatched(m) == pc = "switch" /\ requested_mode = m

(* cc2400_rx() and cc2400_rx_sync() return at once on a modulation they do *)
(* not know; otherwise the radio receives.                                 *)
ReceiverOn == radio' = IF modulation = "80211_FHSS" THEN radio ELSE "rx"

(* cc2400_idle() *)
cc2400_idle == radio' = "off" /\ mode' = "IDLE"

Idle ==
  /\ Dispatched("IDLE")
  /\ cc2400_idle
  /\ Goto("main")
  /\ UNCHANGED <<tx_enable, settings, usb_irq, dma, slaved>>

Reset == Dispatched("RESET") /\ Restart

-----------------------------------------------------------------------------
(* bt_stream_rx()                                                          *)

(* Mutant: BT_FOLLOW is dispatched without an assignment to mode. *)
StartStreamSilent ==
  /\ \E m \in {"RX_SYMBOLS", "BT_FOLLOW", "AFH"} :
       Dispatched(m) /\ mode' = IF m = "BT_FOLLOW" THEN mode ELSE m
  /\ dma' = TRUE
  /\ ReceiverOn
  /\ Goto("stream_loop")
  /\ UNCHANGED <<tx_enable, settings, usb_irq, slaved>>

StartStream ==
  /\ \E m \in {"RX_SYMBOLS", "BT_FOLLOW", "AFH"} : Dispatched(m) /\ mode' = m
  /\ dma' = TRUE
  /\ ReceiverOn
  /\ Goto("stream_loop")
  /\ UNCHANGED <<tx_enable, settings, usb_irq, slaved>>

(* Mutant: only a stop ends the stream. *)
StreamLoopOnStop ==
  /\ pc = "stream_loop"
  /\ Goto(IF requested_mode # "IDLE" THEN "stream" ELSE "stream_stop")
  /\ UNCHANGED <<tx_enable, mode, settings, machine>>

(* MODE_AFH is not among the modes the loop goes on for. *)
StreamLoop ==
  /\ pc = "stream_loop"
  /\ Goto(IF requested_mode \in {"RX_SYMBOLS", "BT_FOLLOW"} THEN "stream" ELSE "stream_stop")
  /\ UNCHANGED <<tx_enable, mode, settings, machine>>

(* The wait for a block looks at nothing but rx_tc. *)
StreamPoll ==
  /\ pc = "stream"
  /\ vendor_request_handler
  /\ UNCHANGED <<tx_enable, pc, fn, mode, machine>>

StreamBlock ==
  /\ pc = "stream" /\ radio = "rx"
  /\ handle_usb
  /\ Goto("stream_loop")
  /\ UNCHANGED <<tx_enable, mode, machine>>

(* dio_ssp_stop(); the radio goes on. *)
StreamStop ==
  /\ pc = "stream_stop"
  /\ dma' = FALSE
  /\ Goto("main")
  /\ UNCHANGED <<tx_enable, mode, settings, usb_irq, radio, slaved>>

-----------------------------------------------------------------------------
(* The low energy receivers: bt_le_sync() for "follow" and "sync",         *)
(* bt_generic_le() for "generic".                                          *)

ActiveMode(f) == IF f = "follow" THEN "BT_FOLLOW_LE" ELSE "BT_PROMISC_LE"

EnterLe(f) ==
  /\ fn' = f /\ pc' = "le_radio"
  /\ mode' = ActiveMode(f)
  /\ modulation' = "known"
  /\ usb_irq' = TRUE
  /\ UNCHANGED <<tx_enable, requested_mode, target_set, ego_mode, dma, radio, slaved>>

StartFollowLe == Dispatched("BT_FOLLOW_LE") /\ EnterLe("follow")

StartPromiscLe ==
  /\ Dispatched("BT_PROMISC_LE")
  /\ Goto("promisc")
  /\ UNCHANGED <<tx_enable, mode, settings, machine>>

(* bt_promisc_le(): listen for an access address unless the host gave one, *)
(* and follow it.                                                          *)
PromiscListen ==
  /\ pc = "promisc" /\ requested_mode = "BT_PROMISC_LE"
  /\ ~target_set
  /\ EnterLe("generic")

PromiscKnown ==
  /\ pc = "promisc" /\ requested_mode = "BT_PROMISC_LE"
  /\ target_set
  /\ Goto("promisc_sync")
  /\ UNCHANGED <<tx_enable, mode, settings, machine>>

PromiscSync ==
  /\ pc = "promisc_sync" /\ requested_mode = "BT_PROMISC_LE"
  /\ EnterLe("sync")

PromiscEnd ==
  /\ pc \in {"promisc", "promisc_sync"} /\ requested_mode # "BT_PROMISC_LE"
  /\ Goto("main")
  /\ UNCHANGED <<tx_enable, mode, settings, machine>>

LeRadio ==
  /\ pc = "le_radio"
  /\ dma' = TRUE
  /\ ReceiverOn
  /\ Goto("le")
  /\ UNCHANGED <<tx_enable, mode, settings, usb_irq, slaved>>

(* The loop's condition; bt_generic_le() only comes to it with a block. *)
LeLeave ==
  /\ pc = "le" /\ requested_mode # ActiveMode(fn)
  /\ fn = "generic" => radio = "rx"
  /\ Goto("le_irq")
  /\ UNCHANGED <<tx_enable, mode, settings, machine>>

(* cb_le_promisc() has found an access address; or a connection that was   *)
(* followed in promiscuous mode has timed out.                             *)
LeFound ==
  /\ pc = "le" /\ radio = "rx"
  /\ fn \in {"generic", "sync"}
  /\ Goto("le_irq")
  /\ UNCHANGED <<tx_enable, mode, settings, machine>>

(* JAM_ONCE is over: bt_le_sync() itself asks for MODE_IDLE. *)
LeJammed ==
  /\ pc = "le" /\ radio = "rx" /\ tx_enable
  /\ fn \in {"follow", "sync"}
  /\ requested_mode' = "IDLE"
  /\ Goto("le_irq")
  /\ UNCHANGED <<tx_enable, mode, modulation, target_set, ego_mode, machine>>

(* The end of either function, in its order. *)
LeIrqOff ==
  /\ pc = "le_irq"
  /\ usb_irq' = FALSE /\ slaved' = FALSE
  /\ Goto("le_idle")
  /\ UNCHANGED <<tx_enable, mode, settings, dma, radio>>

(* Mutant: the radio is not turned off. *)
LeIdleWarm ==
  /\ pc = "le_idle"
  /\ mode' = "IDLE"
  /\ Goto("le_stop")
  /\ UNCHANGED <<tx_enable, settings, usb_irq, dma, radio, slaved>>

LeIdle ==
  /\ pc = "le_idle"
  /\ cc2400_idle
  /\ Goto("le_stop")
  /\ UNCHANGED <<tx_enable, settings, usb_irq, dma, slaved>>

LeStop ==
  /\ pc = "le_stop"
  /\ dma' = FALSE
  /\ fn' = "none"
  /\ pc' = CASE fn = "follow"  -> "main"
             [] fn = "generic" -> "promisc_sync"
             [] fn = "sync"    -> "promisc"
  /\ mode' = IF fn = "follow" THEN "IDLE" ELSE mode
  /\ UNCHANGED <<tx_enable, settings, usb_irq, radio, slaved>>

LowEnergy == StartFollowLe \/ StartPromiscLe \/ PromiscListen \/ PromiscKnown \/ PromiscSync
               \/ PromiscEnd \/ LeRadio \/ LeLeave \/ LeFound \/ LeJammed
               \/ LeIrqOff \/ LeIdle \/ LeStop

-----------------------------------------------------------------------------
(* bt_slave_le(), which never sets mode                                    *)

StartSlave ==
  /\ Dispatched("BT_SLAVE_LE")
  /\ Goto("slave")
  /\ UNCHANGED <<tx_enable, mode, settings, machine>>

(* The interrupts are masked for le_transmit(), which ends with the radio  *)
(* off, and unmasked for msleep().                                         *)
SlaveMask ==
  /\ pc = "slave" /\ requested_mode = "BT_SLAVE_LE"
  /\ usb_irq' = FALSE
  /\ Goto("slave_tx")
  /\ UNCHANGED <<tx_enable, mode, settings, dma, radio, slaved>>

SlaveTransmit ==
  /\ pc = "slave_tx"
  /\ radio' = "off"
  /\ usb_irq' = TRUE
  /\ Goto("slave")
  /\ UNCHANGED <<tx_enable, mode, settings, dma, slaved>>

SlaveEnd ==
  /\ pc = "slave" /\ requested_mode # "BT_SLAVE_LE"
  /\ slaved' = usb_irq
  /\ Goto("main")
  /\ UNCHANGED <<tx_enable, mode, settings, usb_irq, dma, radio>>

-----------------------------------------------------------------------------
(* specan() and led_specan(), which never set mode                         *)

SweepMode(f) == IF f = "specan" THEN "SPECAN" ELSE "LED_SPECAN"

StartSweep ==
  /\ \E f \in {"specan", "led_specan"} : Dispatched(SweepMode(f)) /\ fn' = f
  /\ pc' = "unlock"
  /\ UNCHANGED <<tx_enable, mode, settings, machine>>

(* while ((cc2400_status() & FS_LOCK)) *)
SweepUnlock ==
  /\ pc = "unlock" /\ radio = "off"
  /\ radio' = "rx"
  /\ Goto("sweep")
  /\ UNCHANGED <<tx_enable, mode, settings, usb_irq, dma, slaved>>

SweepPoll ==
  /\ pc = "sweep" /\ requested_mode = SweepMode(fn)
  /\ vendor_request_handler
  /\ UNCHANGED <<tx_enable, pc, fn, mode, machine>>

SweepEnd ==
  /\ pc = "sweep" /\ requested_mode # SweepMode(fn)
  /\ radio' = "off"
  /\ pc' = "main" /\ fn' = "none"
  /\ UNCHANGED <<tx_enable, mode, settings, usb_irq, dma, slaved>>

-----------------------------------------------------------------------------
(* ego_main()                                                              *)

EgoKnown(e) == e = "FOLLOW" \/ (tx_enable /\ e = "JAM")

(* Mutant: ego_init() does not unmask the USB interrupt. *)
StartEgoDeaf ==
  /\ Dispatched("EGO")
  /\ mode' = "EGO"
  /\ \/ /\ EgoKnown(ego_mode)
        /\ radio' = "rx"
        /\ Goto("ego")
        /\ UNCHANGED <<requested_mode, usb_irq>>
     \/ /\ ~EgoKnown(ego_mode)
        /\ requested_mode' = "IDLE"
        /\ Goto("main")
        /\ UNCHANGED <<usb_irq, radio>>
  /\ UNCHANGED <<tx_enable, modulation, target_set, ego_mode, dma, slaved>>

StartEgo ==
  /\ Dispatched("EGO")
  /\ mode' = "EGO"
  /\ \/ /\ EgoKnown(ego_mode)
        /\ usb_irq' = TRUE /\ radio' = "rx"
        /\ Goto("ego")
        /\ UNCHANGED requested_mode
     \/ /\ ~EgoKnown(ego_mode)
        /\ requested_mode' = "IDLE"
        /\ Goto("main")
        /\ UNCHANGED <<usb_irq, radio>>
  /\ UNCHANGED <<tx_enable, modulation, target_set, ego_mode, dma, slaved>>

(* Mutant: ego_deinit() leaves the USB interrupt unmasked. *)
EgoEndUnmasked ==
  /\ pc = "ego" /\ requested_mode # "EGO"
  /\ radio' = "off" /\ slaved' = FALSE
  /\ Goto("main")
  /\ UNCHANGED <<tx_enable, mode, settings, usb_irq, dma>>

EgoEnd ==
  /\ pc = "ego" /\ requested_mode # "EGO"
  /\ radio' = "off"
  /\ usb_irq' = FALSE /\ slaved' = FALSE
  /\ Goto("main")
  /\ UNCHANGED <<tx_enable, mode, settings, dma>>

-----------------------------------------------------------------------------
(* cc2400_rangetest.c                                                      *)

(* cc2400_txtest() leaves the transmitter on. *)
TxTest ==
  /\ Dispatched("TX_TEST")
  /\ mode' = "TX_TEST"
  /\ radio' = IF modulation = "80211_FHSS" THEN radio ELSE "tx"
  /\ Goto("main")
  /\ UNCHANGED <<tx_enable, settings, usb_irq, dma, slaved>>

StartRangeTest ==
  /\ Dispatched("RANGE_TEST")
  /\ mode' = "RANGE_TEST"
  /\ radio' = "rx"
  /\ Goto("range")
  /\ UNCHANGED <<tx_enable, settings, usb_irq, dma, slaved>>

(* The repeated packet comes, if a repeater is there; then main() itself   *)
(* asks for MODE_IDLE.                                                     *)
RangeReply ==
  /\ pc = "range"
  /\ radio' = "off"
  /\ requested_mode' = "IDLE"
  /\ Goto("main")
  /\ UNCHANGED <<tx_enable, mode, modulation, target_set, ego_mode, usb_irq, dma, slaved>>

(* cc2400_repeater() never returns. *)
StartRepeater ==
  /\ Dispatched("REPEATER")
  /\ mode' = "REPEATER"
  /\ radio' = "tx"
  /\ Goto("repeater")
  /\ UNCHANGED <<tx_enable, settings, usb_irq, dma, slaved>>

-----------------------------------------------------------------------------
Main == Poll \/ Test \/ Idle \/ Reset
          \/ StartStream \/ StreamLoop \/ StreamPoll \/ StreamBlock \/ StreamStop
          \/ LowEnergy
          \/ StartSlave \/ SlaveMask \/ SlaveTransmit \/ SlaveEnd
          \/ StartSweep \/ SweepUnlock \/ SweepPoll \/ SweepEnd
          \/ StartEgo \/ EgoEnd
          \/ TxTest \/ StartRangeTest \/ StartRepeater

Next == Main \/ UsbIsr \/ Flash \/ Replug \/ RangeReply

Spec == Init /\ [][Next]_vars

(* The processor runs, and a receiver that is on delivers blocks; nothing  *)
(* makes the host, the user or a repeater act.                             *)
FairSpec == Spec /\ WF_vars(Main) /\ WF_vars(StreamBlock)

-----------------------------------------------------------------------------
(* What the modes guarantee to any host.                                   *)

(* The loops that never poll USB: only the interrupt lets a host end them. *)
Interruptible == {"le_radio", "le", "le_irq", "ego"}

(* Whenever nothing is left to do in idle mode, the radio is off, along    *)
(* every way that leads there.                                             *)
IdleIsQuiet == pc = "main" /\ mode = "IDLE" /\ requested_mode = "IDLE" => radio = "off"

(* The handler that handle_usb() calls in a polled mode cannot interrupt   *)
(* itself, except after bt_slave_le(), until a low energy or E-GO function *)
(* has ended; and a loop that does not poll is interrupted.                *)
PolledAlone == (Polling /\ usb_irq => slaved) /\ (pc \in Interruptible => usb_irq)

(* The modes whose blocks DMA_IRQHandler() acknowledges. *)
Served == {"RX_SYMBOLS", "SPECAN", "BT_FOLLOW", "BT_FOLLOW_LE", "BT_PROMISC_LE", "BT_SLAVE_LE"}

(* A block that ends while its receiver waits for it finds a mode that     *)
(* DMA_IRQHandler() acknowledges it in; in any other the interrupt would   *)
(* be taken again for ever.                                                *)
DmaServed == pc \in {"stream", "le"} /\ dma /\ radio = "rx" => mode \in Served \/ slaved

Running(m) ==
  CASE m \in {"SPECAN", "LED_SPECAN"}     -> pc = "sweep" /\ SweepMode(fn) = m
    [] m \in {"RX_SYMBOLS", "BT_FOLLOW"} -> pc = "stream"
    [] m = "BT_SLAVE_LE"                  -> pc \in {"slave", "slave_tx"}
    [] OTHER                              -> mode = m

(* The waits that nothing in the firmware ends: the repeater, a range test *)
(* without an answer, the spectrum analysers' wait for a radio that some   *)
(* other mode left on, and a wait for symbols with the receiver off.       *)
Stuck ==
  \/ pc \in {"repeater", "range"}
  \/ pc = "unlock" /\ radio # "off"
  \/ (pc = "stream" \/ (pc = "le" /\ fn = "generic")) /\ radio # "rx"

(* A request that was accepted takes effect, or a later one replaces it,   *)
(* unless the main context is stuck or the requested mode is one that the  *)
(* variable mode still names.                                              *)
RequestHonoured ==
  \A m \in Modes : []<>(requested_mode # m \/ Running(m) \/ mode = m \/ Stuck)

(* "tell ubertooth to start specan and send packets" *)
SpecanStarts ==
  requested_mode = "SPECAN" ~> (requested_mode # "SPECAN" \/ Running("SPECAN"))

=============================================================================
