------------------------------- MODULE LeWindow -------------------------------
(***************************************************************************)
(* The loop of bt_generic_le(), with which promiscuous mode searches: it   *)
(* waits for a block, drops it unless a carrier was sensed not long ago,   *)
(* and otherwise gives it to data_cb() behind the one before, so that a    *)
(* packet is found which begins in one block and ends in the next.  The    *)
(* DMA and EINT3 handlers interrupt anywhere.                              *)
(*                                                                         *)
(* A block is its number.  Levels are told apart by the threshold only;    *)
(* retuning, hops and the status byte are in other modules.                *)
(***************************************************************************)
EXTENDS Integers, Sequences

CONSTANTS
  CS_HOLD_TIME,
  Pieces,            \* bound: in how many pieces a block is unpacked
  MaxBlocks, MaxTriggers, MaxErrors    \* bounds

WindowAssumption ==
  /\ CS_HOLD_TIME \in Nat \ {0} /\ Pieces \in Nat \ {0}
  /\ MaxBlocks \in Nat /\ MaxTriggers \in Nat /\ MaxErrors \in Nat

VARIABLES
  at,              \* where the loop is, or "off"
  rx_tc, rx_err,
  cs_trigger, cs_no_squelch,
  rssi_at_trigger, \* whether it was set
  loud,            \* whether rssi_max has reached the threshold
  hold,
  unpacked,        \* its halves: the blocks that their pieces came from
  swapped,         \* idle_rxbuf is the buffer that the DMA channel writes
  taken,           \* history: the block that ended the wait
  sensed, tardy,   \* history: the blocks in which a carrier began, and those of them
                   \* whose carrier was taken for one of the block before
  squelched, whole,    \* history: the blocks dropped, and those unpacked in one piece
  blocks, triggers     \* history

receiver == <<rssi_at_trigger, loud, hold, unpacked, swapped>>
past == <<taken, sensed, tardy, squelched, whole>>
vars == <<at, rx_tc, rx_err, cs_trigger, cs_no_squelch, rssi_at_trigger, loud, hold, unpacked,
          swapped, taken, sensed, tardy, squelched, whole, blocks, triggers>>

NoBlock == [i \in 1 .. Pieces |-> 0]
All(b)  == [i \in 1 .. Pieces |-> b]

(* What a piece of idle_rxbuf holds: the last block.  When the buffers are *)
(* swapped it is the next one, as far as it has come, or the one before.   *)
idle_rxbuf == IF swapped THEN {blocks - 1, blocks + 1} ELSE {blocks}

(* Mutant: the block itself is what is held.                               *)
HoldItself == hold' = CS_HOLD_TIME - 1

Hold == hold' = CS_HOLD_TIME

(* The interrupts                                                          *)

bt_stream_dma_handler ==
  /\ at # "off"
  /\ \/ /\ blocks < MaxBlocks /\ blocks' = blocks + 1
        /\ rx_tc' = rx_tc + 1 /\ UNCHANGED rx_err
     \/ /\ rx_err < MaxErrors /\ rx_err' = rx_err + 1 /\ UNCHANGED <<rx_tc, blocks>>
  /\ UNCHANGED <<at, cs_trigger, cs_no_squelch, receiver, past, triggers>>

EINT3_IRQHandler ==
  /\ at # "off"
  /\ triggers < MaxTriggers /\ triggers' = triggers + 1
  /\ cs_trigger' = TRUE
  /\ sensed' = sensed \cup {blocks + 1}
  /\ tardy' = IF rx_tc > 0 /\ at \in {"head", "wait", "test", "clear"}
              THEN tardy \cup {blocks + 1} ELSE tardy
  /\ UNCHANGED <<at, rx_tc, rx_err, cs_no_squelch, receiver, taken, squelched, whole, blocks>>

-----------------------------------------------------------------------------
(* The loop                                                                *)

Body == UNCHANGED <<cs_no_squelch, swapped, sensed, tardy, blocks, triggers>>

(* The mode is left when another one is requested.                         *)
Again ==
  /\ at = "head"
  /\ \/ at' = "wait" /\ rssi_at_trigger' = FALSE /\ loud' = FALSE /\ UNCHANGED cs_trigger
     \/ at' = "off" /\ cs_trigger' = FALSE /\ UNCHANGED <<rssi_at_trigger, loud>>
  /\ UNCHANGED <<rx_tc, rx_err, hold, unpacked, taken, squelched, whole>> /\ Body

(* The level of the first reading after a carrier was sensed counts as no  *)
(* less than the threshold.                                                *)
Sample ==
  /\ at = "wait" /\ rx_tc = 0 /\ rx_err = 0
  /\ LET first == cs_trigger /\ ~rssi_at_trigger
     IN  /\ loud' \in (IF first THEN {TRUE} ELSE {loud, TRUE})
         /\ rssi_at_trigger' = (rssi_at_trigger \/ first)
  /\ UNCHANGED <<at, rx_tc, rx_err, cs_trigger, hold, unpacked, taken, squelched, whole>> /\ Body

Woken ==
  /\ at = "wait" /\ (rx_tc > 0 \/ rx_err > 0)
  /\ at' = IF rx_tc > 0 THEN "test" ELSE "continue"
  /\ taken' = IF rx_tc > 0 THEN blocks ELSE taken
  /\ UNCHANGED <<rx_tc, rx_err, cs_trigger, rssi_at_trigger, loud, hold, unpacked, squelched, whole>>
  /\ Body

Test ==
  /\ at = "test"
  /\ IF cs_trigger \/ cs_no_squelch THEN Hold /\ at' = "clear" ELSE at' = "level" /\ UNCHANGED hold
  /\ UNCHANGED <<rx_tc, rx_err, cs_trigger, rssi_at_trigger, loud, unpacked, taken, squelched, whole>>
  /\ Body

Clear ==
  /\ at = "clear" /\ at' = "level" /\ cs_trigger' = FALSE
  /\ UNCHANGED <<rx_tc, rx_err, rssi_at_trigger, loud, hold, unpacked, taken, squelched, whole>>
  /\ Body

Level ==
  /\ at = "level" /\ at' = "hold"
  /\ IF loud THEN Hold ELSE UNCHANGED hold
  /\ UNCHANGED <<rx_tc, rx_err, cs_trigger, rssi_at_trigger, loud, unpacked, taken, squelched, whole>>
  /\ Body

Squelch ==
  /\ at = "hold" /\ hold = 0 /\ at' = "continue"
  /\ squelched' = squelched \cup {taken}
  /\ UNCHANGED <<rx_tc, rx_err, cs_trigger, rssi_at_trigger, loud, hold, unpacked, taken, whole>>
  /\ Body

(* What was unpacked last moves to the front.                              *)
MoveToFront ==
  /\ at = "hold" /\ hold > 0 /\ at' = "unpack"
  /\ hold' = hold - 1
  /\ unpacked' = [front |-> unpacked.back, back |-> << >>]
  /\ UNCHANGED <<rx_tc, rx_err, cs_trigger, rssi_at_trigger, loud, taken, squelched, whole>>
  /\ Body

Unpack ==
  /\ at = "unpack" /\ Len(unpacked.back) < Pieces
  /\ \E b \in idle_rxbuf : unpacked' = [unpacked EXCEPT !.back = Append(@, b)]
  /\ IF Len(unpacked'.back) < Pieces THEN UNCHANGED <<at, whole>>
     ELSE /\ at' = "call"
          /\ whole' = IF unpacked'.back = All(taken) THEN whole \cup {taken} ELSE whole
  /\ UNCHANGED <<rx_tc, rx_err, cs_trigger, rssi_at_trigger, loud, hold, taken, squelched>>
  /\ Body

(* data_cb() ends the search when it has an address.                       *)
data_cb ==
  /\ at = "call"
  /\ \/ at' = "continue" /\ UNCHANGED cs_trigger
     \/ at' = "off" /\ cs_trigger' = FALSE
  /\ UNCHANGED <<rx_tc, rx_err, rssi_at_trigger, loud, hold, unpacked, taken, squelched, whole>>
  /\ Body

rx_continue ==
  /\ at = "continue" /\ at' = "head"
  /\ rx_tc' = 0 /\ rx_err' = 0
  /\ UNCHANGED <<cs_trigger, rssi_at_trigger, loud, hold, unpacked, taken, squelched, whole>>
  /\ Body

(* bt_le_sync(), which ran before, may have left the buffers swapped, and  *)
(* cs_threshold_calc_and_set() the squelch without effect.                 *)
Init ==
  /\ at = "head" /\ rx_tc = 0 /\ rx_err = 0
  /\ cs_trigger = FALSE /\ cs_no_squelch \in BOOLEAN
  /\ rssi_at_trigger = FALSE /\ loud = FALSE /\ hold = 0
  /\ unpacked = [front |-> NoBlock, back |-> NoBlock]
  /\ swapped \in BOOLEAN
  /\ taken = 0 /\ sensed = {} /\ tardy = {} /\ squelched = {} /\ whole = {}
  /\ blocks = 0 /\ triggers = 0

Next ==
  \/ Again \/ Sample \/ Woken \/ Test \/ Clear \/ Level \/ Squelch \/ MoveToFront \/ Unpack
  \/ data_cb \/ rx_continue
  \/ bt_stream_dma_handler \/ EINT3_IRQHandler

Spec == Init /\ [][Next]_vars

-----------------------------------------------------------------------------
(* A block in which a carrier begins is not dropped by the squelch, not    *)
(* even when EINT3 comes between the end of the block before and the       *)
(* clearing of cs_trigger: then it is the hold that was begun for the      *)
(* block before that keeps it.  Nor is the block after it dropped, except  *)
(* in that case.                                                           *)
CarrierHeard ==
  squelched \cap (sensed \cup {b + 1 : b \in sensed \ tardy}) = {}

(* A block that was unpacked whole is given to data_cb() behind the one    *)
(* before it, if that was unpacked whole too, and no later block behind an *)
(* earlier one's place; whichever blocks were missed in between.           *)
InTurn ==
  at = "call" /\ taken \in whole =>
    /\ taken - 1 \in whole => unpacked.front = All(taken - 1)
    /\ ~swapped => \A i \in 1 .. Pieces : unpacked.front[i] < taken

(* A packet whose carrier was sensed is found although it is in two blocks.*)
WindowRight == CarrierHeard /\ InTurn
-----------------------------------------------------------------------------
(* The inductive invariant.                                                *)
WindowTypes ==
  /\ at \in {"head", "wait", "test", "clear", "level", "hold", "unpack", "call", "continue", "off"}
  /\ rx_tc \in Nat /\ blocks \in Nat /\ taken \in 0 .. blocks /\ hold \in Nat
  /\ squelched \subseteq 0 .. blocks /\ sensed \subseteq 1 .. blocks + 1 /\ whole \subseteq 0 .. taken
  /\ unpacked \in [front : Seq(Int), back : Seq(Int)]
  /\ Len(unpacked.back) <= Pieces /\ (at # "unpack" => Len(unpacked.back) = Pieces)
  /\ at = "unpack" => Len(unpacked.back) < Pieces
  /\ at \in {"unpack", "call"} => Len(unpacked.front) = Pieces

Between == at \in {"head", "wait"}
Due     == Between /\ rx_tc > 0
Deciding == at \in {"level", "hold"}

(* What was taken came after what was taken before, and is not over before *)
(* the count begins anew.                                                  *)
TakenInTurn ==
  /\ at \in {"test", "clear"} => rx_tc > 0
  /\ Due => taken < blocks
  /\ at = "clear" => hold = CS_HOLD_TIME

(* The block that is decided upon, or was, is held, or the next one is.    *)
Held(n) == hold >= IF Deciding THEN n + 1 ELSE n

(* A carrier of the block that is being received.                          *)
FreshKept ==
  at # "off" /\ blocks + 1 \in sensed =>
    /\ Due \/ at = "test" => cs_trigger /\ blocks + 1 \in tardy
    /\ at = "clear" => blocks + 1 \in tardy
    /\ cs_trigger \/ at = "clear" \/ (blocks + 1 \in tardy /\ Held(1))

(* One of the last block, which may be about to be taken or may be passed  *)
(* over.                                                                   *)
LastKept ==
  at # "off" /\ blocks \in sensed =>
    /\ Due => cs_trigger \/ (blocks \in tardy /\ hold >= 1)
    /\ at = "test" => cs_trigger \/ blocks \in tardy
    /\ cs_trigger \/ at = "clear" \/ blocks \in tardy \/ Held(1)

(* The block before it may be kept for its carrier too.                    *)
NextKept == Due /\ blocks - 1 \in sensed \ tardy => cs_trigger \/ hold >= 1

Covers(b) == b \in sensed \/ b - 1 \in sensed \ tardy

TakenKept ==
  /\ at = "test" /\ Covers(taken) => cs_trigger \/ hold >= 1
  /\ Deciding /\ Covers(taken) => hold >= 1

KeptInv == FreshKept /\ LastKept /\ NextKept /\ TakenKept /\ CarrierHeard

(* What was unpacked last is the block that was taken last, when it came   *)
(* in one piece, and older than what is taken next.                        *)
UnpackedInv ==
  /\ at \in {"call", "continue", "head", "wait"} /\ taken \in whole => unpacked.back = All(taken)
  /\ at \in {"test", "clear", "level", "hold"} =>
       taken \notin whole /\ (taken - 1 \in whole => unpacked.back = All(taken - 1))
  /\ at = "unpack" => taken \notin whole
  /\ at \in {"unpack", "call"} /\ taken - 1 \in whole => unpacked.front = All(taken - 1)

OlderInv ==
  ~swapped =>
    /\ at \in {"unpack", "call"} => \A i \in 1 .. Pieces : unpacked.front[i] < taken
    /\ at # "off" => \A i \in 1 .. Len(unpacked.back) :
         unpacked.back[i] <= IF at \in {"test", "clear", "level", "hold"} THEN taken - 1
                             ELSE IF Due THEN blocks - 1 ELSE blocks

WindowInv == WindowTypes /\ TakenInTurn /\ KeptInv /\ UnpackedInv /\ OlderInv
==============================================================================
