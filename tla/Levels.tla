-------------------------------- MODULE Levels --------------------------------
(***************************************************************************)
(* What bt_stream_rx() measures while it waits for a block: the levels of  *)
(* the radio, their average on each channel, the squelch threshold that is *)
(* computed from it, and the flags that a packet tells of both.  The DMA   *)
(* and EINT3 handlers interrupt anywhere; requests are served, and hops    *)
(* made, inside the wait.                                                  *)
(*                                                                         *)
(* The integers have their widths and their scale of 256.  The lowest and  *)
(* the highest level and RSSI_TRIGGER, which packets tell too, are left    *)
(* out.                                                                    *)
(***************************************************************************)
EXTENDS Integers

CONSTANTS
  Band,              \* channels, from 2402 on
  Fixed,             \* bound: channels that the host asks for
  RSSI_IIR_ALPHA,    \* 3, of 256
  Readings,          \* bound: levels that the radio shows
  Thresholds,        \* that the host requests
  CountModulus,      \* 2^8, of rssi_count
  MaxSamples,        \* bound: of the levels read for a block
  MaxBlocks,         \* bound
  MaxRequests,       \* bound: requests and hops
  MaxTriggers        \* bound

LevelsAssumption ==
  /\ 2402 \in Band /\ Band \subseteq 2402 .. 2480 /\ Fixed \subseteq 2268 .. 2794
  /\ RSSI_IIR_ALPHA \in 1 .. 255
  /\ Readings \subseteq -128 .. 127 /\ Thresholds \subseteq -128 .. 127
  /\ CountModulus \in Nat \ {0} /\ MaxSamples \in Nat /\ MaxBlocks \in Nat /\ MaxRequests \in Nat

VARIABLES
  channel, hop_mode,
  at,                   \* where the loop is
  rx_tc, idle_buf_channel,
  rssi,                 \* rssi_count, rssi_sum, rssi_at_trigger
  rssi_iir,
  cs_trigger, cs_threshold_req, cs_threshold_cur, cs_no_squelch,
  status,
  packet,               \* the last one that was queued
  seen,                 \* history: the range of the levels read for each average
  stray,                \* history: averages that got what was read for another
  read, from,           \* history: how many levels were read for this block, for which slots
  overrun,              \* history: whether there ever were more than are counted
  owed,                 \* history: a carrier was sensed that no packet told yet
  blocks, requests, triggers    \* history

squelch == <<cs_threshold_req, cs_threshold_cur, cs_no_squelch>>
tuning  == <<channel, hop_mode>>
events  == <<blocks, requests, triggers>>
history == <<seen, stray, read, from, overrun>>
vars == <<channel, hop_mode, at, rx_tc, idle_buf_channel, rssi, rssi_iir, cs_trigger,
          cs_threshold_req, cs_threshold_cur, cs_no_squelch, status, packet, seen, stray, read,
          from, overrun, owed, blocks, requests, triggers>>

INT8_MIN == -128

(* C's conversions and its division.                                       *)
Signed(v, width) == ((v + width \div 2) % width) - width \div 2
Int8(v)  == Signed(v, 256)
Int16(v) == Signed(v, 65536)
Quotient(a, b) == IF a < 0 THEN -((-a) \div b) ELSE a \div b

Larger(a, b)  == IF a > b THEN a ELSE b
Smaller(a, b) == IF a < b THEN a ELSE b

-----------------------------------------------------------------------------
(* The statistics of a block                                               *)

(* Mutant: the sum goes on.                                                *)
rssi_resetKeepsSum(r) == [r EXCEPT !.count = 0, !.at_trigger = INT8_MIN]

rssi_reset(r) == [r EXCEPT !.count = 0, !.sum = 0, !.at_trigger = INT8_MIN]

rssi_add(r, v) ==
  [r EXCEPT !.sum = @ + v * 256, !.count = (@ + 1) % CountModulus]

(* The slot of an average: the channel's, or the first if it is fixed.     *)
Slot(c) == IF hop_mode = "NONE" THEN 2402 ELSE c

Filtered(old) ==
  LET avg == IF rssi.count # 0 THEN Quotient(rssi.sum + 128, rssi.count) ELSE 0
  IN  Int16(Quotient(old * (256 - RSSI_IIR_ALPHA) + avg * RSSI_IIR_ALPHA + 128, 256))

rssi_iir_update == rssi_iir' = [rssi_iir EXCEPT ![Slot(channel)] = Filtered(@)]

(* The average as a level.                                                 *)
Average(c) == Int8(Quotient(rssi_iir[c] + 128, 256))

-----------------------------------------------------------------------------
(* The squelch, for the tuning that is being set.                          *)

cs_threshold_calc_and_set(req) ==
  LET level == IF hop_mode' # "NONE" /\ req > 0
               THEN Int8(Int8(Quotient(rssi_iir[channel'] + 128, 256)) - 54 + req) ELSE req
      set == Smaller(Larger(level, -120), -20)
  IN  /\ cs_threshold_req' = req
      /\ cs_threshold_cur' = set
      /\ cs_no_squelch' = (set <= -120)

SET_CHANNEL ==
  /\ \/ channel' \in Fixed /\ hop_mode' = "NONE"
     \/ channel' = 2402 /\ hop_mode' = "SWEEP"
  /\ cs_threshold_calc_and_set(cs_threshold_req)

SET_SQUELCH ==
  /\ UNCHANGED tuning
  /\ \E level \in Thresholds : cs_threshold_calc_and_set(level)

(* Requests, of which one at most is served here.                          *)
handle_usb ==
  \/ UNCHANGED <<tuning, squelch, requests>>
  \/ /\ requests < MaxRequests /\ requests' = requests + 1
     /\ SET_CHANNEL \/ SET_SQUELCH

(* A sweep goes to another channel.                                        *)
hop ==
  /\ hop_mode = "SWEEP" /\ channel' \in Band \ {channel} /\ UNCHANGED hop_mode
  /\ requests < MaxRequests /\ requests' = requests + 1
  /\ cs_threshold_calc_and_set(cs_threshold_req)

-----------------------------------------------------------------------------
(* The loop of bt_stream_rx()                                              *)

(* An iteration of the wait.  The first level after a carrier was sensed   *)
(* counts as no less than the threshold.                                   *)
Sample ==
  /\ at = "wait" /\ rx_tc = 0 /\ read < MaxSamples
  /\ \E v \in Readings :
       LET first == cs_trigger /\ rssi.at_trigger = INT8_MIN
           level == IF first THEN Larger(v, cs_threshold_cur + 54) ELSE v
           added == rssi_add(rssi, level)
       IN  /\ rssi' = IF first THEN [added EXCEPT !.at_trigger = level] ELSE added
           /\ seen' = [seen EXCEPT ![Slot(channel)].low = Smaller(@, level),
                                   ![Slot(channel)].high = Larger(@, level)]
           /\ read' = read + 1 /\ from' = from \cup {Slot(channel)}
  /\ overrun' = (overrun \/ read' >= CountModulus)
  /\ at' = "serve"
  /\ UNCHANGED <<tuning, rx_tc, idle_buf_channel, rssi_iir, cs_trigger, squelch, status, packet,
                 stray, owed, events>>

Serve ==
  /\ at = "serve" /\ (handle_usb \/ hop)
  /\ at' = IF requests' = requests THEN "wait" ELSE "serve"
  /\ UNCHANGED <<rx_tc, idle_buf_channel, rssi, rssi_iir, cs_trigger, status, packet, history,
                 owed, blocks, triggers>>

Woken ==
  /\ at = "wait" /\ rx_tc > 0 /\ at' = "squelch"
  /\ rssi_iir_update
  /\ stray' = IF from \subseteq {Slot(channel)} THEN stray ELSE stray \cup {Slot(channel)}
  /\ UNCHANGED <<tuning, rx_tc, idle_buf_channel, rssi, cs_trigger, squelch, status, packet, seen,
                 read, from, overrun, owed, events>>

(* Mutant: the trigger is cleared whether or not it was seen.              *)
TriggeredAlways ==
  /\ at = "squelch" /\ at' = "clear"
  /\ status' = status \cup (IF cs_trigger \/ cs_no_squelch THEN {"CS_TRIGGER"} ELSE {})

Triggered ==
  /\ at = "squelch" /\ at' = IF cs_trigger \/ cs_no_squelch THEN "clear" ELSE "enqueue"
  /\ status' = status \cup (IF cs_trigger \/ cs_no_squelch THEN {"CS_TRIGGER"} ELSE {})

Squelch ==
  /\ \/ Triggered /\ UNCHANGED cs_trigger
     \/ at = "clear" /\ at' = "enqueue" /\ cs_trigger' = FALSE /\ UNCHANGED status
  /\ UNCHANGED <<tuning, rx_tc, idle_buf_channel, rssi, rssi_iir, squelch, packet, history, owed,
                 events>>

(* enqueue() and the way back to the wait.  The packet tells the average   *)
(* of the channel that the block came from, of which there is none outside *)
(* the band in a sweep.                                                    *)
enqueue ==
  LET slot == Slot(idle_buf_channel)
  IN  /\ at = "enqueue" /\ at' = "wait"
      /\ \/ UNCHANGED <<status, packet, owed>>
         \/ /\ packet' = IF slot \in Band
                         THEN [slot |-> slot, rssi_avg |-> Average(slot), known |-> TRUE]
                         ELSE [packet EXCEPT !.known = FALSE]
            /\ status' = {} /\ owed' = (owed /\ "CS_TRIGGER" \notin status)
      /\ handle_usb
      /\ rx_tc' = 0 /\ rssi' = rssi_reset(rssi) /\ read' = 0 /\ from' = {}
      /\ UNCHANGED <<idle_buf_channel, rssi_iir, cs_trigger, seen, stray, overrun, blocks,
                     triggers>>

(* The interrupts                                                          *)
bt_stream_dma_handler ==
  /\ blocks < MaxBlocks /\ blocks' = blocks + 1
  /\ rx_tc' = rx_tc + 1
  /\ idle_buf_channel' = channel
  /\ UNCHANGED <<tuning, at, rssi, rssi_iir, cs_trigger, squelch, status, packet, history, owed,
                 requests, triggers>>

EINT3_IRQHandler ==
  /\ triggers < MaxTriggers /\ triggers' = triggers + 1
  /\ owed' = TRUE
  /\ cs_trigger' = TRUE
  /\ UNCHANGED <<tuning, at, rx_tc, idle_buf_channel, rssi, rssi_iir, squelch, status, packet,
                 history, blocks, requests>>

Init ==
  /\ channel \in Fixed \cup {2402} /\ hop_mode \in {"NONE", "SWEEP"}
  /\ hop_mode = "SWEEP" => channel = 2402
  /\ at = "wait" /\ rx_tc = 0 /\ idle_buf_channel = channel
  /\ rssi = [count |-> 0, sum |-> 0, at_trigger |-> INT8_MIN] /\ rssi_iir = [c \in Band |-> 0]
  /\ cs_trigger = FALSE
  /\ cs_threshold_req = -120 /\ cs_threshold_cur = -120 /\ cs_no_squelch = TRUE
  /\ status = {}
  /\ packet = [slot |-> 2402, rssi_avg |-> 0, known |-> FALSE]
  /\ seen = [c \in Band |-> [low |-> 0, high |-> 0]] /\ stray = {} /\ read = 0 /\ from = {}
  /\ overrun = FALSE /\ owed = FALSE
  /\ blocks = 0 /\ requests = 0 /\ triggers = 0

Main == Sample \/ Serve \/ Woken \/ Squelch \/ enqueue

Next == Main \/ bt_stream_dma_handler \/ EINT3_IRQHandler

Spec == Init /\ [][Next]_vars

-----------------------------------------------------------------------------
(* The average that a packet tells lies between the levels that were read  *)
(* on its channel, the zero it began with among them: the scaled, rounded  *)
(* filter of rssi_iir_update() leaves their range by no more than one.  It *)
(* does when more levels are read for a block than rssi_count counts, as   *)
(* while a hopping receiver waits for a carrier, and after a hop in the    *)
(* middle of a block, whose levels all go to the new channel.              *)
AverageTrue ==
  packet.known /\ ~overrun /\ packet.slot \notin stray =>
    packet.rssi_avg \in seen[packet.slot].low .. seen[packet.slot].high + 1

(* No carrier is sensed that no packet tells of, whether it comes between  *)
(* the test and the clearing of cs_trigger or the queue is full.           *)
TriggerTold == owed => cs_trigger \/ "CS_TRIGGER" \in status

(* What the packets tell of levels is so.                                  *)
LevelsRight == AverageTrue /\ TriggerTold
==============================================================================
