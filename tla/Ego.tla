--------------------------------- MODULE Ego ---------------------------------
(***************************************************************************)
(* The modes for the E-GO skateboard: ego_main() and the handlers of its   *)
(* state machine in the tables for following, for receiving on one channel *)
(* and for jamming, against a skateboard that sends a packet every 11 ms,  *)
(* each on the next of four channels, of which any may be lost.            *)
(*                                                                         *)
(* The unit of time is 1 ms.  The loop of ego_main() is quick: the clock   *)
(* moves when no handler has anything to do, and while the jammer, which   *)
(* without a packet hops as fast as it can, waits for the synthesizer.  A  *)
(* packet is received from the unit in which it begins to the next.        *)
(***************************************************************************)
EXTENDS Integers

CONSTANTS
  Wrap,         \* CLK100NS begins again here
  Period,       \* 11, of the skateboard
  MaxTime,      \* bound: when the clock stops
  Modes,        \* of those below, the ones the host asks for
  TX_ENABLE     \* a build that may transmit

channels == [i \in 0 .. 3 |-> <<2408, 2418, 2423, 2469>>[i + 1]]

EgoAssumption ==
  /\ Wrap \in Nat /\ Period \in Nat /\ Wrap > 2 * Period /\ TX_ENABLE \in BOOLEAN
  /\ MaxTime \in Nat
  /\ Modes \subseteq {"EGO_FOLLOW", "EGO_CONTINUOUS_RX", "EGO_JAM", "other"}

VARIABLES
  requested_mode, mode,   \* "MODE_EGO" or "MODE_IDLE"
  ego_mode, running,      \* ego_main() runs with ego_mode
  state, channel_index, channel, sleep_start, sleep_duration, timer_active,
  packet_observed, anchor,
  rx, tx, paen,           \* the CC2400 receives, transmits; the amplifier is on
  busy,                   \* in do_rx()
  time,                   \* of which CLK100NS is the rest
  board,                  \* the index of the skateboard's channel at time 0
  onair,                  \* a packet begins in this unit
  locked                  \* history: a packet was received since ego_main() began

modes == <<requested_mode, mode, ego_mode, running>>
sleep == <<sleep_start, sleep_duration>>
radio == <<rx, tx, paen>>
world == <<time, board, onair>>
now == time % Wrap

(* The channel of the packet that begins in this unit, or of the last.     *)
Sending == channels[(board + time \div Period) % 4]
vars == <<requested_mode, mode, ego_mode, running, state, channel_index, channel, sleep_start,
          sleep_duration, timer_active, packet_observed, anchor, rx, tx, paen, busy, time, board,
          onair, locked>>

-----------------------------------------------------------------------------
Handling(s) == running /\ ~busy /\ requested_mode = "MODE_EGO" /\ state = s

sleep_ms(duration) == sleep_start' = now /\ sleep_duration' = duration
sleep_ms_anchor(duration) == sleep_start' = anchor /\ sleep_duration' = duration

(* Mutant: the clock does not wrap.                                        *)
ElapsedUnwrapped(t) == t - sleep_start

Elapsed(t) == IF t < sleep_start THEN t + Wrap - sleep_start ELSE t - sleep_start

sleep_elapsed == Elapsed(now) >= sleep_duration

sync_received == onair /\ rx /\ channel = Sending

RfOff == rx' = FALSE /\ tx' = FALSE /\ UNCHANGED paen

NextChannel ==
  /\ channel_index' = (channel_index + 1) % 4
  /\ channel' = channels[channel_index']

(* init_state() overrides the channel of the host, which                   *)
(* continuous_init_state() keeps.                                          *)
init_state ==
  /\ Handling("INIT")
  /\ state' = "START_RX"
  /\ IF ego_mode = "EGO_CONTINUOUS_RX" THEN UNCHANGED <<channel_index, channel>>
     ELSE channel_index' = 0 /\ channel' = channels[0]
  /\ UNCHANGED <<modes, sleep, timer_active, packet_observed, anchor, radio, busy, world, locked>>

start_rf_state ==
  /\ Handling("START_RX")
  /\ rx' = TRUE /\ state' = "CAP"
  /\ UNCHANGED <<modes, channel_index, channel, sleep, timer_active, packet_observed, anchor, tx,
                 paen, busy, world, locked>>

(* A packet is received, which ends with the unit.                         *)
do_rx ==
  /\ Handling("CAP") /\ ego_mode # "EGO_JAM"
  /\ sync_received
  /\ busy' = TRUE /\ onair' = FALSE /\ locked' = TRUE
  /\ UNCHANGED <<modes, state, channel_index, channel, sleep, timer_active, packet_observed, anchor,
                 radio, time, board>>

(* continuous_cap_state() starts the receiver again, and stays.            *)
Received ==
  /\ running /\ busy
  /\ busy' = FALSE
  /\ time' = time + 1
  /\ IF ego_mode = "EGO_CONTINUOUS_RX" THEN UNCHANGED <<state, sleep, timer_active, radio>>
     ELSE /\ sleep_start' = time' % Wrap /\ sleep_duration' = 6
          /\ state' = "SLEEP" /\ RfOff /\ timer_active' = TRUE
  /\ UNCHANGED <<modes, channel_index, channel, packet_observed, anchor, board, onair,
                 locked>>

(* cap_state(): it looks at the clock first; a packet that has begun is    *)
(* received all the same.                                                  *)
cap_timeout ==
  /\ Handling("CAP") /\ ego_mode = "EGO_FOLLOW"
  /\ sleep_elapsed /\ ~sync_received
  /\ sleep_ms(4) /\ state' = "SLEEP" /\ RfOff /\ timer_active' = TRUE
  /\ UNCHANGED <<modes, channel_index, channel, packet_observed, anchor, busy, world, locked>>

(* Mutant: the time to sleep on a new channel is that of a lost packet.    *)
WindowShort == 4

Window == 7

sleep_state ==
  /\ Handling("SLEEP") /\ ego_mode = "EGO_FOLLOW"
  /\ sleep_elapsed
  /\ NextChannel /\ sleep_ms(Window) /\ timer_active' = TRUE /\ state' = "START_RX"
  /\ UNCHANGED <<modes, packet_observed, anchor, radio, busy, world, locked>>

(* jam_cap_state(): after the first packet the slot ends after 11 ms, even *)
(* in the pass that sees a packet.  The anchor is that of the last packet  *)
(* that was seen.                                                          *)
jam_cap_state ==
  /\ Handling("CAP") /\ ego_mode = "EGO_JAM"
  /\ LET timeout == timer_active /\ sleep_elapsed
     IN  /\ sync_received \/ timeout
         /\ anchor' = IF sync_received THEN now ELSE anchor
         /\ packet_observed' = ~timeout
         /\ IF timeout THEN sleep_ms(Period) ELSE UNCHANGED sleep
         /\ locked' = (locked \/ sync_received)
  /\ onair' = FALSE
  /\ state' = "START_JAMMING" /\ RfOff
  /\ UNCHANGED <<modes, channel_index, channel, timer_active, busy, time, board>>

start_jamming_state ==
  /\ Handling("START_JAMMING")
  /\ tx' = TRUE /\ paen' = TRUE
  /\ state' = "JAMMING" /\ sleep_ms_anchor(2)
  /\ UNCHANGED <<modes, channel_index, channel, timer_active, packet_observed, anchor, rx, busy,
                 world, locked>>

jamming_state ==
  /\ Handling("JAMMING")
  /\ sleep_elapsed
  /\ rx' = FALSE /\ tx' = FALSE /\ paen' = FALSE
  /\ NextChannel /\ state' = "SLEEP" /\ sleep_ms_anchor(6)
  /\ UNCHANGED <<modes, timer_active, packet_observed, anchor, busy, world, locked>>

jam_sleep_state ==
  /\ Handling("SLEEP") /\ ego_mode = "EGO_JAM"
  /\ sleep_elapsed
  /\ state' = "START_RX" /\ timer_active' = TRUE /\ sleep_ms_anchor(11)
  /\ UNCHANGED <<modes, channel_index, channel, packet_observed, anchor, radio, busy, world, locked>>

Handler ==
  \/ init_state \/ start_rf_state \/ do_rx \/ cap_timeout \/ sleep_state
  \/ jam_cap_state \/ start_jamming_state \/ jamming_state \/ jam_sleep_state

-----------------------------------------------------------------------------
(* ego_main(), and main() around it                                        *)

(* The handlers of a mode; jamming is for builds that may transmit.        *)
Known(m) == m \in {"EGO_FOLLOW", "EGO_CONTINUOUS_RX"} \/ (m = "EGO_JAM" /\ TX_ENABLE)

(* The local state of ego_main(), which the model clears as it ends.       *)
Locals ==
  /\ state' = "INIT" /\ channel_index' = 0 /\ timer_active' = FALSE
  /\ sleep_start' = 0 /\ sleep_duration' = 0 /\ packet_observed' = FALSE /\ anchor' = 0

ego_main ==
  /\ ~running /\ requested_mode = "MODE_EGO" /\ mode # "MODE_EGO"
  /\ mode' = "MODE_EGO"
  /\ IF Known(ego_mode)
     THEN running' = TRUE /\ UNCHANGED requested_mode
     ELSE requested_mode' = "MODE_IDLE" /\ UNCHANGED running
  /\ Locals
  /\ locked' = FALSE
  /\ UNCHANGED <<ego_mode, channel, radio, busy, world>>

(* Mutant: the radio is left as it is.                                     *)
RadioKept == UNCHANGED radio

(* ego_deinit() leaves the amplifier as it is.                             *)
RadioStopped == RfOff

ego_deinit ==
  /\ running /\ ~busy /\ requested_mode # "MODE_EGO"
  /\ running' = FALSE /\ RadioStopped
  /\ Locals
  /\ UNCHANGED <<requested_mode, mode, ego_mode, channel, busy, world, locked>>

cc2400_idle ==
  /\ ~running /\ mode = "MODE_EGO" /\ requested_mode = "MODE_IDLE"
  /\ mode' = "MODE_IDLE" /\ rx' = FALSE /\ tx' = FALSE /\ paen' = FALSE
  /\ UNCHANGED <<requested_mode, ego_mode, running, state, channel_index, channel, sleep,
                 timer_active, packet_observed, anchor, busy, world, locked>>

(* UBERTOOTH_EGO and UBERTOOTH_STOP, in the USB interrupt.  Bound: the     *)
(* first comes when no mode runs; one that runs would keep its handlers.   *)
EGO ==
  /\ requested_mode = "MODE_IDLE" /\ mode = "MODE_IDLE"
  /\ TX_ENABLE \/ ego_mode # "EGO_JAM"
  /\ requested_mode' = "MODE_EGO" /\ ego_mode' \in Modes
  /\ UNCHANGED <<mode, running, state, channel_index, channel, sleep, timer_active,
                 packet_observed, anchor, radio, busy, world, locked>>

STOP ==
  /\ requested_mode = "MODE_EGO"
  /\ requested_mode' = "MODE_IDLE"
  /\ UNCHANGED <<mode, ego_mode, running, state, channel_index, channel, sleep, timer_active,
                 packet_observed, anchor, radio, busy, world, locked>>

-----------------------------------------------------------------------------
(* The handlers that may find nothing to do: those of CAP, which the       *)
(* receiver on one channel never leaves, of SLEEP and of JAMMING.          *)
Idle ==
  \/ /\ state = "CAP" /\ ~sync_received
     /\ ego_mode = "EGO_FOLLOW" => ~sleep_elapsed
     /\ ego_mode = "EGO_JAM" => ~(timer_active /\ sleep_elapsed)
  \/ state \in {"SLEEP", "JAMMING"} /\ ~sleep_elapsed

(* A packet that is not taken, in the unit in which it begins, is lost.    *)
Tick ==
  /\ running /\ ~busy /\ requested_mode = "MODE_EGO"
  /\ Idle \/ (ego_mode = "EGO_JAM" /\ state = "START_RX")
  /\ time < MaxTime /\ time' = time + 1
  /\ onair' \in (IF time' % Period = 0 THEN BOOLEAN ELSE {FALSE})
  /\ UNCHANGED <<modes, state, channel_index, channel, sleep, timer_active, packet_observed, anchor,
                 radio, busy, board, locked>>

Init ==
  /\ requested_mode = "MODE_IDLE" /\ mode = "MODE_IDLE" /\ ego_mode = "EGO_FOLLOW" /\ running = FALSE
  /\ state = "INIT" /\ channel_index = 0 /\ channel = 2418
  /\ sleep_start = 0 /\ sleep_duration = 0 /\ timer_active = FALSE
  /\ packet_observed = FALSE /\ anchor = 0
  /\ rx = FALSE /\ tx = FALSE /\ paen = FALSE /\ busy = FALSE
  /\ time = 3
  /\ board \in 0 .. 3
  /\ onair = FALSE /\ locked = FALSE

Next ==
  \/ Handler \/ Received \/ ego_main \/ ego_deinit \/ cc2400_idle \/ EGO \/ STOP \/ Tick

Spec == Init /\ [][Next]_vars

-----------------------------------------------------------------------------
(* Once it has received a packet, the follower listens on the right        *)
(* channel whenever a packet begins, whichever packets are lost: after a   *)
(* packet cap_state() and sleep_state() listen from 6 to 13 ms, after a    *)
(* timeout from 4 to 11 ms later, and so keep step with 11 ms.             *)
KeepsUp ==
  running /\ ego_mode = "EGO_FOLLOW" /\ locked /\ onair /\ requested_mode = "MODE_EGO"
    => rx /\ state = "CAP" /\ channel = Sending

(* The transmitter is on only while the jammer runs, with the receiver off *)
(* and the amplifier on, in a slot of 2 ms after a packet; and a mode that *)
(* has been left transmits nothing (jamming_state(), ego_deinit()).        *)
TransmitsInSlot ==
  tx => /\ running /\ state = "JAMMING" /\ ~rx /\ paen
        /\ packet_observed => (now - anchor) % Wrap <= 2

(* Both: what the handlers of ego_main() keep of the skateboard's time.    *)
EgoInStep == KeepsUp /\ TransmitsInSlot
==============================================================================
