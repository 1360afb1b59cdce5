------------------------------ MODULE MCRadio ------------------------------
(* The radio's modes, one of which runs: hopping, promiscuous low energy,  *)
(* its search, the skateboard's, or the measurements of the basic rate     *)
(* receiver.  What they have in common of the program's state is common    *)
(* here; what the mode that runs has no use for stays FALSE.  The          *)
(* skateboard's is the module extended, so that what this run checks of it *)
(* is what EgoProofs proves.                                               *)
EXTENDS Ego

VARIABLES
  who,
  do_hop, hop_mode,
  clkn, clkn_offset, last_hop, tuned, hopper, afh_map, afh_enabled, used_channels, seeking,
  visited, again, late, asked,
  pc, target_set, access_address, active_aa, packet_cb, crc_init, crc_verify, hop_direct_channel,
  smallest_hop_interval, consec_intervals, prev_clk, first_ts, conn_interval, channel_increment,
  channel_idx, interval_timer, connected, clk, air, sightings, inarow, misled, missed, noise,
  attempts, followed,
  at, rx_tc, idle_buf_channel, rssi, rssi_iir, cs_trigger, cs_threshold_req, cs_threshold_cur,
  cs_no_squelch, status, packet, seen, stray, read, from, overrun, owed, blocks, requests, triggers,
  rx_err, rssi_at_trigger, loud, hold, unpacked, swapped, taken, sensed, tardy, squelched, whole

H == INSTANCE Hopping WITH
       Addresses <- {1623488371}, Maps <- {0 .. 39, 0 .. 78}, Fixed <- {10}, Offsets <- {100},
       Beyond <- {0, 255}, MaxClock <- 300, MaxSweepClock <- 10200, MaxLate <- 1,
       MaxRequests <- 4, LastRequest <- 1
P == INSTANCE LePromisc WITH
       DataChannels <- 5, Addresses <- {"connection", "n1", "n2"}, ListSize <- 2,
       Intervals <- {2, 3}, Increments <- {2, 4}, CrcInits <- {1193046}, Starts <- {7, 140},
       Wrap <- 200, Rollover <- 197, Modulus <- 262, MaxMissed <- 1, MaxNoise <- 2,
       MaxConnections <- 1, MaxFollowed <- 7, MaxAttempts <- 2
L == INSTANCE Levels WITH
       Band <- {2402, 2434}, Fixed <- {2300}, RSSI_IIR_ALPHA <- 128, Readings <- {-100, 20},
       Thresholds <- {30}, CountModulus <- 2, MaxSamples <- 3, MaxBlocks <- 2, MaxRequests <- 1,
       MaxTriggers <- 1
W == INSTANCE LeWindow WITH
       CS_HOLD_TIME <- 2, Pieces <- 2, MaxBlocks <- 3, MaxTriggers <- 2, MaxErrors <- 1

ASSUME H!HoppingAssumption /\ P!PromiscAssumption /\ EgoAssumption
       /\ L!LevelsAssumption /\ W!WindowAssumption

hopping == <<clkn, clkn_offset, last_hop, tuned, hopper, afh_map, afh_enabled, used_channels,
             seeking, visited, again, late, asked>>
promisc == <<pc, target_set, access_address, active_aa, packet_cb, crc_init, crc_verify,
             hop_direct_channel, smallest_hop_interval, consec_intervals, prev_clk, first_ts,
             conn_interval, channel_increment, channel_idx, interval_timer, connected, clk, air,
             sightings, inarow, misled, missed, noise, attempts, followed>>
ego == <<requested_mode, mode, ego_mode, running, state, channel_index, sleep_start,
         sleep_duration, timer_active, packet_observed, anchor, rx, tx, paen, busy, time, board,
         locked>>
both == <<at, rx_tc, cs_trigger, cs_no_squelch, blocks, triggers>>
levels == <<idle_buf_channel, rssi, rssi_iir, cs_threshold_req, cs_threshold_cur, status, packet,
            seen, stray, read, from, overrun, owed, requests>>
window == <<rx_err, rssi_at_trigger, loud, hold, unpacked, swapped, taken, sensed, tardy,
            squelched, whole>>
allvars == <<who, channel, do_hop, hop_mode, onair, hopping, promisc, ego, both, levels, window>>

NoHopping ==
  /\ clkn = FALSE /\ clkn_offset = FALSE /\ last_hop = FALSE /\ tuned = FALSE /\ hopper = FALSE
  /\ afh_map = FALSE /\ afh_enabled = FALSE /\ used_channels = FALSE /\ seeking = FALSE
  /\ visited = FALSE /\ again = FALSE /\ late = FALSE /\ asked = FALSE

NoPromisc ==
  /\ pc = FALSE /\ target_set = FALSE /\ access_address = FALSE /\ active_aa = FALSE
  /\ packet_cb = FALSE /\ crc_init = FALSE /\ crc_verify = FALSE /\ hop_direct_channel = FALSE
  /\ smallest_hop_interval = FALSE /\ consec_intervals = FALSE /\ prev_clk = FALSE
  /\ first_ts = FALSE /\ conn_interval = FALSE /\ channel_increment = FALSE
  /\ channel_idx = FALSE /\ interval_timer = FALSE /\ connected = FALSE /\ clk = FALSE
  /\ air = FALSE /\ sightings = FALSE /\ inarow = FALSE /\ misled = FALSE /\ missed = FALSE
  /\ noise = FALSE /\ attempts = FALSE /\ followed = FALSE

NoEgo ==
  /\ requested_mode = FALSE /\ mode = FALSE /\ ego_mode = FALSE /\ running = FALSE
  /\ state = FALSE /\ channel_index = FALSE /\ sleep_start = FALSE /\ sleep_duration = FALSE
  /\ timer_active = FALSE /\ packet_observed = FALSE /\ anchor = FALSE /\ rx = FALSE
  /\ tx = FALSE /\ paen = FALSE /\ busy = FALSE /\ time = FALSE /\ board = FALSE
  /\ locked = FALSE

NoBoth ==
  /\ at = FALSE /\ rx_tc = FALSE /\ cs_trigger = FALSE /\ cs_no_squelch = FALSE
  /\ blocks = FALSE /\ triggers = FALSE

NoLevels ==
  /\ idle_buf_channel = FALSE /\ rssi = FALSE /\ rssi_iir = FALSE
  /\ cs_threshold_req = FALSE /\ cs_threshold_cur = FALSE /\ status = FALSE /\ packet = FALSE
  /\ seen = FALSE /\ stray = FALSE /\ read = FALSE /\ from = FALSE /\ overrun = FALSE
  /\ owed = FALSE /\ requests = FALSE

NoWindow ==
  /\ rx_err = FALSE /\ rssi_at_trigger = FALSE /\ loud = FALSE /\ hold = FALSE
  /\ unpacked = FALSE /\ swapped = FALSE /\ taken = FALSE /\ sensed = FALSE /\ tardy = FALSE
  /\ squelched = FALSE /\ whole = FALSE

RadioInit ==
  \/ /\ who = "hopping" /\ H!Init /\ NoPromisc /\ NoEgo /\ NoBoth /\ NoLevels /\ NoWindow
     /\ onair = FALSE
  \/ who = "promisc" /\ P!Init /\ NoHopping /\ NoEgo /\ NoBoth /\ NoLevels /\ NoWindow
  \/ /\ who = "ego" /\ Init /\ NoHopping /\ NoPromisc /\ NoBoth /\ NoLevels /\ NoWindow
     /\ do_hop = FALSE /\ hop_mode = FALSE
  \/ /\ who = "levels" /\ L!Init /\ NoHopping /\ NoPromisc /\ NoEgo /\ NoWindow
     /\ do_hop = FALSE /\ onair = FALSE
  \/ /\ who = "window" /\ W!Init /\ NoHopping /\ NoPromisc /\ NoEgo /\ NoLevels
     /\ channel = FALSE /\ do_hop = FALSE /\ hop_mode = FALSE /\ onair = FALSE

Hops ==
  who = "hopping" /\ H!hop /\ UNCHANGED <<who, onair, promisc, ego, both, levels, window>>

RadioNext ==
  \/ who = "hopping" /\ H!Next /\ UNCHANGED <<who, onair, promisc, ego, both, levels, window>>
  \/ who = "promisc" /\ P!Next /\ UNCHANGED <<who, hopping, ego, both, levels, window>>
  \/ /\ who = "ego" /\ Next
     /\ UNCHANGED <<who, do_hop, hop_mode, hopping, promisc, both, levels, window>>
  \/ who = "levels" /\ L!Next /\ UNCHANGED <<who, do_hop, onair, hopping, promisc, ego, window>>
  \/ /\ who = "window" /\ W!Next
     /\ UNCHANGED <<who, channel, do_hop, hop_mode, onair, hopping, promisc, ego, levels>>

RadioSpec == RadioInit /\ [][RadioNext]_allvars /\ WF_allvars(Hops)

(* No channel comes twice in a segment of the hop selection or in a sweep. *)
NoChannelTwice == who = "hopping" => H!NoChannelTwice

(* A hop that is asked for ends, unless its loop has no channel to find.   *)
HopEnds == who = "hopping" => H!HopEnds

(* What is made of what was heard is right: promiscuous mode follows an    *)
(* address that was seen often enough, and finds of its connection what it *)
(* needs; packets tell the levels and the carriers of the receiver, and    *)
(* what comes with a carrier is searched.                                  *)
HeardRight ==
  /\ who = "promisc" => P!Sighted /\ P!Recovered
  /\ who = "levels" => L!LevelsRight
  /\ who = "window" => W!WindowRight
============================================================================
