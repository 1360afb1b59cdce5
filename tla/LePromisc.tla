------------------------------ MODULE LePromisc ------------------------------
(***************************************************************************)
(* Promiscuous mode, bt_promisc_le(): from the access addresses that       *)
(* cb_le_promisc() sees, to the checksum, the interval and the increment   *)
(* of a connection, to following it - against a connection on the air,     *)
(* packets of which are missed, and a clock that wraps.                    *)
(*                                                                         *)
(* The unit of time is 1.25 ms, LE_BASECLK.  An event of the connection    *)
(* takes up to two units; the first may have a packet, and so the second.  *)
(***************************************************************************)
EXTENDS LeLink, FiniteSets, SequencesExt

CONSTANTS
  DataChannels,   \* 37
  Addresses,      \* access addresses that are seen: one of the connection, and noise
  ListSize,       \* AA_LIST_SIZE
  Intervals, Increments, CrcInits,    \* of connections
  Starts,         \* the clock when the mode is entered
  Wrap,           \* 3276800000, at which CLK100NS begins again
  Rollover,       \* 3267800000, which stands for it in promisc_recover_hop_interval()
  Modulus,        \* 2^32
  MaxMissed,      \* bound: events missed in an attempt
  MaxNoise,       \* bound: sightings of other addresses
  MaxConnections, \* bound: the attempts that meet a connection
  MaxFollowed,    \* bound: events of a connection while it is followed
  MaxAttempts     \* bound: attempts

PromiscAssumption ==
  /\ DataChannels \in Nat /\ ListSize \in Nat \ {0}
  /\ Intervals \subseteq Nat /\ \A i \in Intervals : i > 1
  /\ Increments \subseteq 1 .. DataChannels - 1
  /\ "connection" \in Addresses
  /\ Rollover < Wrap /\ Wrap < Modulus /\ Starts \subseteq 0 .. Wrap - 1

VARIABLES
  pc,             \* "head" of the loop of bt_promisc_le(), "search", "sync"
  target_set, access_address,
  active_aa,      \* the addresses seen, with their counts
  packet_cb, crc_init, crc_verify, channel, do_hop, hop_direct_channel, hop_mode,
  smallest_hop_interval, consec_intervals, prev_clk, first_ts,
  conn_interval, channel_increment, channel_idx, interval_timer, connected,
  clk,            \* CLK100NS
  air, onair,     \* the connection, and whether a packet is on the air
  sightings,      \* history: how often each address was seen in this attempt
  inarow,         \* history: two rounds in a row were heard
  misled,         \* history: a difference was taken that was none of two packets
                  \* of this connection, or that the wrap of the clock falsified
  missed, noise, attempts, followed

table    == <<active_aa, sightings, noise>>
interval == <<smallest_hop_interval, consec_intervals, prev_clk>>
link     == <<conn_interval, channel_increment, channel_idx, interval_timer, connected>>
hopping  == <<channel, do_hop, hop_direct_channel, hop_mode>>
history  == <<inarow, misled>>
vars == <<pc, target_set, access_address, active_aa, packet_cb, crc_init, crc_verify, channel, do_hop,
          hop_direct_channel, hop_mode, smallest_hop_interval, consec_intervals, prev_clk,
          first_ts, conn_interval, channel_increment, channel_idx, interval_timer, connected,
          clk, air, onair, sightings, inarow, misled, missed, noise, attempts, followed>>

Endless == Modulus    \* of smallest_hop_interval: 0xffffffff
NoOne == "advertising"
Silent == [on |-> FALSE, idx |-> 0, inc |-> 0, interval |-> 0, next |-> 0, first |-> FALSE,
           crc |-> 0, heard |-> FALSE]

Over == [Silent EXCEPT !.heard = TRUE]

Free == [aa |-> "none", count |-> 0]
EmptyTable == [i \in 1 .. ListSize |-> Free]

-----------------------------------------------------------------------------
(* bt_promisc_le()                                                         *)

(* The loop's head.  The jump "to a random data channel" takes place only  *)
(* from an odd one, which no low energy mode leaves behind.  prev_clk is   *)
(* static: reset_le_promisc() leaves it.                                   *)
Enter ==
  /\ pc = "head"
  /\ attempts < MaxAttempts /\ attempts' = attempts + 1
  /\ active_aa' = EmptyTable /\ sightings' = [a \in Addresses |-> 0]
  /\ smallest_hop_interval' = Endless /\ consec_intervals' = 0
  /\ inarow' = FALSE /\ misled' = FALSE /\ missed' = 0
  /\ packet_cb' = "crc" /\ crc_verify' = FALSE
  /\ IF target_set
     THEN pc' = "sync" /\ UNCHANGED <<access_address, link, do_hop>>
     ELSE /\ pc' = "search" /\ access_address' = NoOne /\ do_hop' = FALSE
          /\ conn_interval' = 0 /\ channel_increment' = 0 /\ channel_idx' = 0
          /\ interval_timer' = 0 /\ connected' = FALSE
  /\ air' = Silent
  /\ UNCHANGED <<target_set, crc_init, channel, hop_direct_channel, hop_mode, prev_clk,
                 first_ts, clk, onair, noise, followed>>

(* Mutant: the last entry is evicted, whatever its count.                  *)
EvictLast(t) == Len(t)

(* The first entry of those with the lowest count.                         *)
Evicted(t) ==
  CHOOSE i \in DOMAIN t :
    /\ \A j \in DOMAIN t : t[i].count <= t[j].count
    /\ \A j \in 1 .. i - 1 : t[i].count < t[j].count

see_aa(aa) ==
  IF \E i \in DOMAIN active_aa : active_aa[i].aa = aa
  THEN [i \in DOMAIN active_aa |->
          IF active_aa[i].aa = aa THEN [active_aa[i] EXCEPT !.count = @ + 1] ELSE active_aa[i]]
  ELSE [active_aa EXCEPT ![Evicted(active_aa)] = [aa |-> aa, count |-> 1]]

(* cb_le_promisc(): an address is seen; one that has a count above 3 is    *)
(* followed.  Nothing reads the list then, before reset_le_promisc()       *)
(* clears it: the model clears it here.                                    *)
cb_le_promisc ==
  /\ pc = "search"
  /\ \E aa \in Addresses :
       LET counts == [sightings EXCEPT ![aa] = @ + 1]
           seen   == see_aa(aa)
           full   == {i \in DOMAIN seen : seen[i].count > 3}
       IN  /\ noise' = IF aa = "connection" THEN noise ELSE noise + 1
           /\ noise' <= MaxNoise
           /\ IF full = {}
              THEN active_aa' = seen /\ sightings' = counts /\ UNCHANGED <<access_address, pc>>
              ELSE /\ access_address' = seen[CHOOSE i \in full : \A j \in full : i <= j].aa
                   /\ active_aa' = EmptyTable
                   /\ sightings' = [a \in Addresses |-> IF a = access_address' THEN counts[a] ELSE 0]
                   /\ pc' = "sync"
  /\ UNCHANGED <<target_set, packet_cb, crc_init, crc_verify, hopping, interval, first_ts, link, clk,
                 air, onair, history, missed, attempts, followed>>

-----------------------------------------------------------------------------
(* The connection                                                          *)

(* There is a connection, anywhere in its sequence.  It is seen on the     *)
(* channel on which the search listened.                                   *)
ConnectionStarts ==
  /\ pc = "sync" /\ air = Silent /\ packet_cb = "crc" /\ access_address = "connection"
  /\ attempts <= MaxConnections
  /\ \E i \in Intervals, inc \in Increments, crc \in CrcInits :
       air' = [Silent EXCEPT !.on = TRUE, !.inc = inc, !.interval = i, !.next = 1, !.crc = crc]
  /\ UNCHANGED <<pc, target_set, access_address, table, packet_cb, crc_init, crc_verify, hopping,
                 interval, first_ts, link, clk, onair, history, missed, attempts, followed>>

Ready == pc = "sync" /\ air.on /\ ~onair /\ ~do_hop

(* TIMER0_IRQHandler() counts every unit of a connection that is followed. *)
TimerCounts ==
  IF hop_mode = "BTLE" /\ connected
  THEN LET t == interval_timer - 1
       IN  interval_timer' = (IF t = 0 THEN conn_interval ELSE t) /\ do_hop' = (t = 0)
  ELSE UNCHANGED <<interval_timer, do_hop>>

UnitPasses ==
  /\ Ready
  /\ clk' = (clk + 1) % Wrap
  /\ TimerCounts
  /\ UNCHANGED <<pc, target_set, access_address, table, packet_cb, crc_init, crc_verify, channel,
                 hop_direct_channel, hop_mode, interval, first_ts, conn_interval,
                 channel_increment, channel_idx, connected, attempts>>

(* The receiver is on the channel of the event that begins with this unit. *)
Tuned(idx) == btle_channel_index(channel - 2402) = idx

(* An event begins, with a packet that the receiver takes if it is on its  *)
(* channel; a few it may miss.                                             *)
EventBegins ==
  /\ UnitPasses
  /\ air.next = 1
  /\ LET idx == (air.idx + air.inc) % DataChannels
     IN  /\ onair' \in (IF Tuned(idx) THEN {TRUE, FALSE} ELSE {FALSE})
         /\ missed' = IF Tuned(idx) /\ ~onair' THEN missed + 1 ELSE missed
         /\ inarow' = (inarow \/ (packet_cb = "interval" /\ onair' /\ air.heard))
         /\ air' = [air EXCEPT !.idx = idx, !.next = air.interval, !.first = TRUE,
                               !.heard = IF Tuned(idx) THEN onair' ELSE @]
  /\ followed' = IF connected THEN followed + 1 ELSE followed
  /\ missed' <= MaxMissed /\ followed' <= MaxFollowed
  /\ UNCHANGED misled

(* The event goes on, with another packet in its second unit.              *)
EventGoesOn ==
  /\ UnitPasses
  /\ air.next > 1
  /\ onair' \in (IF air.first /\ Tuned(air.idx) /\ air.heard /\ packet_cb # "follow"
                 THEN {TRUE, FALSE} ELSE {FALSE})
  /\ air' = [air EXCEPT !.next = @ - 1, !.first = FALSE]
  /\ UNCHANGED <<history, missed, followed>>

ConnectionEnds ==
  /\ Ready /\ air.next = 1
  /\ air' = Over
  /\ UNCHANGED <<pc, target_set, access_address, table, packet_cb, crc_init, crc_verify, hopping,
                 interval, first_ts, link, clk, onair, history, missed, attempts, followed>>

-----------------------------------------------------------------------------
(* The callbacks                                                           *)

Received(cb) ==
  /\ onair /\ packet_cb = cb /\ onair' = FALSE
  /\ UNCHANGED <<pc, target_set, access_address, table, clk, air, missed, attempts, followed>>

(* The checksum of an empty packet, 01 00, gives the initial value away.   *)
promisc_follow_cb ==
  /\ Received("crc")
  /\ crc_init' = btle_reverse_crc(btle_calc_crc(Reversed(air.crc), <<1, 0>>), <<1, 0>>)
  /\ crc_verify' = TRUE
  /\ packet_cb' = "interval"
  /\ UNCHANGED <<hopping, interval, first_ts, link, history>>

(* From here on, bt_le_sync() drops what has another checksum.             *)
Verified(packet) ==
  btle_crcgen_lut(Reversed(crc_init), packet) = btle_calc_crc(Reversed(air.crc), packet)

DIVIDE_ROUND(n, d) == IF d = 0 THEN 0 ELSE (2 * n + d) \div (2 * d)

(* Mutant: the interval is that of one channel.                            *)
ObservedOfOne(diff) == DIVIDE_ROUND(diff, DataChannels - 1)

Observed(diff) == DIVIDE_ROUND(diff, DataChannels)

(* Differences are taken as unsigned words.                                *)
promisc_recover_hop_interval ==
  /\ Received("interval")
  /\ LET cur   == IF clk < prev_clk THEN (clk + Rollover) % Modulus ELSE clk
         diff  == (cur - prev_clk) % Modulus
         small == IF diff < smallest_hop_interval THEN diff ELSE smallest_hop_interval
         same  == conn_interval = Observed(small)
     IN  IF diff < 2
         THEN UNCHANGED <<packet_cb, hopping, interval, conn_interval, misled>>
         ELSE /\ smallest_hop_interval' = small
              /\ misled' = (misled \/ diff < DataChannels * air.interval)
              /\ prev_clk' = cur
              /\ conn_interval' = Observed(small)
              /\ consec_intervals' = IF same THEN consec_intervals + 1 ELSE 0
              /\ IF same /\ consec_intervals = 4
                 THEN /\ packet_cb' = "increment"
                      /\ hop_direct_channel' = 2404 /\ hop_mode' = "DIRECT" /\ do_hop' = TRUE
                      /\ UNCHANGED channel
                 ELSE UNCHANGED <<packet_cb, hopping>>
  /\ UNCHANGED <<crc_init, crc_verify, first_ts, channel_increment, channel_idx, interval_timer,
                 connected, inarow>>

HopDirect(c) == hop_direct_channel' = c /\ do_hop' = TRUE /\ UNCHANGED <<channel, hop_mode>>

(* The time from channel 2404, index 0, to 2406, index 1.                  *)
promisc_recover_hop_increment ==
  /\ Received("increment")
  /\ LET second == IF clk < first_ts THEN clk + Wrap ELSE clk
         hops   == DIVIDE_ROUND(second - first_ts, conn_interval)
     IN  CASE channel = 2404 ->
                /\ first_ts' = clk /\ HopDirect(2406)
                /\ UNCHANGED <<packet_cb, crc_verify, link>>
           [] channel = 2406 /\ hops < DataChannels ->
                /\ channel_increment' = hop_interval_lut(DataChannels)[hops]
                /\ channel_idx' = (1 + channel_increment') % DataChannels
                /\ interval_timer' = conn_interval \div 2
                /\ connected' = TRUE /\ crc_verify' = FALSE
                /\ hop_mode' = "BTLE" /\ do_hop' = FALSE
                /\ packet_cb' = "follow"
                /\ UNCHANGED <<first_ts, conn_interval, channel, hop_direct_channel>>
           [] OTHER ->
                /\ HopDirect(2404)
                /\ UNCHANGED <<first_ts, packet_cb, crc_verify, link>>
  /\ UNCHANGED <<crc_init, interval, history>>

(* A packet of a connection that is followed; see LeFollow.                *)
connection_follow_cb ==
  /\ Received("follow")
  /\ UNCHANGED <<packet_cb, crc_init, crc_verify, hopping, interval, first_ts, link, history>>

(* hop(), in its modes HOP_DIRECT and HOP_BTLE.                            *)
hop ==
  /\ do_hop /\ pc = "sync" /\ ~onair
  /\ do_hop' = FALSE
  /\ IF hop_mode = "DIRECT" THEN channel' = hop_direct_channel /\ UNCHANGED channel_idx
     ELSE /\ channel' = btle_channel_index_to_phys(channel_idx)
          /\ channel_idx' = (channel_idx + channel_increment) % DataChannels
  /\ UNCHANGED <<pc, target_set, access_address, table, packet_cb, crc_init, crc_verify,
                 hop_direct_channel, hop_mode, interval, first_ts, conn_interval,
                 channel_increment, interval_timer, connected, clk, air, onair, history, missed,
                 attempts, followed>>

(* Five seconds without a packet: reset_le(), and back to the loop's head. *)
Timeout ==
  /\ pc = "sync" /\ connected /\ ~air.on /\ ~onair
  /\ pc' = "head"
  /\ access_address' = NoOne /\ do_hop' = FALSE
  /\ conn_interval' = 0 /\ channel_increment' = 0 /\ channel_idx' = 0 /\ interval_timer' = 0
  /\ connected' = FALSE /\ crc_verify' = TRUE
  /\ UNCHANGED <<target_set, table, packet_cb, crc_init, channel, hop_direct_channel, hop_mode,
                 interval, first_ts, clk, air, onair, history, missed, attempts, followed>>

-----------------------------------------------------------------------------
Init ==
  /\ pc = "head" /\ target_set \in BOOLEAN
  /\ access_address = IF target_set THEN "connection" ELSE NoOne
  /\ active_aa = EmptyTable /\ packet_cb = "none" /\ crc_init = 0 /\ crc_verify = TRUE
  /\ channel = btle_channel_index_to_phys(DataChannels - 1)
  /\ do_hop = FALSE /\ hop_direct_channel = 0 /\ hop_mode = "NONE"
  /\ smallest_hop_interval = 0 /\ consec_intervals = 0 /\ prev_clk = 0 /\ first_ts = 0
  /\ conn_interval = 0 /\ channel_increment = 0 /\ channel_idx = 0 /\ interval_timer = 0
  /\ connected = FALSE
  /\ clk \in Starts
  /\ air = Silent /\ onair = FALSE
  /\ sightings = [a \in Addresses |-> 0] /\ inarow = FALSE /\ misled = FALSE
  /\ missed = 0 /\ noise = 0 /\ attempts = 0 /\ followed = 0

Next ==
  \/ Enter \/ cb_le_promisc
  \/ ConnectionStarts \/ EventBegins \/ EventGoesOn \/ ConnectionEnds
  \/ promisc_follow_cb \/ promisc_recover_hop_interval \/ promisc_recover_hop_increment
  \/ connection_follow_cb \/ hop \/ Timeout

Spec == Init /\ [][Next]_vars

-----------------------------------------------------------------------------
(* What is followed was seen more than three times in this attempt, and as *)
(* long as no more addresses are seen than the list has room for, none     *)
(* that was seen so often is passed over: see_aa() neither counts for the  *)
(* wrong address nor forgets one while there is room.                      *)
Sighted ==
  /\ pc = "sync" /\ ~target_set => sightings[access_address] > 3
  /\ pc = "search" /\ Cardinality({a \in Addresses : sightings[a] > 0}) <= ListSize
       => \A a \in Addresses : sightings[a] <= 3

(* A connection that is followed is followed with its own checksum,        *)
(* interval and increment, and the receiver is on its channel when an      *)
(* event begins: if two of the rounds were heard in a row, and no          *)
(* difference of the clock misled it.                                      *)
Recovered ==
  connected /\ air.on /\ inarow /\ ~misled =>
    /\ crc_init = air.crc
    /\ onair => Verified(<<1, 0>>) /\ Verified(<<6, 1, 131>>)
    /\ conn_interval = air.interval /\ channel_increment = air.inc
    /\ air.first => Tuned(air.idx)
==============================================================================
