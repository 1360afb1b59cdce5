---------------------------- MODULE HostCallbacks ----------------------------
(***************************************************************************)
(* What the callbacks of libubertooth make of the packets of a stream: the *)
(* time and the signal they report, the trim of the device's clock, and    *)
(* the channel maps of ubertooth-afh; with the ring of banks they read     *)
(* from.  A tool uses one of them.                                         *)
(*                                                                         *)
(* The unit of time is that of the receiver's blocks of symbols; libbtbb,  *)
(* which finds access codes, decides what it likes.                        *)
(***************************************************************************)
EXTENDS Integers, Sequences, SequencesExt, FiniteSetsExt

CONSTANTS
  Callbacks,      \* of those below, the one that is used
  NUM_BANKS,      \* of the ring, and RSSI_HISTORY_LEN
  Channels,       \* 0 .. 78
  Heard,          \* bound: those of packets, unless channel maps are made of them
  Levels,         \* of rssi_max; zero is one of them
  Starts,         \* CLK100NS when the stream begins
  Gaps,           \* times between two packets
  Wrap, Modulus,  \* 3276800000 and 2^32
  Slot, Preamble, CLK_TUNE_TIME,   \* 6250, 4000, 2250
  Offsets,        \* of an access code in its block
  packet_counter_max,
  MaxPackets      \* bound: packets that come

CallbacksAssumption ==
  /\ NUM_BANKS \in Nat \ {0} /\ 0 \in Levels /\ Levels \subseteq Int
  /\ \E last \in Channels : last > 0 /\ Channels = 0 .. last
  /\ Heard \subseteq Channels
  /\ Wrap \in Nat /\ Modulus \in Nat /\ Wrap < Modulus
  /\ Starts \subseteq 0 .. Wrap - 1 /\ Gaps \subseteq 1 .. Wrap - 1 /\ Gaps # {}
  /\ Slot \in Nat /\ CLK_TUNE_TIME \in Nat /\ Preamble \in Nat /\ Offsets \subseteq Int
  /\ Slot > CLK_TUNE_TIME /\ Slot > Preamble
  /\ packet_counter_max \in Nat \ {0} /\ MaxPackets \in Nat

VARIABLES
  cb,
  infile,         \* the packets are those of a file
  time, clk,      \* of the device: true time, CLK100NS
  current_bank, usb, bt,   \* the ring: what was received, and its symbols
  start_clk100ns, last_clk100ns, clk100ns_upper, abs_start_ns,
  rssi_history, prev_ts, calibrated,
  afh_map,        \* of the piconet: the channels seen
  last_seen, counter,
  afh_device,     \* the map that the device was sent, or "none"
  report,         \* what was reported last: of which packet, its time and signal
  started,        \* history: the packet that started the clock
  trimmed, tuned, \* history: by how much the device's clock was trimmed, and when,
                  \* by that clock, the access code came that led to it
  heard,          \* history: how many packets came
  log             \* history: those the callback analysed

ring  == <<current_bank, usb, bt>>
clock == <<start_clk100ns, last_clk100ns, clk100ns_upper, abs_start_ns, started>>
tune  == <<calibrated, trimmed, tuned>>
maps  == <<afh_map, last_seen, counter, afh_device>>
vars == <<cb, infile, time, clk, current_bank, usb, bt, start_clk100ns, last_clk100ns, clk100ns_upper,
          abs_start_ns, rssi_history, prev_ts, calibrated, afh_map, last_seen, counter, afh_device,
          report, started, trimmed, tuned, heard, log>>

Bank == 0 .. NUM_BANKS - 1

(* What a bank holds that was never written: zeros, or what malloc() finds *)
(* there.                                                                  *)
Zero == [n |-> 0, channel |-> 0, clk100ns |-> 0, time |-> 0, rssi_max |-> 0]
Junk == [n |-> 0, channel |-> 0, clk100ns |-> Wrap - 1, time |-> 0, rssi_max |-> 0]

-----------------------------------------------------------------------------
(* ubertooth_ringbuffer.c                                                  *)

Index(bank, index) == (bank + 1 + index) % NUM_BANKS

ringbuffer_add(p) ==
  /\ current_bank' = (current_bank + 1) % NUM_BANKS
  /\ usb' = [usb EXCEPT ![Index(current_bank', NUM_BANKS - 1)] = p]
  /\ bt'  = [bt EXCEPT ![Index(current_bank', NUM_BANKS - 1)] = p.n]

ringbuffer_top_usb    == usb'[Index(current_bank', NUM_BANKS - 1)]
ringbuffer_bottom_usb == usb'[Index(current_bank', 0)]

-----------------------------------------------------------------------------
(* The time of a packet                                                    *)

track_clk100ns(rx) ==
  LET first == start_clk100ns = 0
      last  == IF first THEN rx.clk100ns ELSE last_clk100ns
  IN  /\ start_clk100ns' = IF first THEN rx.clk100ns ELSE start_clk100ns
      /\ abs_start_ns' = IF first THEN time' ELSE abs_start_ns
      /\ started' = IF first THEN rx ELSE started
      /\ clk100ns_upper' = IF rx.clk100ns < last THEN clk100ns_upper + 1 ELSE clk100ns_upper
      /\ last_clk100ns' = rx.clk100ns

(* In units of CLK100NS.  A roll-over counts as 2^32 of them.              *)
now_ns_from_clk100ns(rx) ==
  abs_start_ns' + ((rx.clk100ns - start_clk100ns') % Modulus) + clk100ns_upper' * Modulus

(* Mutant: a roll-over counts as 2^32 here as well.                        *)
RolledModulus(ts) == IF ts < prev_ts THEN ts + Modulus ELSE ts

Rolled(ts) == IF ts < prev_ts THEN ts + Wrap ELSE ts

Difference(rx) == (Rolled(rx.clk100ns) - prev_ts) % Modulus

-----------------------------------------------------------------------------
(* Its signal                                                              *)

(* Mutant: the history is that of all channels.                            *)
HistoryOfAll(rx) ==
  [c \in Channels |-> Append(Tail(rssi_history[c]), rx.rssi_max)]

History(rx) ==
  [rssi_history EXCEPT ![rx.channel] = Append(Tail(@), rx.rssi_max)]

(* The maximum; cc2400_rssi_to_dbm() only makes dBm of it.                 *)
determine_signal_and_noise(rx) == Max(ToSet(rssi_history'[rx.channel]))

-----------------------------------------------------------------------------
Report(rx, ns, difference, signal) ==
  report' = [of |-> rx, ns |-> ns, difference |-> difference, signal |-> signal]

Analysed(rx) == log' = Append(log, rx)

(* Both begin with the time and the signal; the rest depends on whether    *)
(* there is an access code.                                                *)
Timed(rx) ==
  /\ track_clk100ns(rx)
  /\ rssi_history' = History(rx)
  /\ Analysed(rx)

cb_br_rx ==
  LET rx == ringbuffer_top_usb
  IN  /\ cb = "cb_br_rx"
      /\ Timed(rx)
      /\ \/ Report(rx, now_ns_from_clk100ns(rx), 0, determine_signal_and_noise(rx))
         \/ UNCHANGED report
      /\ UNCHANGED <<prev_ts, maps, tune>>

(* The device's clock is set back by this much, which lets it run longer   *)
(* once.                                                                   *)
Trim(clk_offset) ==
  IF clk_offset < CLK_TUNE_TIME THEN Slot + clk_offset - CLK_TUNE_TIME
  ELSE clk_offset - CLK_TUNE_TIME

Offset(clk100ns, offset) == (clk100ns + offset + Slot - Preamble) % Slot

(* It looks at the oldest bank, and at the symbols of all.                 *)
cb_rx ==
  LET rx == ringbuffer_bottom_usb
  IN  /\ cb = "cb_rx"
      /\ Timed(rx)
      /\ \/ UNCHANGED <<report, tune>>
         \/ \E offset \in Offsets :
              IF infile \/ calibrated
              THEN /\ Report(rx, now_ns_from_clk100ns(rx), 0, determine_signal_and_noise(rx))
                   /\ UNCHANGED tune
              ELSE /\ calibrated' = TRUE
                   /\ trimmed' = Trim(Offset(rx.clk100ns, offset))
                   /\ tuned' = rx.clk100ns + offset - Preamble
                   /\ UNCHANGED report
      /\ UNCHANGED <<prev_ts, maps>>

(* Packets with too many errors in their access address are dropped after  *)
(* their time is taken.                                                    *)
cb_btle ==
  LET rx == ringbuffer_top_usb
  IN  /\ cb = "cb_btle"
      /\ track_clk100ns(rx)
      /\ \/ UNCHANGED <<rssi_history, prev_ts, report, log>>
         \/ /\ rssi_history' = History(rx)
            /\ Analysed(rx)
            /\ prev_ts' = rx.clk100ns
            /\ Report(rx, now_ns_from_clk100ns(rx), Difference(rx), determine_signal_and_noise(rx))
      /\ UNCHANGED <<maps, tune>>

cb_ego ==
  LET rx == ringbuffer_top_usb
  IN  /\ cb = "cb_ego"
      /\ prev_ts' = rx.clk100ns
      /\ Report(rx, 0, Difference(rx), 0)
      /\ Analysed(rx)
      /\ UNCHANGED <<clock, rssi_history, maps, tune>>

-----------------------------------------------------------------------------
(* Channel maps.  Beyond the band, libbtbb takes all channels for seen.    *)

seen(map, c) == c \in map \/ c \notin Channels

(* Mutant: the gap above a channel is not filled.                          *)
FilledBelow(map, c) ==
  IF ~seen(map, c - 1) /\ seen(map, c - 2) THEN map \cup {c - 1} ELSE map

Filled(map, c) ==
  LET above == IF ~seen(map, c + 1) /\ seen(map, c + 2) THEN map \cup {c + 1} ELSE map
  IN  IF ~seen(above, c - 1) /\ seen(above, c - 2) THEN above \cup {c - 1} ELSE above

cb_afh_initial ==
  LET c == ringbuffer_top_usb.channel
  IN  /\ cb = "cb_afh_initial"
      /\ IF c \in afh_map THEN UNCHANGED <<afh_map, afh_device>>
         ELSE afh_map' = Filled(afh_map \cup {c}, c) /\ afh_device' = afh_map'
      /\ Analysed(ringbuffer_top_usb)
      /\ UNCHANGED <<last_seen, counter, clock, rssi_history, prev_ts, report, tune>>

(* Mutant: a channel is kept one packet longer.                            *)
UnusedLater(c) == counter' - last_seen'[c] > packet_counter_max

Unused(c) == counter' - last_seen'[c] >= packet_counter_max

(* cb_afh_monitor() and cb_afh_r() differ in what they print.              *)
cb_afh_monitor ==
  LET c == ringbuffer_top_usb.channel
  IN  /\ cb = "cb_afh_monitor"
      /\ counter' = counter + 1
      /\ last_seen' = [last_seen EXCEPT ![c] = counter']
      /\ afh_map' = {d \in afh_map \cup {c} : ~Unused(d)}
      /\ Analysed(ringbuffer_top_usb)
      /\ UNCHANGED <<afh_device, clock, rssi_history, prev_ts, report, tune>>

-----------------------------------------------------------------------------
(* A packet comes.  The callback may have no use for it, and then does not *)
(* take its time either: for cb_rx() it is to be discarded or has no       *)
(* channel of the band, for cb_br_rx() it has none, for cb_btle() it tells *)
(* of promiscuous mode, for the maps it has no access code of the piconet. *)
Ignored == UNCHANGED <<clock, rssi_history, prev_ts, maps, report, tune, log>>

ForMaps == cb \in {"cb_afh_initial", "cb_afh_monitor"}

(* Bounds: what a callback does not look at is always the same.            *)
Packet ==
  /\ heard < MaxPackets /\ heard' = heard + 1
  /\ \E gap \in IF ForMaps THEN {Min(Gaps)} ELSE Gaps,
        c \in IF ForMaps THEN Channels ELSE Heard,
        level \in IF ForMaps THEN {0} ELSE Levels :
       LET now == time + gap
           ts  == (clk + gap - trimmed) % Wrap
       IN  /\ time' = now /\ clk' = (clk + gap) % Wrap
           /\ ringbuffer_add([n |-> heard', channel |-> c, clk100ns |-> ts, time |-> now,
                              rssi_max |-> level])
  /\ cb_br_rx \/ cb_rx \/ cb_btle \/ cb_ego \/ cb_afh_initial \/ cb_afh_monitor
     \/ (cb # "cb_ego" /\ Ignored)
  /\ UNCHANGED <<cb, infile>>

ubertooth_bulk_receive == ~infile /\ Packet

(* Packets that were saved, for the callbacks that are given a file.  What *)
(* is learned from them is nothing that a device could be told.            *)
stream_rx_file == infile /\ Packet

ForFiles == {"cb_rx", "cb_br_rx", "cb_btle"}

Init ==
  /\ cb \in Callbacks /\ infile \in BOOLEAN /\ (infile => cb \in ForFiles)
  /\ time = 0 /\ clk \in Starts
  /\ current_bank = 0 /\ usb \in {[b \in Bank |-> Zero], [b \in Bank |-> Junk]}
  /\ bt = [b \in Bank |-> 0]
  /\ start_clk100ns = 0 /\ last_clk100ns = 0 /\ clk100ns_upper = 0 /\ abs_start_ns = 0
  /\ rssi_history = [c \in Channels |-> [k \in 1 .. NUM_BANKS |-> 0]]
  /\ prev_ts = 0 /\ calibrated = FALSE
  /\ afh_map \in (IF cb = "cb_afh_monitor" THEN SUBSET Channels ELSE {{}})
  /\ last_seen = [c \in Channels |-> 0] /\ counter = 0 /\ afh_device = {}
  /\ report = [of |-> Zero, ns |-> 0, difference |-> 0, signal |-> 0]
  /\ started = Zero /\ trimmed = 0 /\ tuned = CLK_TUNE_TIME
  /\ heard = 0 /\ log = <<>>

Next == ubertooth_bulk_receive \/ stream_rx_file

Spec == Init /\ [][Next]_vars

-----------------------------------------------------------------------------
LastOf(n) == {log[k] : k \in {k \in DOMAIN log : k > Len(log) - n}}

(* The banks are those of the last packets, the oldest first, with their   *)
(* symbols (ubertooth_ringbuffer.c).                                       *)
RingInOrder ==
  \A k \in Bank :
    LET n == heard - (NUM_BANKS - 1 - k)
    IN  n > 0 => usb[Index(current_bank, k)].n = n /\ bt[Index(current_bank, k)] = n

(* The time that is reported for a packet is its true time, counted from   *)
(* the packet that started the clock, for as long as the device's clock    *)
(* does not begin again and is not trimmed, whatever packets are passed    *)
(* over in between (track_clk100ns, now_ns_from_clk100ns).                 *)
TimeTrue ==
  LET passed == report.of.time - started.time
  IN  cb \in {"cb_br_rx", "cb_rx"} /\ report.of.n >= started.n /\ started.n > 0
        /\ started.clk100ns + passed < Wrap /\ trimmed = 0
        => report.ns - abs_start_ns = passed

(* The difference that is reported is that to the packet analysed before,  *)
(* also when the clock begins again in between, but for whole turns of it  *)
(* (cb_btle, cb_ego).                                                      *)
DifferenceTrue ==
  cb \in {"cb_btle", "cb_ego"} /\ Len(log) > 1 =>
    /\ report.of = log[Len(log)]
    /\ report.difference \in 0 .. Wrap - 1
    /\ (report.of.time - log[Len(log) - 1].time - report.difference) % Wrap = 0

(* The packets on a channel, and those of them that came after the k-th.   *)
On(c) == {k \in DOMAIN log : log[k].channel = c}
After(c, k) == {j \in On(c) : j > k}

(* The signal is the highest level of the last packets on the channel, of  *)
(* NUM_BANKS of them once there were so many.                              *)
SignalTrue ==
  cb \in {"cb_br_rx", "cb_rx", "cb_btle"} /\ log # <<>> /\ report.of = log[Len(log)] =>
    LET c == report.of.channel
        last == {k \in On(c) : Cardinality(After(c, k)) < NUM_BANKS}
    IN  Cardinality(On(c)) >= NUM_BANKS => report.signal = Max({log[k].rssi_max : k \in last})

(* The trim makes access codes come CLK_TUNE_TIME after the clock's edge,  *)
(* and nothing that a file brings trims the clock.                         *)
Tuned == (tuned - trimmed) % Slot = CLK_TUNE_TIME /\ (infile => trimmed = 0)

(* The device was sent the map that was made, which has no single unused   *)
(* channel; and the map that is kept up to date is that of the channels of *)
(* the last packet_counter_max packets (cb_afh_initial, cb_afh_monitor).   *)
MapsTrue ==
  /\ cb = "cb_afh_initial" =>
       /\ afh_device = afh_map
       /\ \A c \in Channels : seen(afh_map, c) \/ ~seen(afh_map, c - 1) \/ ~seen(afh_map, c + 1)
  /\ cb = "cb_afh_monitor" /\ Len(log) >= packet_counter_max =>
       afh_map = {p.channel : p \in LastOf(packet_counter_max)}

(* What the callbacks tell of the packets is so.                           *)
ReportsRight ==
  RingInOrder /\ TimeTrue /\ DifferenceTrue /\ SignalTrue /\ Tuned /\ MapsTrue
==============================================================================
