------------------------------- MODULE Hopping -------------------------------
(***************************************************************************)
(* Hopping outside low energy: the hop selection of bluetooth.c, hop() and *)
(* the timer that asks for it, and the requests that change its modes and  *)
(* its channel map while bt_stream_rx() runs.  Those requests are served   *)
(* by polling, between two hops and never during one.  Channels are        *)
(* numbered from 2402 MHz; a channel map is a set of them.                 *)
(***************************************************************************)
EXTENDS Integers, FiniteSets, Bitwise, SequencesExt

CONSTANTS
  Addresses,    \* lower address parts that the host may send
  Maps,         \* AFH maps that the host may send
  Fixed,        \* channels that the host may ask for
  Offsets,      \* clock offsets that the host may send
  Beyond,       \* what lies in memory after afh_bank: an unknown byte
  MaxClock,     \* bound: clkn in the hop selection
  MaxSweepClock, \* bound: clkn in a sweep
  MaxLate,      \* bound: how often a hop is served late
  MaxRequests,  \* bound: requests that change the mode, the map or the clock
  LastRequest   \* bound: clkn when the last request comes

CHANNELS == 79
Channel == 0 .. CHANNELS - 1
hop_timeout == 158

HoppingAssumption ==
  /\ Addresses \subseteq Nat /\ Maps \subseteq SUBSET Channel /\ Fixed \subseteq Channel
  /\ Offsets \subseteq Nat /\ Beyond \subseteq 0 .. 255 /\ Beyond # {}
  /\ MaxClock \in Nat /\ MaxSweepClock \in Nat /\ MaxLate \in Nat /\ MaxRequests \in Nat
  /\ LastRequest \in Nat

VARIABLES
  clkn, clkn_offset, do_hop, last_hop, hop_mode,
  channel,        \* that the firmware wants
  tuned,          \* that the CC2400 receives: FSDIV + 1
  hopper,         \* a1, b, c1, d1, e, and bank
  afh_map, afh_enabled, used_channels,
  seeking,        \* in one of the do-while loops of hop()
  visited, again, \* history: what was tuned to in this round, and whether the last
                  \* hop led there for the second time; see NoChannelTwice
  late, asked     \* how often a hop was late, how many requests came

timing == <<clkn, clkn_offset, last_hop>>
map == <<afh_map, afh_enabled, used_channels>>
vars == <<clkn, clkn_offset, do_hop, last_hop, hop_mode, channel, tuned, hopper, afh_map,
          afh_enabled, used_channels, seeking, visited, again, late, asked>>

-----------------------------------------------------------------------------
(* bluetooth.c                                                             *)

Bits(n, low, width) == (n \div 2 ^ low) % 2 ^ width

(* The number made of these bits of n, the most significant first. *)
Gather(n, positions) == FoldLeft(LAMBDA v, i : 2 * v + Bits(n, i, 1), 0, positions)

(* Mutant: the last place of bank is forgotten. *)
short_bank == [i \in Channel |-> IF i < CHANNELS - 1 THEN (2 * i) % CHANNELS ELSE 0]

(* With AFH, the loop that should fill bank from the map has no braces:    *)
(* all that is left of it is to put channel 77 first, if the map has it.   *)
(* It stays there until the next address.                                  *)
filled_bank ==
  [i \in Channel |-> IF i = 0 /\ afh_enabled /\ 77 \in afh_map THEN 77 ELSE (2 * i) % CHANNELS]

precalc(address) ==
  /\ hopper' = [a1 |-> Bits(address, 23, 5), b |-> Bits(address, 19, 4),
                c1 |-> Gather(address, <<8, 6, 4, 2, 0>>), d1 |-> Bits(address, 10, 9),
                e |-> Gather(address, <<13, 11, 9, 7, 5, 3, 1>>),
                bank |-> filled_bank]
  /\ used_channels' = IF afh_enabled THEN Cardinality(afh_map) ELSE used_channels

(* Until the first address bank is zero like the rest. *)
Unset == [a1 |-> 0, b |-> 0, c1 |-> 0, d1 |-> 0, e |-> 0, bank |-> [i \in Channel |-> 0]]

index1 == <<0, 2, 1, 3, 0, 1, 0, 3, 1, 0, 2, 1, 0, 1>>
index2 == <<1, 3, 2, 4, 4, 3, 2, 4, 4, 3, 4, 3, 3, 2>>

(* Mutant: a bit is copied, not swapped. *)
BitCopied(z, i, j) == z + (Bits(z, j, 1) - Bits(z, i, 1)) * 2 ^ i

BitsSwapped(z, i, j) == z + (Bits(z, j, 1) - Bits(z, i, 1)) * (2 ^ i - 2 ^ j)

(* The control signals are the 9 bits of p_low, then the 5 of p_high; the  *)
(* last comes first.                                                       *)
perm5(z, p_high, p_low) ==
  LET p(i) == IF i <= 9 THEN Bits(p_low, i - 1, 1) ELSE Bits(p_high, i - 10, 1)
      butterfly[i \in 0 .. 14, bits \in 0 .. 31] ==
        IF i = 0 THEN bits
        ELSE butterfly[i - 1, IF p(i) = 1 THEN BitsSwapped(bits, index1[i], index2[i]) ELSE bits]
  IN  butterfly[14, z]

(* With AFH the channel comes from afh_bank, which nothing ever fills; and *)
(* if no channel is counted as used, from beyond it: x % 0 is x here.      *)
next_hop(clock) ==
  LET x  == Bits(clock, 2, 5)
      y1 == Bits(clock, 1, 1)
      a  == hopper.a1 ^^ Bits(clock, 21, 5)
      c  == hopper.c1 ^^ Bits(clock, 16, 5)
      d  == hopper.d1 ^^ Bits(clock, 7, 9)
      f  == (16 * Bits(clock, 7, 21)) % CHANNELS
      perm == perm5(((x + a) % 32) ^^ hopper.b, (31 * y1) ^^ c, d)
  IN  IF ~afh_enabled THEN {hopper.bank[(perm + hopper.e + f + 32 * y1) % CHANNELS]}
      ELSE IF used_channels = 0 THEN Beyond ELSE {0}

-----------------------------------------------------------------------------
(* hop()                                                                   *)

NextSwept(c) == IF c + 32 > 78 THEN c + 32 - 79 ELSE c + 32

(* The conditions of the do-while loops. *)
Skipped(c) ==
  \/ hop_mode = "SWEEP" /\ used_channels # 0 /\ afh_enabled /\ c \notin afh_map
  \/ hop_mode = "AFH" /\ used_channels # 79 /\ c \in afh_map

Exhausted == \A c \in Channel : Skipped(c)

Segment(clock) == clock \div 128

(* A round of a sweep ends when it has been everywhere it goes, and one of *)
(* the hop selection with its segment.                                     *)
NewRound == IF hop_mode = "BLUETOOTH" THEN Segment(last_hop') # Segment(last_hop)
            ELSE \A c \in Channel : Skipped(c) \/ c \in visited

Retune(c) ==
  /\ channel' = c /\ tuned' = c
  /\ visited' = IF NewRound THEN {c} ELSE visited \cup {c}
  /\ again' = (c \in visited /\ ~NewRound)

(* Mutant: the wish for a hop is kept. *)
KeepWish == UNCHANGED do_hop

ClearWish == do_hop' = FALSE

(* Only a sweep is a loop. *)
HopBegins ==
  /\ do_hop /\ ~seeking
  /\ ClearWish
  /\ last_hop' = clkn
  /\ CASE hop_mode \in {"SWEEP", "AFH"} ->
            seeking' = TRUE /\ UNCHANGED <<channel, tuned, visited, again>>
       [] hop_mode = "BLUETOOTH" ->
            (\E c \in next_hop(clkn) : Retune(c)) /\ UNCHANGED seeking
       [] hop_mode = "NONE" ->
            Retune(channel) /\ UNCHANGED seeking
  /\ UNCHANGED <<clkn, clkn_offset, hop_mode, hopper, map, late, asked>>

(* One pass of a do-while loop. *)
Seek ==
  /\ seeking
  /\ LET c == NextSwept(channel)
     IN  IF Skipped(c) THEN channel' = c /\ UNCHANGED <<seeking, tuned, visited, again>>
         ELSE seeking' = FALSE /\ Retune(c)
  /\ UNCHANGED <<timing, do_hop, hop_mode, hopper, map, late, asked>>

hop == HopBegins \/ Seek

-----------------------------------------------------------------------------
(* TIMER0_IRQHandler(), at the ticks at which it asks for a hop; between   *)
(* them only clkn changes.  Bound: all but MaxLate times, a hop that is    *)
(* asked for begins before the timer asks again.                           *)

HopInterval == CASE hop_mode \in {"NONE", "SWEEP"} -> 128
            [] hop_mode = "BLUETOOTH" -> 2

NextAsked ==
  IF hop_mode = "AFH" THEN last_hop + hop_timeout
  ELSE ((clkn + clkn_offset) \div HopInterval + 1) * HopInterval

TIMER0_IRQHandler ==
  /\ NextAsked > clkn + clkn_offset
  /\ NextAsked <= IF hop_mode = "BLUETOOTH" THEN MaxClock ELSE MaxSweepClock
  /\ clkn' = NextAsked /\ clkn_offset' = 0
  /\ late' = IF do_hop THEN late + 1 ELSE late
  /\ late' <= MaxLate
  /\ do_hop' = TRUE
  /\ UNCHANGED <<last_hop, hop_mode, channel, tuned, hopper, map, seeking, visited, again, asked>>

-----------------------------------------------------------------------------
(* Requests                                                                *)

(* A new round begins with what changes the rule of the last. *)
Request == ~seeking /\ clkn <= LastRequest /\ asked < MaxRequests /\ asked' = asked + 1
           /\ visited' = {} /\ again' = FALSE

SET_CHANNEL ==
  /\ Request
  /\ \/ \E c \in Fixed : channel' = c /\ hop_mode' = "NONE"
     \/ channel' = 0 /\ hop_mode' = "SWEEP"
  /\ UNCHANGED <<timing, do_hop, tuned, hopper, map, seeking, late>>

SET_BDADDR ==
  /\ Request
  /\ \E address \in Addresses : precalc(address)
  /\ UNCHANGED <<timing, do_hop, hop_mode, channel, tuned, afh_map, afh_enabled, seeking, late>>

START_HOPPING ==
  /\ Request
  /\ clkn_offset' \in Offsets
  /\ hop_mode' = "BLUETOOTH"
  /\ UNCHANGED <<clkn, last_hop, do_hop, channel, tuned, hopper, map, seeking, late>>

AFH ==
  /\ Request
  /\ hop_mode' = "AFH"
  /\ afh_map' = {} /\ used_channels' = 0 /\ afh_enabled' = TRUE
  /\ UNCHANGED <<timing, do_hop, channel, tuned, hopper, seeking, late>>

SET_AFHMAP ==
  /\ Request
  /\ afh_map' \in Maps /\ afh_enabled' = TRUE
  /\ UNCHANGED <<timing, do_hop, hop_mode, channel, tuned, hopper, used_channels, seeking, late>>

CLEAR_AFHMAP ==
  /\ Request
  /\ afh_map' = {} /\ afh_enabled' = FALSE
  /\ UNCHANGED <<timing, do_hop, hop_mode, channel, tuned, hopper, used_channels, seeking, late>>

HOP ==
  /\ Request
  /\ do_hop' = TRUE
  /\ UNCHANGED <<timing, hop_mode, channel, tuned, hopper, map, seeking, late>>

-----------------------------------------------------------------------------
Init ==
  /\ clkn = 0 /\ clkn_offset = 0 /\ do_hop = FALSE /\ last_hop = 0
  /\ hop_mode = "NONE" /\ channel = 39 /\ tuned = 39
  /\ hopper = Unset
  /\ afh_map = {} /\ afh_enabled = FALSE /\ used_channels = 0
  /\ seeking = FALSE /\ visited = {} /\ again = FALSE /\ late = 0 /\ asked = 0

Next ==
  \/ hop \/ TIMER0_IRQHandler
  \/ SET_CHANNEL \/ SET_BDADDR \/ START_HOPPING \/ AFH \/ SET_AFHMAP \/ CLEAR_AFHMAP \/ HOP

(* The loop of bt_stream_rx() polls do_hop, and hop() runs to its end. *)
Fairness == WF_vars(hop)

Spec == Init /\ [][Next]_vars /\ Fairness

-----------------------------------------------------------------------------
(* No channel comes twice in a round: not in the 64 slots of a segment of  *)
(* the hop selection, whose butterfly permutes 32 channels and whose two   *)
(* halves must not overlap (next_hop(), perm5()), and not in a sweep       *)
(* before it has been on every channel that its map leaves (hop()).  Not   *)
(* so, by what precalc() makes of bank: hopping that is started before an  *)
(* address was set (hopper = Unset), as ubertooth-rx -l without -u does,   *)
(* stays on 2402 MHz; and channel 77 comes twice, the others once, after   *)
(* an address was set with AFH on and 77 in the map, although AFH is off   *)
(* again.  The hop selection with AFH, which is unfinished, is no round.   *)
NoChannelTwice ==
  again =>
    \/ hop_mode = "NONE"
    \/ /\ hop_mode = "BLUETOOTH"
       /\ afh_enabled \/ hopper = Unset \/ (hopper.bank[0] = 77 /\ tuned = 77)

(* A hop that is asked for ends, unless its loop has no channel to find.   *)
HopEnds == []<>((~do_hop /\ ~seeking) \/ (seeking /\ Exhausted))
==============================================================================
