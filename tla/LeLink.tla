------------------------------- MODULE LeLink -------------------------------
(***************************************************************************)
(* The arithmetic of low energy links, bluetooth_le.c: channels and their  *)
(* indices, the checksum in its three forms, and the increments of         *)
(* hop_interval_lut.  A checksum is a number of 24 bits.                   *)
(***************************************************************************)
EXTENDS Integers, Sequences, Bitwise

btle_channel_index(channel) ==
  LET c == channel \div 2
  IN  CASE c = 0        -> 37
        [] c \in 1 .. 11  -> c - 1
        [] c = 12       -> 38
        [] c \in 13 .. 38 -> c - 2
        [] OTHER        -> 39

btle_channel_index_to_phys(idx) ==
  CASE idx < 11       -> 2404 + 2 * idx
    [] idx \in 11 .. 36 -> 2428 + 2 * (idx - 11)
    [] idx = 37       -> 2402
    [] idx = 38       -> 2426
    [] OTHER          -> 2480

-----------------------------------------------------------------------------
BitOf(n, i) == (n \div 2 ^ i) % 2

(* A bit of the data enters the register, whose feedback is lfsr_mask and  *)
(* the bit shifted in on top.                                              *)
CrcBit(state, bit) ==
  LET rest == state \div 2
  IN  IF BitOf(state, 0) = bit THEN rest ELSE rest ^^ (8388608 + 5922816)

btle_calc_crc(crc_init, data) ==
  LET state[n \in 0 .. 8 * Len(data)] ==
        IF n = 0 THEN crc_init
        ELSE CrcBit(state[n - 1], BitOf(data[(n - 1) \div 8 + 1], (n - 1) % 8))
  IN  state[8 * Len(data)]

(* btle_crc_lut holds what eight empty bits make of its index. *)
btle_crc_lut == [key \in 0 .. 255 |-> btle_calc_crc(key, <<0>>)]

(* Mutant: the whole register selects the entry with the first byte only.  *)
KeyOfData(state, byte) == byte

Key(state, byte) == byte ^^ (state % 256)

btle_crcgen_lut(crc_init, data) ==
  LET state[i \in 0 .. Len(data)] ==
        IF i = 0 THEN crc_init
        ELSE (state[i - 1] \div 256) ^^ btle_crc_lut[Key(state[i - 1], data[i])]
  IN  state[Len(data)]

Reversed(n) ==
  LET r[i \in 0 .. 24] == IF i = 0 THEN 0 ELSE 2 * r[i - 1] + BitOf(n, i - 1) IN r[24]

(* The register runs backwards over the data; the result is turned round.  *)
btle_reverse_crc(crc, data) ==
  LET bits == 8 * Len(data)
      back(state, bit) ==
        LET top   == BitOf(state, 23)
            moved == ((2 * state) % 16777216) + ((top + bit) % 2)
        IN  IF top = 1 THEN moved ^^ 11845632 ELSE moved
      state[n \in 0 .. bits] ==
        IF n = 0 THEN crc
        ELSE LET at == bits - n
             IN  back(state[n - 1], BitOf(data[at \div 8 + 1], at % 8))
  IN  Reversed(state[bits])

-----------------------------------------------------------------------------
(* By how much a connection hops that comes from data channel 0 to data    *)
(* channel 1 in so many hops, of n channels.                               *)
hop_interval_lut(n) ==
  [hops \in 0 .. n - 1 |-> IF hops = 0 THEN 0 ELSE CHOOSE inc \in 1 .. n - 1 : (hops * inc) % n = 1]
==============================================================================
