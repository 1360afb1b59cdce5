--------------------------- MODULE VendorRequests ---------------------------
(* The vendor requests of the firmware, as what each does to the state of  *)
(* the firmware and what it answers.  A request is                         *)
(* [op, value, index, data]: the name after UBERTOOTH_, request_params[0], *)
(* request_params[1] and the data of an OUT request.  Bytes are numbers;   *)
(* words that do not fit TLC's integers are tuples of bytes, most          *)
(* significant first.  The registers are the CC2400's.                     *)
EXTENDS Integers, Sequences, SequencesExt, FiniteSets

CONSTANTS
  PacketSize,         \* sizeof(usb_pkt_rx)
  Revision,           \* GIT_REVISION, as a sequence of bytes
  compile_info        \* as a sequence of bytes

Byte == 0 .. 255
MIN_FREQ == 2268
MAX_FREQ == 2794
FREND == 5

-----------------------------------------------------------------------------
(* Words and their bytes                                                   *)

Low(v) == v % 256
LittleEndian(v, n) == [i \in 1 .. n |-> (v \div 256 ^ (i - 1)) % 256]
FromBytes(d) == FoldLeft(LAMBDA high, b : 256 * high + b, 0, d)
FromLittle(d) == FromBytes(Reverse(d))
BigEndian(v, n) == Reverse(LittleEndian(v, n))
Int8(v) == IF Low(v) < 128 THEN Low(v) ELSE Low(v) - 256
Bit(b) == IF b THEN 1 ELSE 0

-----------------------------------------------------------------------------
(* The part of the firmware's state that requests read and write           *)

Pin == {"USRLED", "RXLED", "TXLED", "1V8", "PAEN", "HGM"}

(* The firmware as it starts, of a given build, in mode m, with packets q  *)
(* in the queue.                                                           *)
Started(build, m, q) ==
  [build |-> build, image |-> "firmware", mode |-> m, requested_mode |-> m,
   pin |-> [p \in Pin |-> Bit(p = "1V8")], reg |-> (0 :> 32768 @@ FREND :> 15),
   modulation |-> 0, channel |-> 2441, requested_channel |-> 0,
   hop_mode |-> "HOP_NONE", do_hop |-> 0, dma_discard |-> 0,
   low_freq |-> 2400, high_freq |-> 2483, rssi_threshold |-> -30,
   cs_threshold_req |-> -120, cs_threshold_cur |-> -120,
   target |-> [address |-> <<>>, access_code |-> <<>>],
   clkn |-> 0, clkn_offset |-> 0, clk100ns_offset |-> 0,
   afh_map |-> [i \in 1 .. 10 |-> 0], afh_enabled |-> 0, used_channels |-> 0,
   access_address |-> <<142, 137, 190, 214>>, target_set |-> 0, crc_verify |-> 1,
   le_target |-> <<>>, slave_mac_address |-> <<>>,
   jam_mode |-> 0, ego_mode |-> 0, fifo |-> q]

(* The threshold follows the strongest signal only where hop() keeps track *)
(* of it; rssi_iir is 0 until a receiver has run.                          *)
cs_threshold_calc_and_set(fw) ==
  LET level == IF fw.hop_mode # "HOP_NONE" /\ fw.cs_threshold_req > 0
               THEN fw.cs_threshold_req - 54
               ELSE fw.cs_threshold_req
  IN  [fw EXCEPT !.cs_threshold_cur =
         IF level < -120 THEN -120 ELSE IF level > -20 THEN -20 ELSE level]

-----------------------------------------------------------------------------
Reply(fw, bytes) == [ok |-> TRUE, fw |-> fw, data |-> bytes]
Done(fw) == Reply(fw, <<>>)
Failed(fw) == [ok |-> FALSE, fw |-> fw, data |-> <<>>]

GetPin(fw, p) == Reply(fw, <<fw.pin[p]>>)
SetPin(fw, p, v) == Done([fw EXCEPT !.pin[p] = Bit(v # 0)])

RequestMode(fw, m) == Done([fw EXCEPT !.requested_mode = m])

(* Part number and serial number come from the ROM, after its status.      *)
RomWords(n) == [i \in 1 .. 4 * n |-> 16 + i]

(* In MODE_BT_FOLLOW_LE the channel waits for hop().                       *)
SetChannel(fw, v) ==
  LET sweep == v > MAX_FREQ
      f     == IF sweep THEN 2402 ELSE IF v < MIN_FREQ THEN MIN_FREQ ELSE v
      set   == [fw EXCEPT !.hop_mode = IF sweep THEN "HOP_SWEEP" ELSE "HOP_NONE"]
  IN  Done(IF fw.mode = "MODE_BT_FOLLOW_LE"
           THEN [set EXCEPT !.requested_channel = f]
           ELSE cs_threshold_calc_and_set(
                  [set EXCEPT !.channel = f, !.requested_channel = 0]))

(* Mutant: the bytes of the clock are taken in the order of START_HOPPING. *)
SetClockBig(fw, d) ==
  Done(cs_threshold_calc_and_set([fw EXCEPT !.clkn = FromBytes(SubSeq(d, 1, 4))]))

SetClock(fw, d) ==
  Done(cs_threshold_calc_and_set([fw EXCEPT !.clkn = FromLittle(SubSeq(d, 1, 4))]))

StartHopping(fw, d) ==
  Done([fw EXCEPT !.clkn_offset = FromBytes(SubSeq(d, 1, 4)),
                  !.hop_mode = "HOP_BLUETOOTH", !.dma_discard = 1,
                  !.clk100ns_offset = FromBytes(SubSeq(d, 5, 6)),
                  !.requested_mode = "MODE_BT_FOLLOW"])

Frequencies == 2049 .. 3072

(* queue_init() and the receiver's squelch come with the mode.             *)
RequestLe(fw, hop, m) ==
  Done(cs_threshold_calc_and_set(
    [fw EXCEPT !.hop_mode = hop, !.requested_mode = m, !.fifo = <<>>,
               !.do_hop = IF hop = "HOP_BTLE" THEN 0 ELSE @]))

Poll(fw) ==
  IF fw.fifo = <<>> THEN Reply(fw, <<0>>)
  ELSE Reply([fw EXCEPT !.fifo = Tail(@)], [i \in 1 .. PacketSize |-> Head(fw.fifo)])

-----------------------------------------------------------------------------
(* The requests in the order of the switch                                 *)

LowEnergyRequest(fw, r) ==
  CASE r.op = "GET_ACCESS_ADDRESS" -> Reply(fw, Reverse(fw.access_address))
    [] r.op = "SET_ACCESS_ADDRESS" ->
         Done([fw EXCEPT !.access_address = Reverse(SubSeq(r.data, 1, 4)), !.target_set = 1])
    [] r.op = "DO_SOMETHING" -> Done(fw)
    [] r.op = "DO_SOMETHING_REPLY" -> Reply(fw, <<19, 55>>)
    [] r.op = "GET_CRC_VERIFY" -> Reply(fw, <<fw.crc_verify>>)
    [] r.op = "SET_CRC_VERIFY" -> Done([fw EXCEPT !.crc_verify = Bit(r.value # 0)])
    [] r.op = "POLL" -> Poll(fw)
    [] r.op = "BTLE_PROMISC" -> RequestLe(fw, "HOP_NONE", "MODE_BT_PROMISC_LE")
    [] r.op = "READ_REGISTER" -> Reply(fw, BigEndian(fw.reg[Low(r.value)], 2))
    [] r.op = "WRITE_REGISTER" -> Done([fw EXCEPT !.reg[Low(r.value)] = r.index])
    [] r.op = "BTLE_SLAVE" ->
         RequestMode([fw EXCEPT !.slave_mac_address = SubSeq(r.data, 1, 6)], "MODE_BT_SLAVE_LE")
    [] r.op = "BTLE_SET_TARGET" ->
         Done([fw EXCEPT !.le_target = Reverse(SubSeq(r.data, 1, 6)), !.target_set = 1])
    [] r.op = "JAM_MODE" /\ "TX_ENABLE" \in fw.build -> Done([fw EXCEPT !.jam_mode = Low(r.value)])
    [] r.op = "EGO" ->
         IF "TX_ENABLE" \notin fw.build /\ fw.ego_mode = 2 THEN Failed(fw)
         ELSE RequestMode([fw EXCEPT !.ego_mode = Low(r.value)], "MODE_EGO")
    [] OTHER -> Failed(fw)

HoppingRequest(fw, r) ==
  CASE r.op = "SET_BDADDR" ->
         Done([fw EXCEPT !.target = [address     |-> Reverse(SubSeq(r.data, 1, 8)),
                                     access_code |-> Reverse(SubSeq(r.data, 9, 16))]])
    [] r.op = "START_HOPPING" -> StartHopping(fw, r.data)
    [] r.op = "AFH" ->
         RequestMode([fw EXCEPT !.hop_mode = "HOP_AFH", !.afh_map = [i \in 1 .. 10 |-> 0],
                                !.used_channels = 0, !.afh_enabled = 1], "MODE_AFH")
    [] r.op = "HOP" -> Done([fw EXCEPT !.do_hop = 1])
    [] r.op = "SET_CLOCK" -> SetClock(fw, r.data)
    [] r.op = "SET_AFHMAP" ->
         Done([fw EXCEPT !.afh_map = SubSeq(r.data, 1, 10), !.afh_enabled = 1])
    [] r.op = "CLEAR_AFHMAP" ->
         Done([fw EXCEPT !.afh_map = [i \in 1 .. 10 |-> 0], !.afh_enabled = 0])
    [] r.op = "GET_CLOCK" -> Reply(fw, LittleEndian(fw.clkn, 4))
    [] r.op = "TRIM_CLOCK" ->
         Done([fw EXCEPT !.clk100ns_offset = FromBytes(SubSeq(r.data, 1, 2))])
    [] r.op = "BTLE_SNIFFING" -> RequestLe(fw, "HOP_BTLE", "MODE_BT_FOLLOW_LE")
    [] OTHER -> LowEnergyRequest(fw, r)

RadioRequest(fw, r) ==
  CASE r.op = "STOP" -> RequestMode(fw, "MODE_IDLE")
    [] r.op = "GET_MOD" -> Reply(fw, <<fw.modulation>>)
    [] r.op = "SET_MOD" -> Done([fw EXCEPT !.modulation = Low(r.value)])
    [] r.op = "GET_CHANNEL" -> Reply(fw, LittleEndian(fw.channel, 2))
    [] r.op = "SET_CHANNEL" -> SetChannel(fw, r.value)
    [] r.op = "SET_ISP" -> Done([fw EXCEPT !.image = "isp"])
    [] r.op = "FLASH" -> Done([fw EXCEPT !.image = "bootloader"])
    [] r.op = "SPECAN" ->
         IF {r.value, r.index} \subseteq Frequencies /\ r.value <= r.index
         THEN RequestMode([fw EXCEPT !.low_freq = r.value, !.high_freq = r.index], "MODE_SPECAN")
         ELSE Failed(fw)
    [] r.op = "LED_SPECAN" ->
         IF r.value > 256 THEN Failed(fw)
         ELSE RequestMode([fw EXCEPT !.rssi_threshold = Int8(r.value)], "MODE_LED_SPECAN")
    [] r.op = "GET_REV_NUM" -> Reply(fw, <<0, 0, Len(Revision)>> \o Revision)
    [] r.op = "GET_COMPILE_INFO" -> Reply(fw, <<Len(compile_info)>> \o compile_info)
    [] r.op = "GET_BOARD_ID" -> Reply(fw, <<Bit("UBERTOOTH_ONE" \in fw.build)>>)
    [] r.op = "SET_SQUELCH" ->
         Done(cs_threshold_calc_and_set([fw EXCEPT !.cs_threshold_req = Int8(r.value)]))
    [] r.op = "GET_SQUELCH" -> Reply(fw, <<Low(fw.cs_threshold_req)>>)
    [] OTHER -> HoppingRequest(fw, r)

vendor_request_handler(fw, r) ==
  CASE r.op = "PING" -> Done(fw)
    [] r.op = "RX_SYMBOLS" -> RequestMode(fw, "MODE_RX_SYMBOLS")
    [] r.op = "GET_USRLED" -> GetPin(fw, "USRLED")
    [] r.op = "SET_USRLED" -> SetPin(fw, "USRLED", r.value)
    [] r.op = "GET_RXLED" -> GetPin(fw, "RXLED")
    [] r.op = "SET_RXLED" -> SetPin(fw, "RXLED", r.value)
    [] r.op = "GET_TXLED" -> GetPin(fw, "TXLED")
    [] r.op = "SET_TXLED" -> SetPin(fw, "TXLED", r.value)
    [] r.op = "GET_1V8" -> GetPin(fw, "1V8")
    [] r.op = "SET_1V8" -> SetPin(fw, "1V8", r.value)
    [] r.op = "GET_PARTNUM" -> Reply(fw, <<0>> \o RomWords(1))
    [] r.op = "RESET" -> RequestMode(fw, "MODE_RESET")
    [] r.op = "GET_SERIAL" -> Reply(fw, <<0>> \o RomWords(4))
    [] r.op = "GET_PAEN" /\ "UBERTOOTH_ONE" \in fw.build -> GetPin(fw, "PAEN")
    [] r.op = "SET_PAEN" /\ "UBERTOOTH_ONE" \in fw.build -> SetPin(fw, "PAEN", r.value)
    [] r.op = "GET_HGM" /\ "UBERTOOTH_ONE" \in fw.build -> GetPin(fw, "HGM")
    [] r.op = "SET_HGM" /\ "UBERTOOTH_ONE" \in fw.build -> SetPin(fw, "HGM", r.value)
    [] r.op = "TX_TEST" /\ "TX_ENABLE" \in fw.build -> RequestMode(fw, "MODE_TX_TEST")
    [] r.op = "GET_PALEVEL" /\ "TX_ENABLE" \in fw.build -> Reply(fw, <<fw.reg[FREND] % 8>>)
    [] r.op = "SET_PALEVEL" /\ "TX_ENABLE" \in fw.build ->
         IF r.value < 8 THEN Done([fw EXCEPT !.reg[FREND] = 8 + r.value]) ELSE Failed(fw)
    [] r.op = "RANGE_TEST" /\ "TX_ENABLE" \in fw.build -> RequestMode(fw, "MODE_RANGE_TEST")
    [] r.op = "REPEATER" /\ "TX_ENABLE" \in fw.build -> RequestMode(fw, "MODE_REPEATER")
    [] r.op = "RANGE_CHECK" -> Reply(fw, <<0, 0, 0, 0, 0>>)
    [] OTHER -> RadioRequest(fw, r)
=============================================================================
