------------------------------ MODULE Commands ------------------------------
(* The commands of libubertooth as control transfers on endpoint 0: what   *)
(* each sends, what it makes of the result, and the host's side of a       *)
(* transfer, which may be cancelled at any point.  A few commands are      *)
(* asynchronous: they are submitted, and the caller goes on.               *)
EXTENDS UsbControl

CONSTANTS
  Issued,        \* Issued[n]: what the host may give as its n-th command
  MaxTimeouts,   \* transfers that the host gives up
  MaxResets      \* bus resets

LIBUSB_ERROR_NO_DEVICE == -4
LIBUSB_ERROR_TIMEOUT == -7
LIBUSB_ERROR_OVERFLOW == -8
LIBUSB_ERROR_PIPE == -9
LIBUSB_ERROR_OTHER == -99

-----------------------------------------------------------------------------
(* The commands: arg is what the caller passed, data and len what goes     *)
(* over the bus, result what the command makes of an answer.               *)

Command(dir, op, arg, value, data, len, result) ==
  [type |-> "VENDOR", recip |-> "DEVICE", dir |-> dir, op |-> op, arg |-> arg, value |-> value,
   index |-> 0, data |-> data, len |-> len, result |-> result, async |-> FALSE]

(* A command whose argument is wValue.                                     *)
Set(op, v) == Command("out", op, v, v % 65536, <<>>, 0, "status")
Get(op, len, result) == Command("in", op, 0, 0, <<>>, len, result)
Send(op, arg, d) == Command("out", op, arg, 0, d, Len(d), "status")

(* ubertooth_cmd_async() and its copies in cmd_set_afh_map() and cmd_hop() *)
ubertooth_cmd_async(c) == [c EXCEPT !.async = TRUE]

cmd_trim_clock(o) == ubertooth_cmd_async(Send("TRIM_CLOCK", o, BigEndian(o, 2)))
cmd_ping == Get("PING", 0, "status")
cmd_rx_syms == Set("RX_SYMBOLS", 0)
cmd_specan(lo, hi) == [Set("SPECAN", lo) EXCEPT !.arg = <<lo, hi>>, !.index = hi]
cmd_led_specan(t) == Set("LED_SPECAN", t)
cmd_set_usrled(s) == Set("SET_USRLED", s)
cmd_get_usrled == Get("GET_USRLED", 1, "byte")
cmd_set_rxled(s) == Set("SET_RXLED", s)
cmd_get_rxled == Get("GET_RXLED", 1, "byte")
cmd_set_txled(s) == Set("SET_TXLED", s)
cmd_get_txled == Get("GET_TXLED", 1, "byte")
cmd_get_modulation == Get("GET_MOD", 1, "byte")
cmd_get_channel == Get("GET_CHANNEL", 2, "little")
cmd_set_channel(c) == Set("SET_CHANNEL", c)
cmd_get_partnum == Get("GET_PARTNUM", 5, "partnum")
cmd_get_serial == Get("GET_SERIAL", 17, "serial")
cmd_set_modulation(m) == Set("SET_MOD", m)
cmd_set_isp == [Set("SET_ISP", 0) EXCEPT !.result = "leaves"]
cmd_reset == [Set("RESET", 0) EXCEPT !.result = "leaves"]
cmd_stop == Set("STOP", 0)
cmd_set_paen(s) == Set("SET_PAEN", s)
cmd_set_hgm(s) == Set("SET_HGM", s)
cmd_tx_test == Set("TX_TEST", 0)
cmd_flash == [Set("FLASH", 0) EXCEPT !.result = "flashes"]
cmd_get_palevel == Get("GET_PALEVEL", 1, "byte")
cmd_set_palevel(l) == Set("SET_PALEVEL", l)
cmd_get_rangeresult == Get("RANGE_CHECK", 5, "bytes")
cmd_range_test == Set("RANGE_TEST", 0)
cmd_repeater == Set("REPEATER", 0)
cmd_get_rev_num == Get("GET_REV_NUM", 258, "revision")
cmd_get_compile_info == Get("GET_COMPILE_INFO", 256, "text")
cmd_get_board_id == Get("GET_BOARD_ID", 1, "byte")
cmd_set_squelch(l) == Set("SET_SQUELCH", l)
cmd_get_squelch == Get("GET_SQUELCH", 1, "byte")

(* An address and its sync word, most significant byte first.              *)
cmd_set_bdaddr(a, syncword) ==
  [Send("SET_BDADDR", <<a, syncword>>, Reverse(a) \o Reverse(syncword)) EXCEPT !.result = "all"]

(* Mutant: the clock offset goes out in the order of the other clocks. *)
cmd_start_hoppingLittle(o, t) ==
  ubertooth_cmd_async(Send("START_HOPPING", <<o, t>>, LittleEndian(o, 4) \o BigEndian(t, 2)))

cmd_start_hopping(o, t) ==
  ubertooth_cmd_async(Send("START_HOPPING", <<o, t>>, BigEndian(o, 4) \o BigEndian(t, 2)))

cmd_set_clock(c) == Send("SET_CLOCK", c, LittleEndian(c, 4))
cmd_get_clock == Get("GET_CLOCK", 4, "little")
cmd_btle_sniffing(n) == Set("BTLE_SNIFFING", n)
cmd_set_afh_map(m) == ubertooth_cmd_async(Send("SET_AFHMAP", m, m))
cmd_clear_afh_map == Set("CLEAR_AFHMAP", 0)
cmd_get_access_address == Get("GET_ACCESS_ADDRESS", 4, "address")
cmd_set_access_address(a) == Send("SET_ACCESS_ADDRESS", a, Reverse(a))
cmd_do_something == Set("DO_SOMETHING", 0)
cmd_do_something_reply == Get("DO_SOMETHING_REPLY", 4, "count")
cmd_get_crc_verify == Get("GET_CRC_VERIFY", 1, "byte")
cmd_set_crc_verify(v) == Set("SET_CRC_VERIFY", v)
cmd_poll == Get("POLL", PacketSize, "count")
cmd_btle_promisc == Set("BTLE_PROMISC", 0)
cmd_read_register(r) ==
  [Command("in", "READ_REGISTER", r, r, <<>>, 2, "big") EXCEPT !.arg = r]
cmd_btle_slave(mac) == Send("BTLE_SLAVE", mac, mac)
cmd_btle_set_target(mac) == Send("BTLE_SET_TARGET", mac, mac)
cmd_set_jam_mode(m) == Set("JAM_MODE", m)
cmd_ego(m) == Set("EGO", m)
cmd_afh == Set("AFH", 0)
cmd_hop == ubertooth_cmd_async(Set("HOP", 0))

(* The operating system's own requests, and a device under test by         *)
(* Windows, which asks for the WINUSB descriptor.                          *)
Standard(dir, recip, op, value, index, len) ==
  [Command(dir, op, 0, value, <<>>, len, "bytes")
    EXCEPT !.type = "STANDARD", !.recip = recip, !.index = index]
OsFeatures(n) == [Get("0xFF", n, "bytes") EXCEPT !.index = 4]

-----------------------------------------------------------------------------
(* What a command returns, given libusb's result r and the bytes that came *)

Text(bytes, at, n) ==
  SubSeq(bytes, at, at - 1 + Smaller(Len(bytes) - at + 1, n))

Decoded(c, bytes) ==
  CASE c.result \in {"byte", "big"} -> FromBytes(bytes)
    [] c.result = "little" -> FromLittle(bytes)
    [] c.result = "address" -> Reverse(bytes)
    [] c.result = "partnum" -> IF bytes[1] # 0 THEN 0 ELSE FromLittle(SubSeq(bytes, 2, 5))
    [] c.result = "serial" -> IF bytes[1] # 0 THEN 1 ELSE 0
    [] c.result = "revision" -> Text(bytes, 4, Smaller(254, bytes[3]))
    [] c.result = "text" -> Text(bytes, 2, Smaller(254, bytes[1]))
    [] c.result = "count" -> Len(bytes)
    [] c.result = "bytes" -> bytes
    [] OTHER -> 0

(* An answer that breaks off before the bytes a command looks at: it goes  *)
(* by what its buffer happened to hold.                                    *)
TooShort(c, bytes) ==
  \/ c.result \in {"byte", "big", "little", "address", "partnum", "serial"} /\ Len(bytes) < c.len
  \/ c.result = "revision" /\ Len(bytes) < 3
  \/ c.result = "text" /\ Len(bytes) < 1

(* The errors that mean success: the device is gone.                       *)
Expected(c) ==
  CASE c.result = "leaves" -> {LIBUSB_ERROR_PIPE, LIBUSB_ERROR_OTHER, LIBUSB_ERROR_NO_DEVICE}
    [] c.result = "flashes" -> {LIBUSB_ERROR_PIPE, LIBUSB_ERROR_OTHER}
    [] OTHER -> {}

Return(c, r, bytes) ==
  IF r \in Expected(c) THEN 0
  ELSE IF r < 0 THEN r
  ELSE IF c.result = "all" THEN IF r < c.len THEN 1 ELSE 0
  ELSE IF TooShort(c, bytes) THEN "garbage"
  ELSE Decoded(c, bytes)

-----------------------------------------------------------------------------
VARIABLES
  queue,      \* the transfers of endpoint 0, in the order of submission
  stage,      \* of the transfer in front: "setup", "data" or "status"
  got,        \* the bytes it has carried
  last,       \* the transfer that ended last: its id and command, libusb's r,
              \* and the bytes that came
  issued, timeouts, resets

hostVars == <<queue, stage, got, last, issued, timeouts, resets>>
vars == <<deviceVars, hostVars>>

CommandsInit(f) ==
  /\ DeviceInit(f)
  /\ queue = <<>> /\ stage = "setup" /\ got = <<>>
  /\ last = [id |-> 0, c |-> cmd_ping, r |-> 0, bytes |-> <<>>]
  /\ issued = 0 /\ timeouts = 0 /\ resets = 0

(* The host gives a command: a synchronous one only when the last          *)
(* synchronous one has returned.                                           *)
Issue(c) ==
  /\ c.async \/ \A i \in DOMAIN queue : queue[i].async
  /\ issued' = issued + 1
  /\ queue' = Append(queue, c @@ [id |-> issued + 1])
  /\ UNCHANGED <<deviceVars, stage, got, last, timeouts, resets>>

(* The transfer in front ends with result r.                               *)
Finish(r) ==
  LET c == Head(queue)
  IN  /\ last' = [id |-> c.id, c |-> c, r |-> r, bytes |-> got]
      /\ queue' = Tail(queue) /\ stage' = "setup" /\ got' = <<>>
      /\ UNCHANGED <<issued, resets>>

InStage(s) == Running /\ queue # <<>> /\ stage = s

Goto(s) == stage' = s /\ UNCHANGED <<queue, last, issued, timeouts, resets>>

SendSetup ==
  /\ InStage("setup")
  /\ TakeSetup(Head(queue))
  /\ Goto(IF Head(queue).len = 0 THEN "status" ELSE "data")
  /\ got' = got

(* A short packet ends the data, and so do all the bytes asked for.        *)
ReceiveData ==
  /\ InStage("data") /\ Head(queue).dir = "in"
  /\ GiveIn
  /\ got' = got \o inbuf[1]
  /\ Goto(IF Len(inbuf[1]) < MaxPacket \/ Len(got') >= Head(queue).len
          THEN "status" ELSE "data")

SendData ==
  /\ InStage("data") /\ Head(queue).dir = "out"
  /\ LET d == Head(queue).data
         n == Smaller(Len(d), Len(got) + MaxPacket)
     IN  /\ TakeOut(SubSeq(d, Len(got) + 1, n))
         /\ got' = SubSeq(d, 1, n)
         /\ Goto(IF n = Len(d) THEN "status" ELSE "data")

(* The status stage runs against the data; a packet with data in it is an  *)
(* error.                                                                  *)
Acknowledge ==
  /\ InStage("status") /\ Head(queue).dir = "in" /\ Head(queue).len > 0
  /\ TakeOut(<<>>)
  /\ Finish(Len(got)) /\ timeouts' = timeouts

Acknowledged ==
  /\ InStage("status") /\ (Head(queue).dir = "out" \/ Head(queue).len = 0)
  /\ GiveIn
  /\ Finish(IF inbuf[1] = <<>> THEN Len(got) ELSE LIBUSB_ERROR_OVERFLOW)
  /\ timeouts' = timeouts

Stalled ==
  /\ \/ InStage("data") \/ InStage("status")
  /\ stalled
  /\ Finish(LIBUSB_ERROR_PIPE)
  /\ UNCHANGED <<deviceVars, timeouts>>

TimeOut ==
  /\ Running /\ queue # <<>> /\ timeouts < MaxTimeouts
  /\ Finish(LIBUSB_ERROR_TIMEOUT)
  /\ timeouts' = timeouts + 1
  /\ UNCHANGED deviceVars

(* The device has left the bus.                                            *)
Vanished ==
  /\ ~Running /\ queue # <<>>
  /\ \E r \in {LIBUSB_ERROR_PIPE, LIBUSB_ERROR_OTHER, LIBUSB_ERROR_NO_DEVICE} : Finish(r)
  /\ UNCHANGED <<deviceVars, timeouts>>

(* The main loop comes to a requested reset.                               *)
Restart ==
  /\ Running /\ fw.requested_mode = "MODE_RESET"
  /\ fw' = [fw EXCEPT !.image = "reset"]
  /\ UNCHANGED <<endpointVars, Setup, iResidue, pbData, store, usb, served, hostVars>>

Reset ==
  /\ Running /\ resets < MaxResets /\ queue = <<>>
  /\ resets' = resets + 1
  /\ ResetBus
  /\ UNCHANGED <<queue, stage, got, last, issued, timeouts>>

Transfer == SendSetup \/ ReceiveData \/ SendData \/ Acknowledge \/ Acknowledged \/ Stalled
              \/ Vanished

CommandsNext ==
  \/ Running /\ issued < Len(Issued) /\ \E c \in Issued[issued + 1] : Issue(c)
  \/ Transfer \/ TimeOut \/ Reset \/ Restart
  \/ (IsrOut \/ IsrIn) /\ UNCHANGED hostVars

(* The device's interrupt is served, or handle_usb() is called again and   *)
(* again, and the host's controller keeps asking.  Nothing has to time out *)
(* and nobody has to reset the bus.                                        *)
CommandsFair ==
  /\ WF_scan((IsrOut \/ IsrIn) /\ UNCHANGED hostVars)
  /\ WF_<<stage, Len(queue), Len(got)>>(Transfer)

-----------------------------------------------------------------------------
(* The type invariant, of the host's and the device's variables.           *)
ControlTypesOK ==
  /\ epint \subseteq {"in", "out"} /\ scan \in {"idle", "in"}
  /\ Len(inbuf) <= 1 /\ (inbuf # <<>> => Len(inbuf[1]) <= MaxPacket)
  /\ Len(outbuf) <= 1 /\ ("out" \in epint <=> outbuf # <<>>)
  /\ stalled \in BOOLEAN /\ late \in BOOLEAN
  /\ iResidue \in Int
  /\ stage \in {"setup", "data", "status"}
  /\ Len(queue) <= Len(Issued) /\ issued \in 0 .. Len(Issued)
  /\ timeouts \in 0 .. MaxTimeouts /\ resets \in 0 .. MaxResets
  /\ usb.realised \subseteq BulkEndpoints

(* Handlers run in the order in which the host submitted the transfers,    *)
(* and never twice for one, whatever is cancelled, answered late or reset: *)
(* USBHandleControlTransfer() has no other idea of a transfer than its     *)
(* residue.                                                                *)
ServedInOrder == [][served'.id > served.id]_served

(* What a control transfer reports is what happened.  A transfer that      *)
(* succeeds was served by its own handler, once, and brought the beginning *)
(* of that handler's answer; one that stalls was refused by its own        *)
(* handler.  The one exception is a SETUP that is served while the IN      *)
(* interrupt of the transfer before it is still pending: USBHwISR() then   *)
(* feeds the old interrupt to the new transfer.                            *)
TruthfulResult ==
  [][ ~late /\ last'.r \in Nat \cup {LIBUSB_ERROR_PIPE} /\ Running =>
        /\ served.id = last'.id /\ served.times = 1
        /\ served.ok <=> last'.r # LIBUSB_ERROR_PIPE
        /\ last'.r >= 0 /\ last'.c.dir = "in" =>
             last'.bytes = SubSeq(served.answer, 1, Smaller(Len(served.answer), last'.c.len))
    ]_(last.id)

(* What a caller of libubertooth means by a command: what it set is what   *)
(* the firmware holds, and what it got is what the firmware holds.  The    *)
(* bytes of each word are put together by hand at both ends, in both       *)
(* orders.                                                                 *)
Meant(c, value) ==
  CASE c.op = "TRIM_CLOCK" -> fw.clk100ns_offset = c.arg
    [] c.op = "START_HOPPING" -> <<fw.clkn_offset, fw.clk100ns_offset>> = c.arg
    [] c.op = "SET_CLOCK" -> fw.clkn = c.arg
    [] c.op = "GET_CLOCK" -> value = fw.clkn
    [] c.op = "SET_CHANNEL" ->
         c.arg \in MIN_FREQ .. MAX_FREQ =>
           c.arg = IF fw.mode = "MODE_BT_FOLLOW_LE" THEN fw.requested_channel ELSE fw.channel
    [] c.op = "GET_CHANNEL" -> value = fw.channel
    [] c.op = "SET_BDADDR" -> <<fw.target.address, fw.target.access_code>> = c.arg
    [] c.op = "SET_AFHMAP" -> fw.afh_map = c.arg
    [] c.op = "SET_ACCESS_ADDRESS" -> fw.access_address = c.arg
    [] c.op = "GET_ACCESS_ADDRESS" -> value = fw.access_address
    [] c.op = "SPECAN" -> <<fw.low_freq, fw.high_freq>> = c.arg
    [] c.op = "LED_SPECAN" -> c.arg \in Byte => Low(fw.rssi_threshold) = c.arg
    [] c.op = "SET_SQUELCH" -> fw.cs_threshold_req = c.arg
    [] c.op = "GET_SQUELCH" -> value = Low(fw.cs_threshold_req)
    [] c.op = "SET_PALEVEL" -> fw.reg[FREND] = 8 + c.arg
    [] c.op = "GET_PALEVEL" -> value = fw.reg[FREND] % 8
    [] c.op = "READ_REGISTER" -> value = fw.reg[c.arg]
    [] c.op = "BTLE_SLAVE" -> fw.slave_mac_address = c.arg
    [] c.op = "BTLE_SET_TARGET" -> Reverse(fw.le_target) = c.arg
    [] c.op = "GET_REV_NUM" -> value = Revision
    [] c.op = "GET_COMPILE_INFO" -> value = compile_info
    [] c.op = "GET_SERIAL" -> value = 0
    [] OTHER -> TRUE

CommandsMeanIt ==
  [][~late /\ last'.r >= 0 => Meant(last'.c, Return(last'.c, last'.r, last'.bytes))]_(last.id)

(* Every transfer ends without the help of a timeout: the device answers,  *)
(* stalls or leaves, and never waits for data while the host waits for an  *)
(* answer.                                                                 *)
TransfersEnd == []<>(queue = <<>>)
=============================================================================
