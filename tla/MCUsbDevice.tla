---------------------------- MODULE MCUsbDevice ----------------------------
(* The USB device: the commands of the host against the control transfers  *)
(* of the firmware.  Every command comes first once, and a few of each     *)
(* kind come after it.  A packet of endpoint 0 has 16 bytes, so that an    *)
(* answer of more than one packet, of exactly one and of exactly two occur *)
(* and, as with the real 64, no command sends more than one.  Or, instead, *)
(* the USB serial port with the program that sends all back, in rings of   *)
(* four characters and packets of two.                                     *)
EXTENDS Commands

VARIABLES
  who,
  txfifo, rxfifo, fBulkInBusy, fChainDone, step, c, OutBuffers, OutInterrupt, InBuffer, sent,
  returned, dropped, busResets

Serial == INSTANCE UsbSerial WITH
            VCOM_FIFO_SIZE <- 4, MAX_PACKET_SIZE <- 2, MaxChars <- 6, MaxBusResets <- 1,
            resets <- busResets

ASSUME Serial!SerialAssumption

MCRevision == [i \in 1 .. 13 |-> 64 + i]
MCCompileInfo == [i \in 1 .. 20 |-> 96 + i]
Eight == <<1, 2, 3, 4, 5, 6, 7, 8>>
Six == SubSeq(Eight, 1, 6)
Ten == Eight \o <<9, 10>>

Plain ==
  {cmd_ping, cmd_rx_syms, cmd_set_usrled(1), cmd_get_usrled, cmd_set_rxled(2), cmd_get_rxled,
   cmd_set_txled(1), cmd_get_txled, cmd_get_modulation, cmd_get_channel, cmd_set_channel(2402),
   cmd_set_channel(2000), cmd_set_channel(9999), cmd_get_partnum, cmd_get_serial,
   cmd_set_modulation(1), cmd_set_isp, cmd_reset, cmd_stop, cmd_set_paen(1), cmd_set_hgm(1),
   cmd_tx_test, cmd_flash, cmd_get_palevel, cmd_set_palevel(5), cmd_set_palevel(8),
   cmd_get_rangeresult, cmd_range_test, cmd_repeater, cmd_get_rev_num, cmd_get_compile_info,
   cmd_get_board_id, cmd_set_squelch(-90), cmd_get_squelch, cmd_led_specan(200),
   cmd_led_specan(-30), cmd_specan(2402, 2480), cmd_specan(2480, 2402)}

Clocked ==
  {cmd_trim_clock(1000), cmd_set_bdaddr(Eight, Reverse(Eight)), cmd_start_hopping(70000, 600),
   cmd_set_clock(66051), cmd_get_clock, cmd_btle_sniffing(2), cmd_set_afh_map(Ten),
   cmd_clear_afh_map, cmd_get_access_address, cmd_set_access_address(SubSeq(Eight, 1, 4)),
   cmd_do_something, cmd_do_something_reply, cmd_get_crc_verify, cmd_set_crc_verify(0), cmd_poll,
   cmd_btle_promisc, cmd_read_register(0), cmd_btle_slave(Six), cmd_btle_set_target(Six),
   cmd_set_jam_mode(1), cmd_ego(1), cmd_afh, cmd_hop}

System ==
  {Standard("in", "DEVICE", "GET_DESCRIPTOR", "DEVICE", 0, 18),
   Standard("in", "DEVICE", "GET_DESCRIPTOR", "CONFIGURATION", 0, 255),
   Standard("in", "DEVICE", "GET_DESCRIPTOR", "CONFIGURATION", 0, 9),
   Standard("in", "DEVICE", "GET_DESCRIPTOR", "STRING", 7, 255),
   Standard("in", "DEVICE", "GET_DESCRIPTOR", "STRING", 238, 18),
   Standard("out", "DEVICE", "SET_ADDRESS", 5, 0, 0),
   Standard("out", "DEVICE", "SET_CONFIGURATION", 1, 0, 0),
   Standard("out", "DEVICE", "SET_CONFIGURATION", 0, 0, 0),
   Standard("in", "DEVICE", "GET_CONFIGURATION", 0, 0, 1),
   Standard("in", "DEVICE", "GET_STATUS", 0, 0, 2),
   Standard("in", "INTERFACE", "GET_STATUS", 0, 0, 2),
   Standard("out", "INTERFACE", "SET_INTERFACE", 0, 0, 0),
   Standard("in", "INTERFACE", "GET_INTERFACE", 0, 0, 1),
   Standard("out", "ENDPOINT", "SET_FEATURE", "ENDPOINT_HALT", "0x82", 0),
   Standard("out", "ENDPOINT", "CLEAR_FEATURE", "ENDPOINT_HALT", "0x82", 0),
   Standard("in", "ENDPOINT", "GET_STATUS", 0, "0x82", 2),
   OsFeatures(16), OsFeatures(40)}

AfterAny ==
  {cmd_start_hopping(70000, 600), cmd_get_serial, cmd_get_clock, cmd_hop}

MCIssued == <<Plain \cup Clocked \cup System, AfterAny>>

Firmwares ==
  {Started({"TX_ENABLE", "UBERTOOTH_ONE"}, "MODE_IDLE", <<7>>),
   Started({}, "MODE_BT_FOLLOW_LE", <<>>)}

serialVars == <<txfifo, rxfifo, fBulkInBusy, fChainDone, step, c, OutBuffers, OutInterrupt, InBuffer,
                sent, returned, dropped, busResets>>
allVars == <<who, vars, serialVars>>

Init ==
  /\ who \in {"commands", "serial"} /\ Serial!Init
  /\ \E f \in Firmwares : CommandsInit(f) /\ (who = "serial" => f.mode = "MODE_IDLE")

CommandsRun == who = "commands" /\ UNCHANGED <<who, serialVars>>
SerialRuns  == who = "serial" /\ UNCHANGED <<who, vars>>

Next == (CommandsRun /\ CommandsNext) \/ (SerialRuns /\ Serial!Next)

Spec ==
  /\ Init /\ [][Next]_allVars
  /\ CommandsFair
  /\ WF_serialVars(SerialRuns /\ Serial!Interrupt)
  /\ WF_serialVars(SerialRuns /\ Serial!main)

(* Transfers are served in the order of their submission, and characters   *)
(* come back in the order in which they were sent.                         *)
InOrder ==
  ServedInOrder /\ [](Serial!CharactersInOrder /\ Serial!ChainsEnd)

(* Every transfer ends, and so does sending back what came.                *)
AllEnds == TransfersEnd /\ Serial!SentBack
=============================================================================
