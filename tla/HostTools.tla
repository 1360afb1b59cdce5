------------------------------ MODULE HostTools ------------------------------
(***************************************************************************)
(* The command line tools as what they ask of libubertooth: for each tool  *)
(* and set of options, the calls of its main() in their order.  An option  *)
(* with a value is written with an equals sign where it may be without     *)
(* one.  HostStream runs the calls.                                        *)
(***************************************************************************)
EXTENDS Integers, Sequences

(* bad: what the caller does when the call fails; it goes on, it ends, or  *)
(* it goes on with a null pointer.                                         *)
Call(op, arg, loop, bad) == <<[op |-> op, arg |-> arg, loop |-> loop, bad |-> bad]>>

Cmd(name)  == Call("cmd", name, "", "on")
Must(name) == Call("cmd", name, "", "end")
Connect(bad) == Call("connect", "", "", bad)
Handler == Call("handler", "", "", "on")
Timeout == Call("timeout", "", "", "on")
Poll    == Call("poll", "", "", "on")
Stop    == Call("stop", "", "", "on")

If(condition, calls) == IF condition THEN calls ELSE <<>>

-----------------------------------------------------------------------------
(* ubertooth.c                                                             *)

(* What fails in it is seen by none of its callers.                        *)
stream_rx_usb(cb) == Call("rx_syms", cb, "until 1", "on")

(* known: the piconet's clock is; no tool gives a piconet without.         *)
rx_live(known, timeout) ==
  If(timeout, Timeout)
  \o IF known
     THEN Cmd("set_clock") \o Call("reset", "", "", "on") \o Cmd("set_bdaddr") \o Cmd("start_hopping")
          \o stream_rx_usb("cb_br_rx")
     ELSE stream_rx_usb("cb_br_rx")

rx_afh(timeout) ==
  Cmd("set_channel")
  \o If(timeout, Timeout \o Cmd("afh") \o stream_rx_usb("cb_afh_initial") \o Cmd("stop"))
  \o Cmd("clear_afh_map") \o Cmd("afh") \o stream_rx_usb("cb_afh_monitor")

rx_afh_r == Cmd("set_channel") \o Cmd("afh") \o stream_rx_usb("cb_afh_r")

rx_dump == stream_rx_usb("cb_dump")

-----------------------------------------------------------------------------
SearchLive(o) ==
  If(o \cap {"s", "z"} # {}, Cmd("set_channel")) \o Handler \o If(o \cap {"t", "z"} # {}, Timeout)
  \o Call("rx_syms", "cb_rx", "while", "end") \o Stop

(* A file takes the place of the device, but the device must be there.     *)
ubertooth_rx(o) ==
  LET survey == "z" \in o
      wrong  == IF survey THEN o \cap {"l", "u"} # {} ELSE "u" \in o /\ "l" \notin o
  IN  If(~survey \/ ~wrong,
         Connect("end") \o If(~survey /\ {"l", "u"} \subseteq o, Cmd("set_bdaddr"))
         \o If(~wrong /\ "i" \notin o, SearchLive(o)))

(* What the host's own Bluetooth device tells it changes what it sends; a  *)
(* means that there is a channel map.  If it fails, nothing else is done.  *)
ubertooth_follow(o) ==
  Handler \o Connect("on") \o Cmd("set_bdaddr") \o If("a" \in o, Cmd("set_afh_map"))
  \o rx_live(TRUE, FALSE) \o Stop

ubertooth_scan(o) ==
  Connect("end") \o Cmd("set_channel") \o rx_live(FALSE, "t=0" \notin o) \o Stop

(* It looks for the handle in what ubertooth_start() returned.             *)
ubertooth_afh(o) ==
  If({"l", "u", "m"} \subseteq o,
     Connect("null") \o Handler \o (IF "r" \in o THEN rx_afh_r ELSE rx_afh("t" \in o)) \o Stop)

ubertooth_btle(o) ==
  LET listen == (IF "j" \in o THEN Must("set_jam_mode") ELSE Cmd("set_jam_mode"))
                \o Cmd("set_modulation")
                \o (IF "f" \in o THEN Cmd("set_channel") \o Cmd("btle_sniffing")
                    ELSE Cmd("btle_promisc"))
                \o Poll \o Stop
      configure == If("a=" \in o, Cmd("set_access_address"))
                   \o If("v=" \in o, Cmd("set_crc_verify")) \o If("v" \in o, Cmd("get_crc_verify"))
                   \o If("s" \in o, Cmd("set_channel") \o Cmd("btle_slave"))
                   \o If("t" \in o, Cmd("btle_set_target"))
  IN  Connect("end") \o Handler
      \o If(~({"f", "p"} \subseteq o),
            If(o \cap {"f", "p"} # {}, listen)
            \o IF "a" \in o THEN Cmd("get_access_address") ELSE configure)

ubertooth_dump(o) ==
  Connect("end") \o Handler \o Cmd("set_modulation") \o rx_dump \o Stop

(* Of the two ends of its loop the one that is handled is not the one that *)
(* ubertooth_bulk_receive() has for a stop.                                *)
ubertooth_specan(o) ==
  Connect("end") \o Handler \o Call("specan", "cb_specan", "until -1", "end")

(* f, r and j are the modes; without one, nothing is done.                 *)
ubertooth_ego(o) ==
  Connect("end") \o Handler
  \o If(o \cap {"f", "r", "j"} # {},
        If("r" \in o, Cmd("set_channel")) \o Must("ego") \o Poll \o Stop)

ubertooth_debug(o) == Connect("end") \o If("r" \in o, Cmd("read_register"))

-----------------------------------------------------------------------------
(* ubertooth-util                                                          *)

Leds(verb) == Cmd(verb \o "_usrled") \o Cmd(verb \o "_rxled") \o Cmd(verb \o "_txled")

Configuration(o) ==
  If("d=" \in o, Leds("set")) \o If("c=" \in o, Cmd("set_channel"))
  \o If("l=" \in o, Cmd("set_usrled")) \o If("a=" \in o, Cmd("set_palevel"))

Reports(o) ==
  If("d" \in o, Leds("get")) \o If("b" \in o, Cmd("get_board_id"))
  \o If("c" \in o, Cmd("get_channel")) \o If("v" \in o, Cmd("get_rev_num"))
  \o If("V" \in o, Cmd("get_compile_info")) \o If("l" \in o, Cmd("get_usrled"))
  \o If("a" \in o, Cmd("get_palevel")) \o If("p" \in o, Cmd("get_partnum"))
  \o If("m" \in o, Cmd("get_rangeresult")) \o If("s" \in o, Cmd("get_serial"))

(* The first of these that is given is the last that is done.              *)
Finals == <<"f", "I", "i", "q", "n", "e", "t">>
FinalCall(f) ==
  CASE f = "f" -> Cmd("flash")      [] f = "i" -> Cmd("set_isp") [] f = "q" -> Cmd("led_specan")
    [] f = "n" -> Cmd("range_test") [] f = "e" -> Cmd("repeater") [] f = "t" -> Cmd("tx_test")
    [] f = "I" -> Call("blink", "set_usrled", "", "on")

LastActions(o) ==
  IF \E i \in DOMAIN Finals : Finals[i] \in o
  THEN FinalCall(Finals[CHOOSE i \in DOMAIN Finals :
                          Finals[i] \in o /\ \A j \in 1 .. i - 1 : Finals[j] \notin o])
  ELSE If("z=" \in o, Cmd("set_squelch")) \o If("z" \in o, Cmd("get_squelch"))
       \o If("9" \in o, Cmd("do_something") \o Cmd("do_something_reply"))

(* After a reset the device is looked for again, and not whether it is     *)
(* there.                                                                  *)
ubertooth_util(o) ==
  Connect("end") \o If("r" \in o, Cmd("reset") \o Connect("null")) \o If("S" \in o, Cmd("stop"))
  \o Configuration(o) \o Reports(o) \o LastActions(o)
==============================================================================
