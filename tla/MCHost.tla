------------------------------- MODULE MCHost -------------------------------
(* Module Host with the calls of the command line tools, and small         *)
(* parameters for the callbacks and for Kismet.                            *)
EXTENDS Host, HostTools

(* Of each tool the options between which its calls differ.                *)
Given ==
  [rx      |-> ubertooth_rx({"l", "u", "t"}),     survey |-> ubertooth_rx({"z"}),
   scan    |-> ubertooth_scan({}),                follow |-> ubertooth_follow({"a"}),
   afh     |-> ubertooth_afh({"l", "u", "m", "t"}),
   afh_r   |-> ubertooth_afh({"l", "u", "m", "r"}),
   sniff   |-> ubertooth_btle({"f", "a"}),        promisc |-> ubertooth_btle({"p", "j"}),
   slave   |-> ubertooth_btle({"a=", "v=", "s", "t"}),
   dump    |-> ubertooth_dump({}),                specan |-> ubertooth_specan({}),
   ego     |-> ubertooth_ego({"r"}),              debug |-> ubertooth_debug({"r"}),
   restart |-> ubertooth_util({"r", "S", "d=", "c", "f"}),
   squelch |-> ubertooth_util({"c=", "l=", "a=", "b", "z=", "z", "9"}),
   blink   |-> ubertooth_util({"I"})]

CallbacksUsed == {"cb_br_rx", "cb_rx", "cb_btle", "cb_ego", "cb_afh_initial", "cb_afh_monitor"}
FewChannels == 0 .. 4

(* Whatever options it is given, a tool's calls are Orderly: of each tool  *)
(* those that its main() tells apart, and of ubertooth-util any three.     *)
ASSUME OptionsKeepOrder ==
  /\ \A o \in SUBSET {"l", "u", "t", "z", "s", "i"} : T!Orderly(ubertooth_rx(o))
  /\ \A o \in SUBSET {"a"} : T!Orderly(ubertooth_follow(o))
  /\ \A o \in SUBSET {"t=0"} : T!Orderly(ubertooth_scan(o))
  /\ \A o \in SUBSET {"l", "u", "m", "r", "t"} : T!Orderly(ubertooth_afh(o))
  /\ \A o \in SUBSET {"f", "p", "a", "j", "a=", "v=", "v", "s", "t"} : T!Orderly(ubertooth_btle(o))
  /\ \A o \in SUBSET {"f", "r", "j"} : T!Orderly(ubertooth_ego(o))
  /\ \A o \in SUBSET {"r"} : T!Orderly(ubertooth_debug(o))
  /\ T!Orderly(ubertooth_dump({})) /\ T!Orderly(ubertooth_specan({}))
  /\ LET Options == {"r", "S", "d=", "c=", "l=", "a=", "d", "b", "c", "v", "V", "l", "a", "p", "m",
                     "s", "f", "I", "i", "q", "n", "e", "t", "z=", "z", "9"}
     IN  \A x, y, z \in Options : T!Orderly(ubertooth_util({x, y, z}))
=============================================================================
