---------------------------- MODULE KismetSource ----------------------------
(***************************************************************************)
(* The plugin for Kismet: a thread that captures packets, the queue and    *)
(* the pipe with which it wakes Kismet's main loop, what the main loop     *)
(* makes of the packets, and the tracker that tells clients of networks.   *)
(*                                                                         *)
(* packet_lock is held for the whole of enqueue() and for the whole of     *)
(* Poll() but the read before it, so that each is one action; CloseSource  *)
(* and Poll() are called by the same thread.                               *)
(***************************************************************************)
EXTENDS Integers, Sequences

CONSTANTS
  Laps, Inquiry,  \* Inquiry: those of GIAC and LIAC
  Limit,          \* 20
  MaxPackets      \* bound: packets that are found

KismetAssumption == Limit \in Nat /\ MaxPackets \in Nat /\ Inquiry \subseteq Laps

VARIABLES
  main,           \* "new", "idle", "draining" in Poll(), "joining", "closed", "gone"
  thread,         \* "none", "start", "loop", "wait", "found", "exit", "done"
  thread_active,
  ut,             \* "init", "NULL", "open", "closed"; "misused" if it is closed again
  lost,           \* the device left
  found,          \* the packet that the thread has at hand
  packet_queue, pending_packet,
  bytes,          \* in the pipe
  piconets,
  first_nets, tracked_nets, dirty,
  num_packets,    \* of each network
  told,           \* history: num_packets as clients were last told of it
  failed,         \* history: the networks of which a client could not be told
  count           \* history: packets found, dropped and processed

pipe    == <<packet_queue, pending_packet, bytes>>
tracker == <<first_nets, tracked_nets, dirty, num_packets, told, failed>>
vars == <<main, thread, thread_active, ut, lost, found, packet_queue, pending_packet, bytes, piconets,
          first_nets, tracked_nets, dirty, num_packets, told, failed, count>>

-----------------------------------------------------------------------------
(* Opening and closing                                                     *)

OpenSource ==
  /\ main = "new"
  /\ \/ ~lost /\ ut' = "open" /\ main' = "idle" /\ thread' = "start" /\ thread_active' = 1
     \/ ut' = "NULL" /\ main' = "idle" /\ UNCHANGED <<thread, thread_active>>
  /\ UNCHANGED <<lost, found, pipe, piconets, tracker, count>>

Closed ==
  ut' = CASE ut \in {"NULL", "init"} -> ut
          [] ut = "open" -> "closed"
          [] OTHER -> "misused"

(* The destructor calls it as well.                                        *)
CloseSource ==
  /\ main \in {"new", "idle", "closed"}
  /\ IF thread_active > 0
     THEN thread_active' = 0 /\ main' = "joining" /\ UNCHANGED ut
     ELSE /\ Closed /\ main' = (IF main = "closed" THEN "gone" ELSE "closed")
          /\ UNCHANGED thread_active
  /\ UNCHANGED <<thread, lost, found, pipe, piconets, tracker, count>>

Joined ==
  /\ main = "joining" /\ thread = "done"
  /\ Closed /\ main' = "closed"
  /\ UNCHANGED <<thread, thread_active, lost, found, pipe, piconets, tracker, count>>

(* Only a thread that was told to end says that it failed.                 *)
FetchDescriptor ==
  /\ main = "closed" /\ thread_active < 0
  /\ Closed
  /\ UNCHANGED <<main, thread, thread_active, lost, found, pipe, piconets, tracker, count>>

-----------------------------------------------------------------------------
(* The thread                                                              *)

Go(from, to) ==
  thread = from /\ thread' = to

ubertooth_cap_thread ==
  /\ \/ Go("start", "loop") /\ UNCHANGED thread_active
     \/ thread_active # 0 /\ Go("loop", "wait") /\ UNCHANGED thread_active
     \/ thread_active = 0 /\ Go("loop", "exit") /\ UNCHANGED thread_active
     \/ thread_active' = -1 /\ Go("exit", "done")
  /\ UNCHANGED <<main, ut, lost, found, pipe, piconets, tracker, count>>

(* A block came, in which there is an access code or none; btbb_find_ac()  *)
(* was asked to allow for one error.                                       *)
cb_cap ==
  /\ ~lost
  /\ \/ Go("wait", "loop") /\ UNCHANGED <<found, count>>
     \/ /\ count.found < MaxPackets /\ Go("wait", "found")
        /\ \E lap \in Laps, header \in BOOLEAN :
             found' = [n |-> count.found + 1, lap |-> lap, ac_errors |-> 1, header |-> header]
        /\ count' = [count EXCEPT !.found = @ + 1]
  /\ UNCHANGED <<main, thread_active, ut, lost, pipe, piconets, tracker>>

Wake ==
  IF pending_packet = 0 THEN pending_packet' = 1 /\ bytes' = bytes + 1
  ELSE UNCHANGED <<pending_packet, bytes>>

enqueue ==
  /\ Go("found", "loop")
  /\ IF Len(packet_queue) > Limit
     THEN count' = [count EXCEPT !.dropped = @ + 1] /\ UNCHANGED pipe
     ELSE packet_queue' = Append(packet_queue, found) /\ Wake /\ UNCHANGED count
  /\ UNCHANGED <<main, thread_active, ut, lost, found, piconets, tracker>>

-----------------------------------------------------------------------------
(* The main loop                                                           *)

PollReads ==
  /\ main = "idle" /\ bytes > 0
  /\ bytes' = bytes - 1 /\ main' = "draining"
  /\ UNCHANGED <<thread, thread_active, ut, lost, found, packet_queue, pending_packet, piconets,
                 tracker, count>>

(* handle_header(): no piconet is made of a LAP with errors, and none is   *)
(* kept of an inquiry.                                                     *)
Processed(p, known) == IF p.header THEN p.ac_errors <= 1 \/ p.lap \in known ELSE p.ac_errors <= 1

handle_header(p, known) ==
  IF p.header /\ Processed(p, known) THEN (known \cup {p.lap}) \ Inquiry ELSE known

(* A network, as the tracker knows it.                                     *)
nets == [first |-> first_nets, tracked |-> tracked_nets, dirty |-> dirty, packets |-> num_packets]

(* Mutant: a network is tracked as it is seen first.                       *)
chain_handler_once(s, lap) ==
  [first   |-> s.first \cup {lap},
   tracked |-> s.tracked \cup {lap},
   dirty   |-> s.dirty \cup {lap},
   packets |-> [s.packets EXCEPT ![lap] = @ + 1]]

chain_handler(s, lap) ==
  [first   |-> s.first \cup {lap},
   tracked |-> IF lap \in s.first THEN s.tracked \cup {lap} ELSE s.tracked,
   dirty   |-> s.dirty \cup {lap},
   packets |-> [s.packets EXCEPT ![lap] = @ + 1]]

Handled(s, p) ==
  [known |-> handle_header(p, s.known),
   nets  |-> IF Processed(p, s.known) THEN chain_handler(s.nets, p.lap) ELSE s.nets]

(* After the first k packets of the queue: the piconets, and the networks. *)
AfterFirst[k \in 0 .. Len(packet_queue)] ==
  IF k = 0 THEN [known |-> piconets, nets |-> nets]
  ELSE Handled(AfterFirst[k - 1], packet_queue[k])

After == AfterFirst[Len(packet_queue)]

(* Mutant: the flag stays up.                                              *)
StillPending == UNCHANGED pending_packet

NoLongerPending == pending_packet' = 0

PollDrains ==
  /\ main = "draining" /\ main' = "idle"
  /\ NoLongerPending
  /\ piconets' = After.known
  /\ first_nets' = After.nets.first /\ tracked_nets' = After.nets.tracked
  /\ dirty' = After.nets.dirty /\ num_packets' = After.nets.packets
  /\ packet_queue' = <<>>
  /\ count' = [count EXCEPT !.processed = @ + Len(packet_queue)]
  /\ UNCHANGED <<thread, thread_active, ut, lost, found, bytes, told, failed>>

(* BlitDevices() by the timer: in the order of the LAPs, until one cannot  *)
(* be told of, which is clean by then.                                     *)
BlitDevices ==
  /\ main = "idle" /\ dirty \cap tracked_nets # {}
  /\ \/ /\ dirty' = dirty \ tracked_nets /\ UNCHANGED failed
        /\ told' = [l \in Laps |-> IF l \in dirty \cap tracked_nets THEN num_packets[l] ELSE told[l]]
     \/ \E lap \in dirty \cap tracked_nets :
          LET before == {l \in dirty \cap tracked_nets : l < lap}
          IN  /\ dirty' = dirty \ (before \cup {lap}) /\ failed' = failed \cup {lap}
              /\ told' = [l \in Laps |-> IF l \in before THEN num_packets[l] ELSE told[l]]
  /\ UNCHANGED <<main, thread, thread_active, ut, lost, found, pipe, piconets, first_nets,
                 tracked_nets, num_packets, count>>

DeviceLeaves ==
  /\ ~lost /\ lost' = TRUE
  /\ UNCHANGED <<main, thread, thread_active, ut, found, pipe, piconets, tracker, count>>

Init ==
  /\ main = "new" /\ thread = "none" /\ thread_active = 0 /\ ut = "init" /\ lost = FALSE
  /\ found = [n |-> 0, lap |-> 0, ac_errors |-> 0, header |-> FALSE]
  /\ packet_queue = <<>> /\ pending_packet = 0 /\ bytes = 0 /\ piconets = {}
  /\ first_nets = {} /\ tracked_nets = {} /\ dirty = {} /\ num_packets = [l \in Laps |-> 0]
  /\ told = [l \in Laps |-> 0] /\ failed = {}
  /\ count = [found |-> 0, dropped |-> 0, processed |-> 0]

Main   == OpenSource \/ Joined \/ PollReads \/ PollDrains
Thread == ubertooth_cap_thread \/ cb_cap \/ enqueue

Next == Main \/ Thread \/ CloseSource \/ FetchDescriptor \/ BlitDevices \/ DeviceLeaves

(* Both threads run; the device sends blocks while it is there.            *)
Fairness == WF_vars(Main) /\ WF_vars(Thread)

Spec == Init /\ [][Next]_vars /\ Fairness

-----------------------------------------------------------------------------
(* No packet waits unnoticed: while there are some, there is a byte in the *)
(* pipe or the main loop is in Poll(); the pipe never holds more than one; *)
(* and every packet is processed, dropped, or waits (enqueue, Poll).       *)
WakesUp ==
  /\ packet_queue # <<>> => bytes > 0 \/ main = "draining"
  /\ bytes <= 1 /\ Len(packet_queue) <= Limit + 1
  /\ \A k \in DOMAIN packet_queue : k > 1 => packet_queue[k - 1].n < packet_queue[k].n
  /\ count.found = count.dropped + count.processed + Len(packet_queue)
                   + (IF thread = "found" THEN 1 ELSE 0)

(* A network is one that was seen twice, and of each the clients know how  *)
(* many packets it had, or are to be told; unless telling failed, which is *)
(* not tried again before its next packet (BlitDevices).                   *)
NetsTold ==
  /\ tracked_nets = {l \in Laps : num_packets[l] >= 2}
  /\ \A l \in tracked_nets \ failed : l \in dirty \/ told[l] = num_packets[l]
  /\ piconets \cap Inquiry = {}

(* Once it is told to end, the thread does, if the device is still there;  *)
(* and a thread never runs when the source is closed.                      *)
SourceCloses ==
  /\ main = "joining" ~> main # "joining" \/ lost
  /\ [](main \in {"closed", "gone"} => thread \in {"none", "done"})
==============================================================================
