----------------------------- MODULE PacketFifo -----------------------------
(***************************************************************************)
(* What the packet queue of the Ubertooth firmware promises to its users:  *)
(* a bounded first-in first-out queue of captured packets between the      *)
(* receiver and USB.  A packet offered to a full queue is refused, and the *)
(* refusal is reported: the next packet that is accepted carries the       *)
(* FIFO_OVERFLOW status flag.                                              *)
(***************************************************************************)
EXTENDS Naturals, Sequences

CONSTANT Capacity       \* how many packets the queue holds

VARIABLES
  queue,                \* the accepted packets, oldest first
  loss,                 \* a packet was refused since the last accepted one
  out,                  \* the packet handed to USB last
  offered,              \* how many captures the receiver has offered
  pending               \* the latest of them is neither accepted nor refused

vars == <<queue, loss, out, offered, pending>>

(* Frame f as the receiver hands it over: the body and the status byte     *)
(* belong to the same capture.                                             *)
Packet(f, lost) == [body |-> f, stamp |-> f, overflow |-> lost]

(* What a cleared slot holds, and what out is before anything was sent.    *)
Zeroed == Packet(0, FALSE)

Init ==
  /\ queue = << >>
  /\ loss = FALSE
  /\ out = Zeroed
  /\ offered = 0 /\ pending = FALSE

Offer ==
  /\ ~pending
  /\ offered' = offered + 1
  /\ pending' = TRUE
  /\ UNCHANGED <<queue, loss, out>>

Accept ==
  /\ pending
  /\ Len(queue) < Capacity
  /\ queue' = Append(queue, Packet(offered, loss))
  /\ loss' = FALSE /\ pending' = FALSE
  /\ UNCHANGED <<out, offered>>

Refuse ==
  /\ pending
  /\ Len(queue) = Capacity
  /\ loss' = TRUE /\ pending' = FALSE
  /\ UNCHANGED <<queue, out, offered>>

Deliver ==
  /\ queue # << >>
  /\ out' = Head(queue)
  /\ queue' = Tail(queue)
  /\ UNCHANGED <<loss, offered, pending>>

(* The queue is emptied when the receiver starts anew, never under a       *)
(* packet that is being offered.                                           *)
Reset ==
  /\ ~pending
  /\ queue' = << >>
  /\ UNCHANGED <<loss, out, offered, pending>>

Next == Offer \/ Accept \/ Refuse \/ Deliver \/ Reset

Spec == Init /\ [][Next]_vars
=============================================================================
