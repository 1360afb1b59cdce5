----------------------------- MODULE HostProofs -----------------------------
(***************************************************************************)
(* Proofs about the programs on the host: the blocks that a tool's         *)
(* callbacks get and the device it uses, for every tool whose calls are    *)
(* Orderly; and the packets and networks of the plugin for Kismet.         *)
(***************************************************************************)
EXTENDS Host, ModFacts, FiniteSetTheorems, WellFoundedInduction

(* The natural numbers are well ordered, and so by induction every set of  *)
(* them that has 0 and the successors of its members has them all.         *)
LEMMA Smallest == \A N \in SUBSET Nat : N # {} => \E m \in N : \A n \in N : m <= n
<1> SUFFICES ASSUME NEW N \in SUBSET Nat, N # {} PROVE \E m \in N : \A n \in N : m <= n
  OBVIOUS
<1>1. PICK m \in N : \A n \in N : ~(<<n, m>> \in OpToRel(<, Nat))
  BY NatLessThanWellFounded, WFMin
<1>2. \A n \in N : <<n, m>> \in OpToRel(<, Nat) <=> n < m
  BY DEF OpToRel
<1>3. \A n \in N : ~(n < m)
  BY <1>1, <1>2
<1> QED BY <1>3

LEMMA Induction == \A S : 0 \in S /\ (\A n \in Nat : n \in S => n + 1 \in S) => Nat \subseteq S
<1> SUFFICES ASSUME NEW S, 0 \in S, \A n \in Nat : n \in S => n + 1 \in S, Nat \ S # {} PROVE FALSE
  OBVIOUS
<1>1. PICK m \in Nat \ S : \A n \in Nat \ S : m <= n
  BY Smallest
<1>2. m # 0 /\ m - 1 \in Nat /\ m - 1 \in S
  BY <1>1
<1> QED BY <1>1, <1>2

-----------------------------------------------------------------------------
(* Kismet: what the main loop makes of the queue, packet by packet.        *)

KismetPacket == [n : Nat, lap : Laps, ac_errors : {1}, header : BOOLEAN]

(* Of the networks after some packets, against those before them.          *)
Consistent(s) ==
  /\ s.known \cap Inquiry = {}
  /\ s.nets.packets \in [Laps -> Nat]
  /\ s.nets.first = {l \in Laps : s.nets.packets[l] >= 1}
  /\ s.nets.tracked = {l \in Laps : s.nets.packets[l] >= 2}
  /\ dirty \subseteq s.nets.dirty
  /\ \A l \in Laps : l \notin s.nets.dirty => s.nets.packets[l] = num_packets[l]

LEMMA HandledConsistent ==
  ASSUME NEW s, NEW p \in KismetPacket, Consistent(s)
  PROVE  Consistent(K!Handled(s, p))
<1> DEFINE t == K!Handled(s, p)
<1> SUFFICES Consistent(t)
  OBVIOUS
<1>1. p.lap \in Laps
  BY DEF KismetPacket
<1>2. t.known \cap Inquiry = {}
  BY DEF K!Handled, K!handle_header, Consistent
<1>3. t.nets = s.nets \/ t.nets = K!chain_handler(s.nets, p.lap)
  BY DEF K!Handled
<1>4. CASE t.nets = s.nets
  BY <1>2, <1>4 DEF Consistent
<1>5. CASE t.nets = K!chain_handler(s.nets, p.lap)
  <2> DEFINE new == [s.nets.packets EXCEPT ![p.lap] = @ + 1]
  <2>1. /\ t.nets.first = s.nets.first \cup {p.lap} /\ t.nets.dirty = s.nets.dirty \cup {p.lap}
        /\ t.nets.tracked = IF p.lap \in s.nets.first THEN s.nets.tracked \cup {p.lap} ELSE s.nets.tracked
        /\ t.nets.packets = new
    BY <1>5 DEF K!chain_handler
  <2>2. new \in [Laps -> Nat] /\ \A l \in Laps : new[l] = IF l = p.lap THEN s.nets.packets[l] + 1 ELSE s.nets.packets[l]
    BY <1>1 DEF Consistent
  <2> HIDE DEF new, t
  <2>3. t.nets.first = {l \in Laps : new[l] >= 1}
    BY <2>1, <2>2, <1>1 DEF Consistent
  <2>4. t.nets.tracked = {l \in Laps : new[l] >= 2}
    BY <2>1, <2>2, <1>1 DEF Consistent
  <2>5. dirty \subseteq t.nets.dirty /\ \A l \in Laps : l \notin t.nets.dirty => new[l] = num_packets[l]
    BY <2>1, <2>2 DEF Consistent
  <2> QED BY <1>2, <2>1, <2>2, <2>3, <2>4, <2>5 DEF Consistent
<1> QED BY <1>3, <1>4, <1>5

(* The state after the first k packets, for the first m of the queue.      *)
Prefix(f, m) ==
  f = [k \in 0 .. m |-> IF k = 0 THEN [known |-> piconets, nets |-> K!nets]
                        ELSE K!Handled(f[k - 1], packet_queue[k])]

LEMMA PrefixExists == \A m \in Nat : \E f : Prefix(f, m)
<1> DEFINE S == {m \in Nat : \E f : Prefix(f, m)}
           base == [known |-> piconets, nets |-> K!nets]
<1>1. 0 \in S
  <2> DEFINE f == [k \in 0 .. 0 |-> base]
  <2>1. f = [k \in 0 .. 0 |-> IF k = 0 THEN base ELSE K!Handled(f[k - 1], packet_queue[k])]
    OBVIOUS
  <2>2. Prefix(f, 0)
    BY <2>1 DEF Prefix
  <2> QED BY <2>2
<1>2. ASSUME NEW m \in Nat, m \in S PROVE m + 1 \in S
  <2>1. PICK f : Prefix(f, m)
    BY <1>2
  <2> DEFINE g == [k \in 0 .. m + 1 |-> IF k <= m THEN f[k] ELSE K!Handled(f[m], packet_queue[m + 1])]
             h == [k \in 0 .. m + 1 |-> IF k = 0 THEN base ELSE K!Handled(g[k - 1], packet_queue[k])]
  <2>2. ASSUME NEW k \in 0 .. m + 1 PROVE g[k] = h[k]
    <3>1. \A j \in 0 .. m : f[j] = IF j = 0 THEN base ELSE K!Handled(f[j - 1], packet_queue[j])
      BY <2>1 DEF Prefix
    <3>2. CASE k = 0
      BY <3>1, <3>2
    <3>3. CASE k \in 1 .. m
      <4>1. g[k] = f[k] /\ g[k - 1] = f[k - 1] /\ k # 0 /\ k \in 0 .. m
        BY <3>3
      <4>2. h[k] = K!Handled(g[k - 1], packet_queue[k])
        BY <4>1
      <4> HIDE DEF g, h
      <4> QED BY <4>1, <4>2, <3>1
    <3>4. CASE k = m + 1
      <4>1. g[k] = K!Handled(f[m], packet_queue[m + 1]) /\ g[m] = f[m] /\ k # 0 /\ k - 1 = m
        BY <3>4
      <4>2. h[k] = K!Handled(g[k - 1], packet_queue[k])
        BY <4>1
      <4> HIDE DEF g, h
      <4> QED BY <4>1, <4>2, <3>4
    <3> QED BY <3>2, <3>3, <3>4
  <2>3. g = h
    BY <2>2
  <2>4. Prefix(g, m + 1)
    BY <2>3 DEF Prefix
  <2> QED BY <2>4
<1> HIDE DEF S
<1>3. Nat \subseteq S
  BY <1>1, <1>2, Induction
<1> QED BY <1>3 DEF S

LEMMA AfterIsPrefix == packet_queue \in Seq(KismetPacket) => Prefix(K!AfterFirst, Len(packet_queue))
<1> SUFFICES ASSUME packet_queue \in Seq(KismetPacket) PROVE Prefix(K!AfterFirst, Len(packet_queue))
  OBVIOUS
<1>1. K!AfterFirst = CHOOSE f : Prefix(f, Len(packet_queue))
  BY DEF K!AfterFirst, Prefix
<1>2. Len(packet_queue) \in Nat
  OBVIOUS
<1>3. \E f : Prefix(f, Len(packet_queue))
  BY <1>2, PrefixExists
<1> QED BY <1>1, <1>3

(* What holds before the queue and is kept by every packet holds after it. *)
LEMMA AfterConsistent ==
  ASSUME packet_queue \in Seq(KismetPacket), Consistent([known |-> piconets, nets |-> K!nets])
  PROVE  Consistent(K!After)
<1> DEFINE f == K!AfterFirst
           S == {m \in Nat : m <= Len(packet_queue) => Consistent(f[m])}
           base == [known |-> piconets, nets |-> K!nets]
<1>0. Prefix(f, Len(packet_queue)) /\ Len(packet_queue) \in Nat
  BY AfterIsPrefix
<1> HIDE DEF f
<1>1. 0 \in S
  <2>1. f[0] = base
    BY <1>0 DEF Prefix
  <2> QED BY <2>1
<1>2. ASSUME NEW m \in Nat, m \in S PROVE m + 1 \in S
  <2> SUFFICES ASSUME m + 1 <= Len(packet_queue) PROVE Consistent(f[m + 1])
    OBVIOUS
  <2>1. Consistent(f[m])
    BY <1>0, <1>2
  <2>2. m + 1 \in 0 .. Len(packet_queue) /\ m + 1 # 0 /\ m + 1 - 1 = m
    BY <1>0
  <2>3. f[m + 1] = K!Handled(f[m], packet_queue[m + 1])
    BY <1>0, <2>2 DEF Prefix
  <2>4. packet_queue[m + 1] \in KismetPacket
    BY <1>0, <2>2
  <2> QED BY <2>1, <2>3, <2>4, HandledConsistent
<1> HIDE DEF S
<1>3. Nat \subseteq S
  BY <1>1, <1>2, Induction
<1> QED BY <1>0, <1>3 DEF S, K!After, f

-----------------------------------------------------------------------------
(* Kismet: the queue and the pipe, and the networks that clients know.     *)

(* One byte is in the pipe, or has just been read, exactly while pending_- *)
(* packet is set; and the packets of the queue are numbered as they came.  *)
QueueInv ==
  /\ packet_queue \in Seq(KismetPacket) /\ Len(packet_queue) <= Limit + 1
  /\ \/ pending_packet = 1 /\ bytes = 1 /\ main # "draining"
     \/ pending_packet = 1 /\ bytes = 0 /\ main = "draining"
     \/ pending_packet = 0 /\ bytes = 0 /\ main # "draining" /\ packet_queue = <<>>
  /\ count \in [found : Nat, dropped : Nat, processed : Nat]
  /\ main = "new" => thread = "none"
  /\ thread = "found" => found \in KismetPacket /\ found.n = count.found
  /\ \A k \in 1 .. Len(packet_queue) :
       packet_queue[k].n <= count.found /\ (thread = "found" => packet_queue[k].n < found.n)
  /\ \A k \in 2 .. Len(packet_queue) : packet_queue[k - 1].n < packet_queue[k].n
  /\ count.found = count.dropped + count.processed + Len(packet_queue)
                   + (IF thread = "found" THEN 1 ELSE 0)

NetsInv ==
  /\ num_packets \in [Laps -> Nat]
  /\ first_nets = {l \in Laps : num_packets[l] >= 1}
  /\ tracked_nets = {l \in Laps : num_packets[l] >= 2}
  /\ \A l \in tracked_nets \ failed : l \in dirty \/ told[l] = num_packets[l]
  /\ piconets \cap Inquiry = {}

KismetInv == QueueInv /\ NetsInv

LEMMA KismetInit == K!Init => KismetInv
<1> SUFFICES ASSUME K!Init PROVE KismetInv
  OBVIOUS
<1> USE HostAssumption DEF K!KismetAssumption
<1>1. /\ packet_queue = <<>> /\ packet_queue \in Seq(KismetPacket) /\ Len(packet_queue) = 0
      /\ count = [found |-> 0, dropped |-> 0, processed |-> 0]
      /\ num_packets = [l \in Laps |-> 0] /\ told = [l \in Laps |-> 0]
  BY DEF K!Init
<1>2. QueueInv
  BY <1>1 DEF K!Init, QueueInv
<1>3. NetsInv
  BY <1>1 DEF K!Init, NetsInv
<1> QED BY <1>2, <1>3 DEF KismetInv

LEMMA CloseKept ==
  ASSUME KismetInv, K!CloseSource \/ K!Joined \/ K!FetchDescriptor \/ K!OpenSource \/ K!DeviceLeaves
  PROVE  KismetInv'
<1>1. UNCHANGED <<packet_queue, pending_packet, bytes, count, found>>
  BY DEF K!CloseSource, K!Joined, K!FetchDescriptor, K!OpenSource, K!DeviceLeaves, K!pipe
<1>2. UNCHANGED <<first_nets, tracked_nets, dirty, num_packets, told, failed, piconets>>
  BY DEF K!CloseSource, K!Joined, K!FetchDescriptor, K!OpenSource, K!DeviceLeaves, K!tracker
<1>3. (main # "draining" /\ main' # "draining" /\ main' # "new") \/ main' = main
  BY DEF K!CloseSource, K!Joined, K!FetchDescriptor, K!OpenSource, K!DeviceLeaves
<1>4. thread' = thread \/ (main = "new" /\ main' = "idle" /\ thread' = "start")
  BY DEF K!CloseSource, K!Joined, K!FetchDescriptor, K!OpenSource, K!DeviceLeaves
<1> QED BY <1>1, <1>2, <1>3, <1>4 DEF KismetInv, QueueInv, NetsInv

LEMMA ThreadKept ==
  ASSUME KismetInv, K!ubertooth_cap_thread \/ K!cb_cap
  PROVE  KismetInv'
<1> USE DEF KismetInv, QueueInv, NetsInv, K!pipe, K!tracker
<1>1. NetsInv'
  BY DEF K!ubertooth_cap_thread, K!cb_cap
<1>2. CASE thread' # "found"
  <2>1. thread # "found" /\ thread # "none"
    BY <1>2 DEF K!ubertooth_cap_thread, K!cb_cap, K!Go
  <2>2. UNCHANGED <<packet_queue, pending_packet, bytes, count, found, main>>
    BY <1>2 DEF K!ubertooth_cap_thread, K!cb_cap, K!Go
  <2>3. QueueInv'
    BY <1>2, <2>1, <2>2
  <2> QED BY <1>1, <2>3
<1>3. CASE thread' = "found"
  <2>1. K!cb_cap /\ thread = "wait"
    BY <1>3 DEF K!ubertooth_cap_thread, K!cb_cap, K!Go
  <2>2. PICK lap \in Laps, header \in BOOLEAN :
          found' = [n |-> count.found + 1, lap |-> lap, ac_errors |-> 1, header |-> header]
    BY <2>1, <1>3 DEF K!cb_cap, K!Go
  <2>3. count' = [count EXCEPT !.found = @ + 1]
    BY <2>1, <1>3 DEF K!cb_cap, K!Go
  <2>4. /\ count'.found = count.found + 1 /\ count'.dropped = count.dropped
        /\ count'.processed = count.processed
        /\ count' \in [found : Nat, dropped : Nat, processed : Nat]
    BY <2>3
  <2>5. found' \in KismetPacket /\ found'.n = count'.found
    BY <2>2, <2>4 DEF KismetPacket
  <2>6. UNCHANGED <<packet_queue, pending_packet, bytes, main>>
    BY <2>1 DEF K!cb_cap
  <2>7. \A k \in 1 .. Len(packet_queue) : packet_queue[k] \in KismetPacket /\ packet_queue[k].n \in Nat
    <3>1. \A k \in 1 .. Len(packet_queue) : packet_queue[k] \in KismetPacket
      OBVIOUS
    <3> QED BY <3>1 DEF KismetPacket
  <2>8. QueueInv'
    BY <1>3, <2>1, <2>4, <2>5, <2>6, <2>7
  <2> QED BY <1>1, <2>8
<1> QED BY <1>2, <1>3

LEMMA EnqueueKept == ASSUME KismetInv, K!enqueue PROVE KismetInv'
<1> USE DEF KismetInv, QueueInv, NetsInv, K!pipe, K!tracker
<1>1. NetsInv'
  BY DEF K!enqueue
<1>2. thread = "found" /\ thread' = "loop" /\ UNCHANGED <<main, found>>
  BY DEF K!enqueue, K!Go
<1>3. CASE Len(packet_queue) > Limit
  <2>1. count' = [count EXCEPT !.dropped = @ + 1] /\ UNCHANGED <<packet_queue, pending_packet, bytes>>
    BY <1>3 DEF K!enqueue
  <2>2. /\ count'.dropped = count.dropped + 1 /\ count'.found = count.found
        /\ count'.processed = count.processed
        /\ count' \in [found : Nat, dropped : Nat, processed : Nat]
    BY <2>1
  <2>3. /\ count.found = count.dropped + count.processed + Len(packet_queue) + 1
        /\ \A k \in 1 .. Len(packet_queue) : packet_queue[k].n <= count.found
        /\ main # "new"
    BY <1>2
  <2>4. Len(packet_queue) \in Nat /\ thread' # "found" /\ main' # "new"
    BY <1>2, <2>3
  <2>5. count'.found = count'.dropped + count'.processed + Len(packet_queue') + 0
    BY <2>1, <2>2, <2>3, <2>4
  <2>6. QueueInv'
    BY <1>2, <2>1, <2>2, <2>3, <2>4, <2>5
  <2> QED BY <1>1, <2>6
<1>4. CASE ~(Len(packet_queue) > Limit)
  <2> USE HostAssumption DEF K!KismetAssumption
  <2>1. packet_queue' = Append(packet_queue, found) /\ K!Wake /\ count' = count
    BY <1>4 DEF K!enqueue
  <2> DEFINE n == Len(packet_queue)
  <2>2. /\ packet_queue' \in Seq(KismetPacket) /\ Len(packet_queue') = n + 1 /\ n \in Nat
        /\ \A k \in 1 .. n : packet_queue'[k] = packet_queue[k]
        /\ packet_queue'[n + 1] = found /\ packet_queue' # <<>>
    BY <1>2, <2>1
  <2>3. n + 1 <= Limit + 1
    BY <1>4, <2>2
  <2>4. \/ pending_packet' = 1 /\ bytes' = 1 /\ main' # "draining"
        \/ pending_packet' = 1 /\ bytes' = 0 /\ main' = "draining"
    BY <1>2, <2>1 DEF K!Wake
  <2> HIDE DEF n
  <2>5. \A k \in 1 .. n + 1 : packet_queue'[k].n <= count'.found
    BY <1>2, <2>1, <2>2 DEF n
  <2>6. ASSUME NEW k \in 2 .. n + 1 PROVE packet_queue'[k - 1].n < packet_queue'[k].n
    <3>1. CASE k = n + 1
      <4>1. k - 1 \in 1 .. n
        BY <2>2, <3>1
      <4> QED BY <3>1, <4>1, <1>2, <2>2 DEF n
    <3>2. CASE k # n + 1
      <4>1. k - 1 \in 1 .. n /\ k \in 1 .. n /\ k \in 2 .. n
        BY <2>2, <3>2
      <4> QED BY <4>1, <2>2 DEF n
    <3> QED BY <3>1, <3>2
  <2>7. count'.found = count'.dropped + count'.processed + (n + 1)
    BY <1>2, <2>1, <2>2 DEF n
  <2>8. /\ thread' # "found" /\ main' # "new" /\ count' \in [found : Nat, dropped : Nat, processed : Nat]
        /\ count'.found = count'.dropped + count'.processed + Len(packet_queue') + 0
    BY <1>2, <2>1, <2>2, <2>7
  <2>9. QueueInv'
    <3>1. Len(packet_queue') <= Limit + 1
      BY <2>2, <2>3
    <3>2. \A k \in 1 .. Len(packet_queue') : packet_queue'[k].n <= count'.found
      BY <2>2, <2>5
    <3>3. \A k \in 2 .. Len(packet_queue') : packet_queue'[k - 1].n < packet_queue'[k].n
      BY <2>2, <2>6
    <3> HIDE DEF QueueInv
    <3> QED BY <2>2, <2>4, <2>8, <3>1, <3>2, <3>3 DEF QueueInv
  <2> QED BY <1>1, <2>9
<1> QED BY <1>3, <1>4

LEMMA PollKept == ASSUME KismetInv, K!PollReads \/ K!PollDrains PROVE KismetInv'
<1> USE DEF KismetInv, QueueInv
<1>1. CASE K!PollReads
  <2>1. /\ main' = "draining" /\ main = "idle" /\ bytes > 0 /\ bytes' = bytes - 1
        /\ UNCHANGED <<packet_queue, pending_packet, count, found, thread>>
    BY <1>1 DEF K!PollReads
  <2>2. NetsInv'
    BY <1>1 DEF K!PollReads, NetsInv, K!tracker
  <2> QED BY <2>1, <2>2
<1>2. CASE K!PollDrains
  <2>1. /\ main' = "idle" /\ main = "draining" /\ pending_packet' = 0 /\ packet_queue' = <<>>
        /\ count' = [count EXCEPT !.processed = @ + Len(packet_queue)]
        /\ UNCHANGED <<thread, found, bytes, told, failed>>
    BY <1>2 DEF K!PollDrains, K!NoLongerPending
  <2>2. Len(packet_queue) \in Nat /\ packet_queue' \in Seq(KismetPacket) /\ Len(packet_queue') = 0
    BY <2>1
  <2>3. /\ count'.processed = count.processed + Len(packet_queue) /\ count'.found = count.found
        /\ count'.dropped = count.dropped
        /\ count' \in [found : Nat, dropped : Nat, processed : Nat]
    <3> DEFINE n == Len(packet_queue)
    <3>1. n \in Nat /\ count' = [count EXCEPT !.processed = @ + n]
      BY <2>1, <2>2
    <3> HIDE DEF n
    <3>2. /\ count'.processed = count.processed + n /\ count'.found = count.found
          /\ count'.dropped = count.dropped
          /\ count' \in [found : Nat, dropped : Nat, processed : Nat]
      BY <3>1
    <3> QED BY <3>2 DEF n
  <2>4. QueueInv'
    <3>1. /\ packet_queue' \in Seq(KismetPacket) /\ Len(packet_queue') = 0 /\ Limit \in Nat
          /\ packet_queue' = <<>> /\ pending_packet' = 0 /\ main' = "idle" /\ bytes' = bytes
          /\ thread' = thread /\ found' = found
      BY <2>1, <2>2, HostAssumption DEF K!KismetAssumption
    <3>2. bytes = 0
      BY <2>1
    <3>3. thread = "found" => found \in KismetPacket /\ found.n = count.found
      OBVIOUS
    <3>4. count'.found = count'.dropped + count'.processed + 0 + (IF thread = "found" THEN 1 ELSE 0)
      <4> DEFINE n == Len(packet_queue)
                 f == IF thread = "found" THEN 1 ELSE 0
      <4>1. count.found = count.dropped + count.processed + n + f /\ n \in Nat /\ f \in Nat
        BY <2>2
      <4> HIDE DEF n, f
      <4>2. count.dropped \in Nat /\ count.processed \in Nat
        OBVIOUS
      <4>3. count.dropped + (count.processed + n) + 0 + f = count.dropped + count.processed + n + f
        BY <4>1, <4>2
      <4> QED BY <2>3, <4>1, <4>3 DEF n, f
    <3> QED BY <2>3, <3>1, <3>2, <3>3, <3>4
  <2>5. Consistent([known |-> piconets, nets |-> K!nets])
    BY DEF NetsInv, Consistent, K!nets
  <2>6. Consistent(K!After)
    BY <2>5, AfterConsistent
  <2>7. /\ piconets' = K!After.known /\ first_nets' = K!After.nets.first
        /\ tracked_nets' = K!After.nets.tracked /\ dirty' = K!After.nets.dirty
        /\ num_packets' = K!After.nets.packets
    BY <1>2 DEF K!PollDrains
  <2>8. /\ num_packets' \in [Laps -> Nat] /\ piconets' \cap Inquiry = {}
        /\ first_nets' = {l \in Laps : num_packets'[l] >= 1}
        /\ tracked_nets' = {l \in Laps : num_packets'[l] >= 2}
        /\ dirty \subseteq dirty'
        /\ \A l \in Laps : l \notin dirty' => num_packets'[l] = num_packets[l]
    BY <2>6, <2>7 DEF Consistent
  <2>9. ASSUME NEW l \in tracked_nets' \ failed', l \notin dirty' PROVE told'[l] = num_packets'[l]
    BY <2>1, <2>8, <2>9 DEF NetsInv
  <2> QED BY <2>4, <2>8, <2>9 DEF NetsInv
<1> QED BY <1>1, <1>2

LEMMA BlitKept == ASSUME KismetInv, K!BlitDevices PROVE KismetInv'
<1> USE DEF KismetInv
<1>1. QueueInv'
  BY DEF K!BlitDevices, QueueInv, K!pipe
<1>2. UNCHANGED <<num_packets, first_nets, tracked_nets, piconets>> /\ tracked_nets \subseteq Laps
  BY DEF K!BlitDevices, NetsInv
<1>3. CASE /\ dirty' = dirty \ tracked_nets /\ failed' = failed
           /\ told' = [l \in Laps |-> IF l \in dirty \cap tracked_nets THEN num_packets[l] ELSE told[l]]
  BY <1>1, <1>2, <1>3 DEF NetsInv
<1>4. ASSUME NEW lap \in dirty \cap tracked_nets, NEW before \in SUBSET (dirty \cap tracked_nets),
             dirty' = dirty \ (before \cup {lap}), failed' = failed \cup {lap},
             told' = [l \in Laps |-> IF l \in before THEN num_packets[l] ELSE told[l]]
      PROVE  KismetInv'
  BY <1>1, <1>2, <1>4 DEF NetsInv
<1>5. \/ /\ dirty' = dirty \ tracked_nets /\ failed' = failed
         /\ told' = [l \in Laps |-> IF l \in dirty \cap tracked_nets THEN num_packets[l] ELSE told[l]]
      \/ \E lap \in dirty \cap tracked_nets : \E before \in SUBSET (dirty \cap tracked_nets) :
           /\ dirty' = dirty \ (before \cup {lap}) /\ failed' = failed \cup {lap}
           /\ told' = [l \in Laps |-> IF l \in before THEN num_packets[l] ELSE told[l]]
  BY DEF K!BlitDevices
<1> QED BY <1>3, <1>4, <1>5

LEMMA KismetStep == ASSUME KismetInv, K!Next \/ UNCHANGED K!vars PROVE KismetInv'
<1>1. ASSUME KismetInv, UNCHANGED K!vars PROVE KismetInv'
  BY <1>1 DEF K!vars, KismetInv, QueueInv, NetsInv
<1>2. ASSUME KismetInv, K!Next PROVE KismetInv'
  <2>1. \/ K!CloseSource \/ K!Joined \/ K!FetchDescriptor \/ K!OpenSource \/ K!DeviceLeaves
        \/ K!ubertooth_cap_thread \/ K!cb_cap \/ K!enqueue
        \/ K!PollReads \/ K!PollDrains \/ K!BlitDevices
    BY <1>2 DEF K!Next, K!Main, K!Thread
  <2> QED BY <1>2, <2>1, CloseKept, ThreadKept, EnqueueKept, PollKept, BlitKept
<1> QED BY <1>1, <1>2

LEMMA KismetSafe == KismetInv => K!WakesUp /\ K!NetsTold
<1> SUFFICES ASSUME KismetInv PROVE K!WakesUp /\ K!NetsTold
  OBVIOUS
<1>1. DOMAIN packet_queue = 1 .. Len(packet_queue) /\ Len(packet_queue) \in Nat
  BY DEF KismetInv, QueueInv
<1>2. K!WakesUp
  BY <1>1 DEF KismetInv, QueueInv, K!WakesUp
<1>3. K!NetsTold
  BY DEF KismetInv, NetsInv, K!NetsTold
<1> QED BY <1>2, <1>3

-----------------------------------------------------------------------------
(* A tool: where it is in its calls.                                       *)

StreamAt == {"starting", "wait", "receive", "received", "process", "calling", "called"}

(* A block has been taken, and is processed.                               *)
TakenAt == {"process", "calling", "called"}

ToolTypes ==
  /\ tool \in DOMAIN Scripts /\ script = Scripts[tool] /\ pc \in 1 .. Len(script) + 1
  /\ at \in {"start", "busy", "stopping"} \cup StreamAt
  /\ ended \in {"no", "returned", "killed", "crashed"}
  /\ devh \in {"NULL", "open", "closed"} /\ device \in {"idle", "bulk", "polled", "gone"}
  /\ rx_xfer \in {"NULL", "idle", "pending"}
  /\ outcome \in {"none", "full", "timed out", "error", "cancelled"}
  /\ alarm \in {"none", "set", "caught", "missed"}
  /\ full \in {0, 1} /\ sent \in Nat /\ buffers \in [0 .. 1 -> Nat]

(* Within a call the device is open, and the call is one that takes time.  *)
InCall ==
  T!Running /\ at # "start" =>
    /\ devh = "open" /\ pc <= Len(script)
    /\ at = "busy" => T!here.op \in {"cmd", "blink"}
    /\ at = "stopping" => T!here.op = "stop"
    /\ at \in StreamAt => T!here.op \in T!StreamOps

(* The calls that the tool has made, and what there was none of.           *)
Past == {script[j] : j \in 1 .. pc - 1}

NoStreams == \A c \in Past : c.op \notin T!StreamOps
NoTimeout == \A c \in Past : c.op # "timeout"
NoSending == \A c \in Past : ~T!StartsSending(c)

LEMMA CallsOrderly ==
  ASSUME ToolTypes
  PROVE  /\ T!Orderly(script) /\ Len(script) \in Nat /\ DOMAIN script = 1 .. Len(script)
         /\ pc \in Nat /\ pc >= 1 /\ (pc <= Len(script) => pc \in DOMAIN script)
<1>1. T!Orderly(script) /\ script \in Seq([op : STRING, arg : STRING, loop : STRING, bad : STRING])
  BY HostAssumption DEF ToolTypes, T!StreamAssumption
<1>2. Len(script) \in Nat /\ DOMAIN script = 1 .. Len(script)
  BY <1>1
<1>3. pc \in 1 .. Len(script) + 1
  BY DEF ToolTypes
<1> DEFINE n == Len(script)
<1>4. n \in Nat /\ pc \in 1 .. n + 1
  BY <1>2, <1>3
<1> HIDE DEF n
<1>5. pc \in Nat /\ pc >= 1 /\ (pc <= n => pc \in 1 .. n)
  BY <1>4
<1> QED BY <1>1, <1>2, <1>5 DEF n

(* What the call that the tool is at has had before it.                    *)
LEMMA HereOrderly ==
  ASSUME ToolTypes, pc <= Len(script)
  PROVE  /\ T!here.op \in T!DeviceOps => \E c \in Past : c.op = "connect"
         /\ T!here.op = "connect" => T!here.bad \in {"end", "on", "null"} /\ NoSending
         /\ T!here.op = "reset" => NoStreams
         /\ T!here.op \in T!StreamOps =>
              \/ T!here.loop \in {"until 1", "while"}
              \/ /\ T!here.loop = "until -1" /\ T!here.arg = "cb_specan"
                 /\ \A c \in Past : c.op \in {"connect", "handler"}
<1>1. T!Orderly(script) /\ pc \in DOMAIN script
  BY CallsOrderly
<1>2. /\ T!here.op \in T!DeviceOps => \E j \in 1 .. pc - 1 : script[j].op = "connect"
      /\ T!here.op = "connect" =>
           T!here.bad \in {"end", "on", "null"} /\ \A j \in 1 .. pc - 1 : ~T!StartsSending(script[j])
      /\ T!here.op = "reset" => \A op \in T!StreamOps : ~ \E j \in 1 .. pc - 1 : script[j].op = op
      /\ T!here.op \in T!StreamOps =>
           \/ T!here.loop \in {"until 1", "while"}
           \/ /\ T!here.loop = "until -1" /\ T!here.arg = "cb_specan"
              /\ \A j \in 1 .. pc - 1 : script[j].op \in {"connect", "handler"}
  BY <1>1, Zenon DEF T!Orderly, T!here
<1> QED BY <1>2 DEF Past, NoSending, NoStreams

(* A step leaves the tool in its call, or takes it to the next.            *)
LEMMA PastMoves ==
  ASSUME ToolTypes, script' = script
  PROVE  /\ pc' = pc => T!here' = T!here /\ Past' = Past
         /\ pc' = pc + 1 => Past' = Past \cup {T!here}
<1>1. pc \in Nat /\ pc >= 1
  BY CallsOrderly
<1>2. ASSUME pc' = pc PROVE T!here' = T!here /\ Past' = Past
  BY <1>2 DEF T!here, Past
<1>3. ASSUME pc' = pc + 1 PROVE Past' = Past \cup {T!here}
  <2>1. 1 .. pc' - 1 = 1 .. pc /\ 1 .. pc = (1 .. pc - 1) \cup {pc}
    BY <1>1, <1>3
  <2>2. Past' = {script[j] : j \in 1 .. pc}
    BY <2>1 DEF Past
  <2> QED BY <2>1, <2>2 DEF Past, T!here
<1> QED BY <1>2, <1>3

LEMMA CallByCall ==
  ASSUME ToolTypes, InCall, T!Next
  PROVE  /\ T!Running /\ UNCHANGED <<tool, script>>
         /\ \/ pc' = pc /\ T!here' = T!here /\ Past' = Past
            \/ /\ pc' = pc + 1 /\ Past' = Past \cup {T!here} /\ pc <= Len(script)
               /\ at' = "start" /\ ended' = "no"
<1> USE DEF InCall, T!place, T!At, T!Running, T!Advance, T!End, T!Local, T!Done, T!Fails, T!Return
<1> DEFINE Moves == /\ ended = "no" /\ tool' = tool /\ script' = script
                    /\ pc' = pc \/ (pc' = pc + 1 /\ pc <= Len(script) /\ at' = "start" /\ ended' = "no")
<1>1. ASSUME T!ubertooth_bulk_init PROVE Moves
  BY <1>1 DEF T!ubertooth_bulk_init, T!Streams
<1>2. ASSUME T!Begin \/ T!HandleEvents \/ T!WaitEnds \/ T!Callback PROVE Moves
  BY <1>2 DEF T!Begin, T!HandleEvents, T!WaitEnds, T!Callback, T!Commanding, T!Waiting
<1>3. ASSUME T!Finish PROVE Moves
  BY <1>3 DEF T!Finish, T!Commanding
<1>4. ASSUME T!ReceiveBegins PROVE Moves
  <2>1. at \in StreamAt /\ T!Running
    BY <1>4 DEF T!ReceiveBegins, StreamAt
  <2>2. T!here.loop \in {"until 1", "while", "until -1"} /\ pc <= Len(script)
    BY <2>1, HereOrderly DEF StreamAt
  <2> QED BY <1>4, <2>2 DEF T!ReceiveBegins
<1>5. ASSUME T!Called PROVE Moves
  <2>1. at \in StreamAt /\ T!Running
    BY <1>5 DEF T!Called, StreamAt
  <2>2. T!here.loop \in {"until 1", "while", "until -1"} /\ pc <= Len(script)
    BY <2>1, HereOrderly DEF StreamAt
  <2> QED BY <1>5, <2>2 DEF T!Called
<1>6. ASSUME T!ubertooth_connect \/ T!register_cleanup_handler \/ T!ubertooth_set_timeout \/ T!Reset PROVE Moves
  BY <1>6 DEF T!ubertooth_connect, T!register_cleanup_handler, T!ubertooth_set_timeout, T!Reset
<1>7. ASSUME T!PollFails \/ T!ubertooth_stop \/ T!Returns PROVE Moves
  BY <1>7 DEF T!PollFails, T!ubertooth_stop, T!Returns
<1>8. ASSUME T!stop_transfers \/ T!cleanup PROVE Moves
  BY <1>8 DEF T!stop_transfers, T!cleanup
<1>9. ASSUME T!Fill \/ T!TimesOut \/ T!Leave PROVE Moves
  BY <1>9 DEF T!Fill, T!TimesOut, T!Leave
<1>10. Moves
  BY <1>1, <1>2, <1>3, <1>4, <1>5, <1>6, <1>7, <1>8, <1>9, Zenon DEF T!Next, T!Runs
<1> QED BY <1>10, PastMoves

LEMMA StreamLoops ==
  ASSUME ToolTypes, InCall, T!Running, at \in StreamAt
  PROVE  /\ devh = "open" /\ pc <= Len(script) /\ T!here.op \in T!StreamOps
         /\ T!here.loop \in {"until 1", "while", "until -1"}
BY HereOrderly DEF InCall, StreamAt

(* How far the tool is in its calls, and how it ended.                     *)
LEMMA PlacesKept ==
  ASSUME ToolTypes, InCall, T!Next
  PROVE  /\ at' \in {"start", "busy", "stopping"} \cup StreamAt
         /\ ended' \in {"no", "returned", "killed", "crashed"}
<1>1. /\ at \in {"start", "busy", "stopping"} \cup StreamAt
      /\ ended \in {"no", "returned", "killed", "crashed"}
  BY DEF ToolTypes
<1> DEFINE Goal == /\ at' \in {"start", "busy", "stopping"} \cup StreamAt
                   /\ ended' \in {"no", "returned", "killed", "crashed"}
<1> USE <1>1 DEF StreamAt, T!place, T!Advance, T!End, T!Local, T!Done, T!Fails, T!Return
<1>2. ASSUME T!Begin \/ T!Callback \/ T!WaitEnds \/ T!Finish \/ T!ubertooth_bulk_init PROVE Goal
  BY <1>2 DEF T!Begin, T!Callback, T!WaitEnds, T!Finish, T!Commanding, T!ubertooth_bulk_init
<1>3. ASSUME T!HandleEvents \/ T!Fill \/ T!TimesOut \/ T!Leave PROVE Goal
  BY <1>3 DEF T!HandleEvents, T!Fill, T!TimesOut, T!Leave
<1>4. ASSUME T!ReceiveBegins PROVE Goal
  <2>1. T!here.loop \in {"until 1", "while", "until -1"}
    BY <1>4, StreamLoops DEF T!ReceiveBegins
  <2> QED BY <1>4, <2>1 DEF T!ReceiveBegins
<1>5. ASSUME T!Called PROVE Goal
  <2>1. T!here.loop \in {"until 1", "while", "until -1"}
    BY <1>5, StreamLoops DEF T!Called
  <2> QED BY <1>5, <2>1 DEF T!Called
<1>6. ASSUME T!ubertooth_connect \/ T!register_cleanup_handler \/ T!ubertooth_set_timeout \/ T!Reset PROVE Goal
  BY <1>6 DEF T!ubertooth_connect, T!register_cleanup_handler, T!ubertooth_set_timeout, T!Reset
<1>7. ASSUME T!PollFails \/ T!ubertooth_stop \/ T!Returns PROVE Goal
  BY <1>7 DEF T!PollFails, T!ubertooth_stop, T!Returns
<1>8. ASSUME T!stop_transfers \/ T!cleanup PROVE Goal
  BY <1>8 DEF T!stop_transfers, T!cleanup
<1> QED BY <1>2, <1>3, <1>4, <1>5, <1>6, <1>7, <1>8, Zenon DEF T!Next, T!Runs

(* The device and its transfer.                                            *)
LEMMA DeviceKept ==
  ASSUME ToolTypes, T!Next
  PROVE  /\ devh' \in {"NULL", "open", "closed"}
         /\ device' \in {"idle", "bulk", "polled", "gone"}
         /\ rx_xfer' \in {"NULL", "idle", "pending"}
         /\ outcome' \in {"none", "full", "timed out", "error", "cancelled"}
         /\ alarm' \in {"none", "set", "caught", "missed"}
<1>1. /\ devh \in {"NULL", "open", "closed"}
      /\ device \in {"idle", "bulk", "polled", "gone"}
      /\ rx_xfer \in {"NULL", "idle", "pending"}
      /\ outcome \in {"none", "full", "timed out", "error", "cancelled"}
      /\ alarm \in {"none", "set", "caught", "missed"}
  BY DEF ToolTypes
<1> DEFINE Goal == /\ devh' \in {"NULL", "open", "closed"}
                   /\ device' \in {"idle", "bulk", "polled", "gone"}
                   /\ rx_xfer' \in {"NULL", "idle", "pending"}
                   /\ outcome' \in {"none", "full", "timed out", "error", "cancelled"}
                   /\ alarm' \in {"none", "set", "caught", "missed"}
<1> USE <1>1 DEF T!xfer
<1>2. ASSUME T!Begin \/ T!Callback \/ T!WaitEnds \/ T!ReceiveBegins \/ T!ubertooth_bulk_init PROVE Goal
  BY <1>2 DEF T!Begin, T!Callback, T!WaitEnds, T!ReceiveBegins, T!ubertooth_bulk_init
<1>3. ASSUME T!Finish PROVE Goal
  <2>1. \A name : T!Sending(name) \in {"bulk", "polled", "idle", device}
    BY DEF T!Sending
  <2>2. device' \in {"idle", "bulk", "polled", "gone"}
    BY <1>3, <2>1 DEF T!Finish, T!Commanding
  <2> QED BY <1>3, <2>2 DEF T!Finish
<1>4. ASSUME T!HandleEvents PROVE Goal
  BY <1>4 DEF T!HandleEvents, T!cb_xfer, T!Resubmit
<1>5. ASSUME T!Called \/ T!ubertooth_stop PROVE Goal
  BY <1>5 DEF T!Called, T!ubertooth_stop, T!libusb_cancel_transfer
<1>6. ASSUME T!ubertooth_connect \/ T!register_cleanup_handler \/ T!ubertooth_set_timeout \/ T!Reset PROVE Goal
  BY <1>6 DEF T!ubertooth_connect, T!register_cleanup_handler, T!ubertooth_set_timeout, T!Reset
<1>7. ASSUME T!PollFails \/ T!Returns \/ T!Fill \/ T!TimesOut \/ T!Leave PROVE Goal
  BY <1>7 DEF T!PollFails, T!Returns, T!Fill, T!TimesOut, T!Leave
<1>8. ASSUME T!stop_transfers PROVE Goal
  BY <1>8 DEF T!stop_transfers
<1>9. ASSUME T!cleanup PROVE Goal
  <2>1. device' \in {device, "idle"} /\ UNCHANGED <<T!xfer, alarm>> /\ devh' \in {"closed", devh}
    BY <1>9 DEF T!cleanup
  <2> QED BY <2>1
<1> QED BY <1>2, <1>3, <1>4, <1>5, <1>6, <1>7, <1>8, <1>9, Zenon DEF T!Next, T!Runs

(* The numbers of the transfers, in the two buffers.                       *)
LEMMA BuffersKept ==
  ASSUME ToolTypes, T!Next
  PROVE  full' \in {0, 1} /\ sent' \in Nat /\ buffers' \in [0 .. 1 -> Nat]
<1>1. full \in {0, 1} /\ sent \in Nat /\ buffers \in [0 .. 1 -> Nat]
  BY DEF ToolTypes
<1>2. (sent + 1) % Numbers \in Nat
  BY <1>1, HostAssumption, ModRange DEF T!StreamAssumption
<1> DEFINE Goal == full' \in {0, 1} /\ sent' \in Nat /\ buffers' \in [0 .. 1 -> Nat]
<1>3. ASSUME T!Fill PROVE Goal
  <2> DEFINE s == (sent + 1) % Numbers
  <2>1. sent' = s /\ full' = full /\ buffers' = [buffers EXCEPT ![1 - full] = s]
    BY <1>3 DEF T!Fill
  <2> HIDE DEF s
  <2> QED BY <1>1, <1>2, <2>1 DEF s
<1>4. ASSUME T!HandleEvents PROVE Goal
  <2>1. UNCHANGED <<sent, buffers>> /\ (full' = full \/ full' = 1 - full)
    BY <1>4 DEF T!HandleEvents, T!cb_xfer
  <2> QED BY <1>1, <2>1
<1>5. ASSUME T!ubertooth_bulk_init PROVE Goal
  BY <1>1, <1>5 DEF T!ubertooth_bulk_init
<1>6. ASSUME T!Next, ~T!Fill, ~T!HandleEvents, ~T!ubertooth_bulk_init PROVE UNCHANGED <<full, sent, buffers>>
  BY <1>6 DEF T!Next, T!Runs, T!xfer, T!Begin, T!Finish, T!WaitEnds, T!ReceiveBegins, T!Callback, T!Called,
         T!ubertooth_connect, T!register_cleanup_handler, T!ubertooth_set_timeout, T!Reset, T!PollFails,
         T!ubertooth_stop, T!Returns, T!stop_transfers, T!cleanup, T!TimesOut, T!Leave
<1> QED BY <1>1, <1>3, <1>4, <1>5, <1>6

LEMMA TypesKept == ASSUME ToolTypes, InCall, T!Next PROVE ToolTypes'
<1>1. tool' \in DOMAIN Scripts /\ script' = Scripts[tool'] /\ pc' \in 1 .. Len(script') + 1
  <2>1. Len(script) \in Nat /\ pc \in Nat /\ pc >= 1
    BY CallsOrderly
  <2>2. tool \in DOMAIN Scripts /\ script = Scripts[tool] /\ pc \in 1 .. Len(script) + 1
    BY DEF ToolTypes
  <2>3. tool' = tool /\ script' = script /\ (pc' = pc \/ (pc' = pc + 1 /\ pc <= Len(script)))
    BY CallByCall
  <2> QED BY <2>1, <2>2, <2>3
<1> QED BY <1>1, PlacesKept, DeviceKept, BuffersKept DEF ToolTypes

LEMMA InCallKept == ASSUME ToolTypes, InCall, T!Next PROVE InCall'
<1>1. T!Running /\ script' = script /\ at \in {"start", "busy", "stopping"} \cup StreamAt
      /\ devh \in {"NULL", "open", "closed"}
  BY CallByCall DEF ToolTypes
<1>2. \/ pc' = pc /\ T!here' = T!here
      \/ at' = "start"
  BY CallByCall
<1>3. ASSUME ended' = "no", at' # "start"
      PROVE  /\ devh' = "open" /\ pc <= Len(script)
             /\ at' = "busy" => T!here.op \in {"cmd", "blink"}
             /\ at' = "stopping" => T!here.op = "stop"
             /\ at' \in StreamAt => T!here.op \in T!StreamOps
  <2> DEFINE Goal == /\ devh' = "open" /\ pc <= Len(script)
                     /\ at' = "busy" => T!here.op \in {"cmd", "blink"}
                     /\ at' = "stopping" => T!here.op = "stop"
                     /\ at' \in StreamAt => T!here.op \in T!StreamOps
  <2> USE <1>1, <1>3 DEF InCall, StreamAt, T!Running, T!place, T!At, T!Advance, T!End, T!Local, T!Done, T!Fails
  <2>1. ASSUME T!ubertooth_bulk_init PROVE Goal
    BY <2>1 DEF T!ubertooth_bulk_init, T!Streams, T!StreamOps
  <2>2. ASSUME T!Begin \/ T!WaitEnds \/ T!Callback PROVE Goal
    BY <2>2 DEF T!Begin, T!WaitEnds, T!Callback
  <2>3. ASSUME T!HandleEvents PROVE Goal
    BY <2>3 DEF T!HandleEvents, T!Commanding, T!Waiting
  <2>4. ASSUME T!Finish PROVE Goal
    BY <2>4 DEF T!Finish, T!Commanding
  <2>5. ASSUME T!ReceiveBegins PROVE Goal
    <3>1. T!here.loop \in {"until 1", "while", "until -1"}
      BY <2>5, StreamLoops DEF T!ReceiveBegins
    <3> QED BY <2>5, <3>1 DEF T!ReceiveBegins, T!Return
  <2>6. ASSUME T!Called PROVE Goal
    <3>1. T!here.loop \in {"until 1", "while", "until -1"}
      BY <2>6, StreamLoops DEF T!Called
    <3> QED BY <2>6, <3>1 DEF T!Called, T!Return
  <2>7. ASSUME T!ubertooth_connect \/ T!register_cleanup_handler \/ T!ubertooth_set_timeout \/ T!Reset
               \/ T!PollFails \/ T!Returns PROVE Goal
    BY <2>7 DEF T!ubertooth_connect, T!register_cleanup_handler, T!ubertooth_set_timeout, T!Reset, T!PollFails, T!Returns
  <2>8. ASSUME T!ubertooth_stop PROVE Goal
    BY <2>8 DEF T!ubertooth_stop
  <2>9. ASSUME T!stop_transfers \/ T!cleanup PROVE Goal
    BY <2>9 DEF T!stop_transfers, T!cleanup, T!Waiting
  <2>10. ASSUME T!Fill \/ T!TimesOut \/ T!Leave PROVE Goal
    <3>1. UNCHANGED <<at, devh>>
      BY <2>10 DEF T!Fill, T!TimesOut, T!Leave
    <3> QED BY <3>1
  <2> QED BY <2>1, <2>2, <2>3, <2>4, <2>5, <2>6, <2>7, <2>8, <2>9, <2>10, Zenon DEF T!Next, T!Runs
<1> QED BY <1>1, <1>2, <1>3 DEF InCall, T!Running

(* What there is was caused by a call.                                     *)
Caused ==
  /\ outcome # "none" => rx_xfer = "pending"
  /\ T!Running =>
       /\ NoStreams /\ at \notin StreamAt => rx_xfer = "NULL" /\ ~usb_really_full
       /\ NoTimeout => alarm = "none"
       /\ NoStreams /\ NoTimeout /\ at \notin StreamAt => ~stop_ubertooth
       /\ /\ NoSending
          /\ pc <= Len(script) /\ T!StartsSending(T!here) =>
               T!here.op # "blink" /\ at \in {"start", "busy", "starting"}
          => device \in {"idle", "gone"}

(* Out of its loop a stream comes with its call, which then has been made. *)
LEMMA LeavesStream ==
  ASSUME ToolTypes, InCall, T!Next, at \in StreamAt, at' \notin StreamAt, ended' = "no"
  PROVE  pc' = pc + 1 /\ Past' = Past \cup {T!here} /\ T!here.op \in T!StreamOps
<1>1. /\ pc \in Nat /\ pc <= Len(script) /\ T!here.op \in T!StreamOps /\ ended = "no"
      /\ T!here.loop \in {"until 1", "while", "until -1"}
      /\ T!here.op # "blink" /\ at # "start" /\ at # "busy" /\ at # "stopping"
  BY CallByCall, CallsOrderly, StreamLoops DEF T!Running, StreamAt, T!StreamOps
<1>2. T!here.op \in {"rx_syms", "specan"}
  BY <1>1 DEF T!StreamOps
<1> USE <1>1, <1>2 DEF StreamAt, T!place, T!At, T!Advance, T!End, T!Local, T!Done, T!Fails
<1>3. ASSUME T!Begin \/ T!WaitEnds \/ T!Callback \/ T!ubertooth_bulk_init \/ T!ubertooth_stop PROVE FALSE
  BY <1>3 DEF T!Begin, T!WaitEnds, T!Callback, T!ubertooth_bulk_init, T!ubertooth_stop
<1>4. ASSUME T!HandleEvents PROVE FALSE
  <2>1. at' = IF at = "receive" THEN "received" ELSE at
    BY <1>4 DEF T!HandleEvents
  <2> QED BY <2>1
<1>5. ASSUME T!Finish PROVE pc' = pc + 1
  BY <1>5 DEF T!Finish, T!Commanding
<1>6. ASSUME T!ReceiveBegins PROVE pc' = pc + 1
  BY <1>6 DEF T!ReceiveBegins, T!Return
<1>7. ASSUME T!Called PROVE pc' = pc + 1
  BY <1>7 DEF T!Called, T!Return
<1>8. ASSUME T!ubertooth_connect \/ T!register_cleanup_handler \/ T!ubertooth_set_timeout \/ T!Reset
             \/ T!PollFails \/ T!Returns PROVE FALSE
  BY <1>8 DEF T!ubertooth_connect, T!register_cleanup_handler, T!ubertooth_set_timeout, T!Reset, T!PollFails, T!Returns
<1>9. ASSUME T!stop_transfers \/ T!cleanup PROVE FALSE
  BY <1>9 DEF T!stop_transfers, T!cleanup
<1>10. ASSUME T!Fill \/ T!TimesOut \/ T!Leave PROVE FALSE
  <2>1. at' = at
    BY <1>10 DEF T!Fill, T!TimesOut, T!Leave
  <2> QED BY <2>1
<1>11. pc' = pc + 1
  BY <1>3, <1>4, <1>5, <1>6, <1>7, <1>8, <1>9, <1>10, Zenon DEF T!Next, T!Runs
<1> QED BY <1>11, CallByCall, PastMoves

(* A transfer that has an outcome was pending, and is.                     *)
LEMMA OutcomePending ==
  ASSUME ToolTypes, InCall, outcome # "none" => rx_xfer = "pending", T!Next
  PROVE  outcome' # "none" => rx_xfer' = "pending"
<1> DEFINE Goal == outcome' # "none" => rx_xfer' = "pending"
<1>1. ASSUME T!HandleEvents \/ T!ubertooth_bulk_init PROVE Goal
  BY <1>1 DEF T!HandleEvents, T!cb_xfer, T!ubertooth_bulk_init
<1>2. ASSUME T!Called \/ T!ubertooth_stop PROVE Goal
  BY <1>2 DEF T!Called, T!ubertooth_stop, T!libusb_cancel_transfer
<1>3. ASSUME T!Fill \/ T!TimesOut \/ T!Leave PROVE Goal
  BY <1>3 DEF T!Fill, T!TimesOut, T!Leave
<1>4. ASSUME T!Next, ~T!HandleEvents, ~T!ubertooth_bulk_init, ~T!Called, ~T!ubertooth_stop, ~T!Fill, ~T!TimesOut, ~T!Leave
      PROVE  UNCHANGED <<outcome, rx_xfer>>
  BY <1>4 DEF T!Next, T!Runs, T!xfer, T!Begin, T!Finish, T!WaitEnds, T!ReceiveBegins, T!Callback, T!Reset,
         T!ubertooth_connect, T!register_cleanup_handler, T!ubertooth_set_timeout, T!PollFails, T!Returns,
         T!stop_transfers, T!cleanup
<1> QED BY <1>1, <1>2, <1>3, <1>4

(* Before its first stream a tool has no transfer, and no block.           *)
LEMMA StreamsCause ==
  ASSUME ToolTypes, InCall, Caused, T!Next, ended' = "no", NoStreams', at' \notin StreamAt
  PROVE  rx_xfer' = "NULL" /\ ~usb_really_full' /\ (NoTimeout' => ~stop_ubertooth')
<1>1. T!Running /\ NoStreams /\ (NoTimeout' => NoTimeout)
  BY CallByCall DEF NoStreams, NoTimeout
<1>2. at \notin StreamAt
  <2> SUFFICES ASSUME at \in StreamAt PROVE FALSE
    OBVIOUS
  <2> QED BY LeavesStream DEF NoStreams
<1>3. rx_xfer = "NULL" /\ ~usb_really_full /\ outcome = "none" /\ (NoTimeout' => alarm = "none")
  BY <1>1, <1>2 DEF Caused
<1>4. /\ at # "starting" /\ at # "wait" /\ at # "receive" /\ at # "received" /\ at # "process"
      /\ at # "calling" /\ at # "called"
  BY <1>2 DEF StreamAt
<1>5. ~T!ubertooth_bulk_init
  <2> SUFFICES ASSUME T!ubertooth_bulk_init PROVE FALSE
    OBVIOUS
  <2>1. T!here.op \in T!StreamOps /\ T!here.op # "blink" /\ at' # "starting"
    BY Zenon DEF T!ubertooth_bulk_init, T!Streams, T!At, T!StreamOps, StreamAt
  <2>2. pc' = pc + 1
    BY <2>1 DEF T!ubertooth_bulk_init, T!Fails, T!Done, T!End, T!Advance, T!place
  <2> QED BY <2>1, <2>2, CallByCall, PastMoves DEF NoStreams
<1>6. ~T!HandleEvents /\ ~T!WaitEnds /\ ~T!ReceiveBegins /\ ~T!Callback /\ ~T!Called /\ ~T!Fill
  BY <1>3, <1>4 DEF T!HandleEvents, T!cb_xfer, T!WaitEnds, T!ReceiveBegins, T!Callback, T!Called, T!Fill
<1>7. ASSUME NoTimeout' PROVE ~T!stop_transfers
  BY <1>3, <1>7 DEF T!stop_transfers
<1>8. rx_xfer' = "NULL" /\ ~usb_really_full'
  <2>1. ASSUME T!Next, ~T!ubertooth_bulk_init, ~T!HandleEvents, ~T!Called
        PROVE  rx_xfer' = rx_xfer /\ (T!Reset \/ UNCHANGED usb_really_full)
    BY <2>1 DEF T!Next, T!Runs, T!xfer, T!Begin, T!Finish, T!WaitEnds, T!ReceiveBegins, T!Callback, T!ubertooth_stop, T!Reset,
           T!ubertooth_connect, T!register_cleanup_handler, T!ubertooth_set_timeout, T!PollFails, T!Returns,
           T!stop_transfers, T!cleanup, T!Fill, T!TimesOut, T!Leave
  <2>2. rx_xfer' = rx_xfer /\ (T!Reset \/ UNCHANGED usb_really_full)
    BY <1>5, <1>6, <2>1
  <2>3. ASSUME T!Reset PROVE usb_really_full' = FALSE
    BY <2>3 DEF T!Reset
  <2>4. rx_xfer = "NULL" /\ ~usb_really_full
    BY <1>3
  <2>5. ~usb_really_full'
    BY <2>2, <2>3, <2>4
  <2>6. rx_xfer' = "NULL"
    BY <2>2, <2>4
  <2> QED BY <2>5, <2>6
<1>9. ASSUME NoTimeout' PROVE ~stop_ubertooth'
  <2>0. ~stop_ubertooth
    BY <1>1, <1>2, <1>9 DEF Caused
  <2>1. ASSUME T!Next, ~T!HandleEvents, ~T!Callback, ~T!stop_transfers PROVE T!Reset \/ UNCHANGED stop_ubertooth
    BY <2>1 DEF T!Next, T!Runs, T!ubertooth_bulk_init, T!Begin, T!Finish, T!WaitEnds, T!ReceiveBegins, T!Called,
           T!ubertooth_stop, T!Reset, T!ubertooth_connect, T!register_cleanup_handler, T!ubertooth_set_timeout,
           T!PollFails, T!Returns, T!cleanup, T!Fill, T!TimesOut, T!Leave
  <2> QED BY <1>6, <1>7, <1>9, <2>0, <2>1 DEF T!Reset
<1> QED BY <1>8, <1>9

LEMMA TimeoutCauses ==
  ASSUME ToolTypes, InCall, Caused, T!Next, ended' = "no", NoTimeout'
  PROVE  alarm' = "none"
<1>1. NoTimeout /\ alarm = "none"
  BY CallByCall DEF NoTimeout, Caused
<1>2. ~T!stop_transfers
  BY <1>1 DEF T!stop_transfers
<1>3. ~T!ubertooth_set_timeout
  <2> SUFFICES ASSUME T!ubertooth_set_timeout PROVE FALSE
    OBVIOUS
  <2>1. T!here.op = "timeout" /\ pc' = pc + 1
    BY DEF T!ubertooth_set_timeout, T!At, T!Advance
  <2> QED BY <2>1, CallByCall, PastMoves DEF NoTimeout
<1>4. ASSUME T!Next, ~T!stop_transfers, ~T!ubertooth_set_timeout PROVE alarm' = alarm
  BY <1>4 DEF T!Next, T!Runs, T!ubertooth_bulk_init, T!Begin, T!Finish, T!HandleEvents, T!WaitEnds, T!ReceiveBegins, T!Callback,
         T!Called, T!ubertooth_stop, T!Reset, T!ubertooth_connect, T!register_cleanup_handler,
         T!PollFails, T!Returns, T!cleanup, T!Fill, T!TimesOut, T!Leave
<1> QED BY <1>1, <1>2, <1>3, <1>4

(* A stream that is in its loop does not start again.                      *)
LEMMA StartsOnce ==
  ASSUME ToolTypes, InCall, T!Next, at \in StreamAt, at # "starting", at' = "starting"
  PROVE  FALSE
<1>1. T!here.loop \in {"until 1", "while", "until -1"} /\ at # "start"
  BY CallByCall, StreamLoops DEF StreamAt
<1> USE <1>1 DEF StreamAt, T!place, T!Advance, T!End, T!Local, T!Done, T!Fails
<1>2. ASSUME T!Begin \/ T!WaitEnds \/ T!Callback \/ T!ubertooth_bulk_init \/ T!ubertooth_stop PROVE FALSE
  BY <1>2 DEF T!Begin, T!WaitEnds, T!Callback, T!ubertooth_bulk_init, T!ubertooth_stop
<1>3. ASSUME T!HandleEvents PROVE FALSE
  <2>1. at' = IF at = "receive" THEN "received" ELSE at
    BY <1>3 DEF T!HandleEvents
  <2> QED BY <2>1
<1>4. ASSUME T!Finish PROVE FALSE
  BY <1>4 DEF T!Finish, T!Commanding
<1>5. ASSUME T!ReceiveBegins PROVE FALSE
  BY <1>5 DEF T!ReceiveBegins, T!Return
<1>6. ASSUME T!Called PROVE FALSE
  BY <1>6 DEF T!Called, T!Return
<1>7. ASSUME T!ubertooth_connect \/ T!register_cleanup_handler \/ T!ubertooth_set_timeout \/ T!Reset
             \/ T!PollFails \/ T!Returns PROVE FALSE
  BY <1>7 DEF T!ubertooth_connect, T!register_cleanup_handler, T!ubertooth_set_timeout, T!Reset, T!PollFails, T!Returns
<1>8. ASSUME T!stop_transfers \/ T!cleanup PROVE FALSE
  BY <1>8 DEF T!stop_transfers, T!cleanup
<1>9. ASSUME T!Fill \/ T!TimesOut \/ T!Leave PROVE FALSE
  <2>1. at' = at
    BY <1>9 DEF T!Fill, T!TimesOut, T!Leave
  <2> QED BY <2>1
<1> QED BY <1>2, <1>3, <1>4, <1>5, <1>6, <1>7, <1>8, <1>9, Zenon DEF T!Next, T!Runs

(* The device sends when a call has made it.                               *)
NotSending ==
  /\ NoSending
  /\ pc <= Len(script) /\ T!StartsSending(T!here) =>
       T!here.op # "blink" /\ at \in {"start", "busy", "starting"}

LEMMA SendingCauses ==
  ASSUME ToolTypes, InCall, Caused, T!Next, ended' = "no", NotSending'
  PROVE  device' \in {"idle", "gone"}
<1>1. T!Running /\ script' = script /\ pc \in Nat
  BY CallByCall, CallsOrderly
<1>2. \/ pc' = pc /\ T!here' = T!here /\ Past' = Past
      \/ /\ pc' = pc + 1 /\ Past' = Past \cup {T!here} /\ pc <= Len(script)
         /\ at' = "start"
  BY CallByCall
<1>3. NoSending
  BY <1>2 DEF NotSending, NoSending
<1>4. ASSUME pc' # pc PROVE ~T!StartsSending(T!here)
  BY <1>2, <1>4 DEF NotSending, NoSending
<1>5. ASSUME pc' = pc, pc <= Len(script), T!StartsSending(T!here)
      PROVE  T!here.op # "blink" /\ at' \in {"start", "busy", "starting"}
  BY <1>1, <1>2, <1>5 DEF NotSending, T!StartsSending
<1>6. ASSUME NotSending PROVE device \in {"idle", "gone"}
  BY <1>1, <1>6 DEF NotSending, Caused
<1>7. ASSUME T!Finish PROVE device' \in {"idle", "gone"}
  <2>1. ASSUME at = "stopping" PROVE device' \in {"idle", "gone"}
    BY <1>7, <2>1 DEF T!Finish
  <2>2. ASSUME at = "starting" PROVE device' \in {"idle", "gone"}
    <3>1. pc <= Len(script) /\ T!here.op \in T!StreamOps /\ T!StartsSending(T!here) /\ T!here.op # "blink"
      BY <1>1, <2>2, Zenon DEF InCall, T!StartsSending, StreamAt, T!StreamOps
    <3>2. pc' = pc /\ at' \in {"start", "busy", "starting"}
      BY <3>1, <1>4, <1>5
    <3>3. device = "gone" /\ device' = device
      BY <1>7, <2>2, <3>2 DEF T!Finish, T!Local
    <3> QED BY <3>3
  <2>3. ASSUME at = "calling" PROVE device' \in {"idle", "gone"}
    <3>1. pc <= Len(script) /\ T!here.op \in T!StreamOps /\ T!StartsSending(T!here)
      BY <1>1, <2>3, Zenon DEF InCall, T!StartsSending, StreamAt
    <3>2. pc' = pc /\ at' = "called"
      BY <1>7, <2>3 DEF T!Finish, T!place
    <3> QED BY <3>1, <3>2, <1>5
  <2>4. ASSUME at = "busy" PROVE device' \in {"idle", "gone"}
    <3>1. pc <= Len(script) /\ T!here.op \in {"cmd", "blink"}
      BY <1>1, <2>4 DEF InCall
    <3>2. ASSUME T!StartsSending(T!here) PROVE FALSE
      <4>1. pc' = pc /\ T!here.op # "blink" /\ at' \in {"start", "busy", "starting"}
        BY <1>4, <1>5, <3>1, <3>2
      <4>2. (T!Done \/ T!Fails) /\ ended' = "no"
        BY <1>7, <2>4 DEF T!Finish
      <4> QED BY <1>1, <4>1, <4>2 DEF T!Done, T!Fails, T!Advance, T!End
    <3>3. ~T!StartsSending(T!here)
      BY <3>2
    <3>4. T!here.arg \notin {"rx_syms", "specan", "btle_sniffing", "btle_promisc", "ego"}
      BY <3>1, <3>3 DEF T!StartsSending
    <3>5. device \in {"idle", "gone"}
      BY <1>3, <1>6, <3>3 DEF NotSending
    <3>6. T!Sending(T!here.arg) \in {"idle", device}
      BY <3>4 DEF T!Sending
    <3>7. device' \in {"idle", device}
      BY <1>7, <2>4, <3>6 DEF T!Finish
    <3> QED BY <3>5, <3>7
  <2> QED BY <1>7, <2>1, <2>2, <2>3, <2>4 DEF T!Finish, T!Commanding
<1>8. ASSUME T!Leave \/ T!cleanup PROVE device' \in {"idle", "gone"}
  BY <1>8 DEF T!Leave, T!cleanup, T!End
<1>9. ASSUME ~T!Finish, ~T!Leave, ~T!cleanup PROVE device' = device
  BY <1>9 DEF T!Next, T!Runs, T!ubertooth_bulk_init, T!Begin, T!HandleEvents, T!WaitEnds, T!ReceiveBegins, T!Callback,
         T!Called, T!ubertooth_stop, T!Reset, T!ubertooth_connect, T!register_cleanup_handler, T!ubertooth_set_timeout,
         T!PollFails, T!Returns, T!stop_transfers, T!Fill, T!TimesOut
<1>10. ASSUME ~T!Finish, ~T!Leave, ~T!cleanup PROVE NotSending
  <2>1. ASSUME pc <= Len(script), T!StartsSending(T!here)
        PROVE  T!here.op # "blink" /\ at \in {"start", "busy", "starting"}
    <3>1. T!here.op # "blink" /\ at' \in {"start", "busy", "starting"} /\ pc' = pc
      BY <1>4, <1>5, <2>1
    <3>2. at = "stopping" => T!here.op = "stop"
      BY <1>1 DEF InCall
    <3>3. at # "stopping"
      BY <2>1, <3>2 DEF T!StartsSending, T!StreamOps
    <3>4. at \in {"start", "busy", "stopping"} \cup StreamAt
      BY DEF ToolTypes
    <3>5. ASSUME at \in StreamAt, at # "starting" PROVE FALSE
      <4>1. ASSUME at' \notin StreamAt PROVE FALSE
        <5>1. Past' = Past \cup {T!here}
          BY <3>5, <4>1, LeavesStream
        <5> QED BY <5>1, <2>1 DEF NotSending, NoSending
      <4>2. at' = "starting"
        BY <3>1, <4>1 DEF StreamAt
      <4>3. T!Next /\ at # "start" /\ at # "starting" /\ at # "busy" /\ at # "stopping"
        BY <3>5 DEF StreamAt
      <4> QED BY <3>5, <4>2, <4>3, StartsOnce
    <3> QED BY <3>1, <3>3, <3>4, <3>5
  <2> QED BY <1>3, <2>1 DEF NotSending
<1> QED BY <1>6, <1>7, <1>8, <1>9, <1>10

LEMMA CausedKept == ASSUME ToolTypes, InCall, Caused, T!Next PROVE Caused'
<1>1. outcome' # "none" => rx_xfer' = "pending"
  BY OutcomePending DEF Caused
<1>2. ASSUME ended' = "no", NoStreams', at' \notin StreamAt
      PROVE  rx_xfer' = "NULL" /\ ~usb_really_full' /\ (NoTimeout' => ~stop_ubertooth')
  BY <1>2, StreamsCause
<1>3. ASSUME ended' = "no", NoTimeout' PROVE alarm' = "none"
  BY <1>3, TimeoutCauses
<1>4. ASSUME ended' = "no", NotSending' PROVE device' \in {"idle", "gone"}
  BY <1>4, SendingCauses
<1> QED BY <1>1, <1>2, <1>3, <1>4 DEF Caused, NotSending, T!Running

(* Into its loop a stream comes where it starts.                           *)
LEMMA EntersStream ==
  ASSUME ToolTypes, InCall, T!Next, at \notin StreamAt, at' \in StreamAt
  PROVE  T!ubertooth_bulk_init
<1> SUFFICES ASSUME ~T!ubertooth_bulk_init PROVE FALSE
  OBVIOUS
<1> USE DEF StreamAt, T!place, T!Advance, T!End, T!Local, T!Done, T!Fails
<1>1. ASSUME T!Begin \/ T!ubertooth_stop \/ T!Finish PROVE FALSE
  BY <1>1 DEF T!Begin, T!Finish, T!Commanding, T!ubertooth_stop
<1>2. ASSUME T!HandleEvents PROVE FALSE
  <2>1. at' = IF at = "receive" THEN "received" ELSE at
    BY <1>2 DEF T!HandleEvents
  <2> QED BY <2>1
<1>3. ASSUME T!WaitEnds \/ T!ReceiveBegins \/ T!Callback \/ T!Called PROVE FALSE
  BY <1>3 DEF T!WaitEnds, T!ReceiveBegins, T!Callback, T!Called
<1>4. ASSUME T!ubertooth_connect \/ T!register_cleanup_handler \/ T!ubertooth_set_timeout \/ T!Reset
             \/ T!PollFails \/ T!Returns PROVE FALSE
  BY <1>4 DEF T!ubertooth_connect, T!register_cleanup_handler, T!ubertooth_set_timeout, T!Reset, T!PollFails, T!Returns
<1>5. ASSUME T!stop_transfers \/ T!cleanup PROVE FALSE
  BY <1>5 DEF T!stop_transfers, T!cleanup
<1>6. ASSUME T!Fill \/ T!TimesOut \/ T!Leave PROVE FALSE
  <2>1. at' = at
    BY <1>6 DEF T!Fill, T!TimesOut, T!Leave
  <2> QED BY <2>1
<1> QED BY <1>1, <1>2, <1>3, <1>4, <1>5, <1>6, Zenon DEF T!Next, T!Runs

(* The loop that goes on after a stop is never told to.                    *)
Endless ==
  T!Running /\ at \in StreamAt /\ T!here.loop = "until -1" =>
    /\ ~stop_ubertooth /\ at # "calling"
    /\ at = "starting" => ~usb_really_full /\ outcome # "full"

LEMMA EndlessKept == ASSUME ToolTypes, InCall, Caused, Endless, T!Next PROVE Endless'
<1> SUFFICES ASSUME ended' = "no", at' \in StreamAt, T!here'.loop = "until -1"
             PROVE  /\ ~stop_ubertooth' /\ at' # "calling"
                    /\ at' = "starting" => ~usb_really_full' /\ outcome' # "full"
  BY DEF Endless, T!Running
<1>1. T!Running /\ pc' = pc /\ T!here' = T!here /\ Past' = Past /\ T!here.loop = "until -1" /\ at' # "start"
  BY CallByCall DEF StreamAt
<1>2. CASE at \notin StreamAt
  <2>1. T!ubertooth_bulk_init
    BY <1>2, EntersStream
  <2>2. pc <= Len(script) /\ T!here.op \in T!StreamOps
    BY <2>1, Zenon DEF T!ubertooth_bulk_init, T!Streams, T!At, T!StreamOps
  <2>3. NoStreams /\ NoTimeout
    BY <1>1, <2>2, HereOrderly DEF NoStreams, NoTimeout, T!StreamOps
  <2>4. ~stop_ubertooth
    BY <1>1, <1>2, <2>3 DEF Caused
  <2>5. at' = "starting" /\ UNCHANGED stop_ubertooth
    BY <1>1, <2>1, <2>2 DEF T!ubertooth_bulk_init, StreamAt, T!End, T!Fails, T!Done, T!Advance, T!place, T!Local
  <2>6. usb_really_full' = FALSE /\ outcome' = "none"
    BY <2>1 DEF T!ubertooth_bulk_init
  <2> QED BY <2>4, <2>5, <2>6
<1>3. CASE at \in StreamAt
  <2>1. pc <= Len(script) /\ T!here.op \in T!StreamOps /\ T!StartsSending(T!here) /\ T!here.op # "blink"
    BY <1>1, <1>3, StreamLoops DEF T!StartsSending, T!StreamOps
  <2>2. NoSending /\ NoTimeout /\ T!here.arg = "cb_specan"
    BY <1>1, <2>1, HereOrderly DEF NoSending, NoTimeout, T!StartsSending, T!StreamOps
  <2>3. ~stop_ubertooth /\ at # "calling" /\ (at = "starting" => ~usb_really_full /\ outcome # "full")
    BY <1>1, <1>3 DEF Endless
  <2>4. alarm = "none" /\ (at = "starting" => device \in {"idle", "gone"})
    BY <1>1, <2>1, <2>2 DEF Caused
  <2>5. ~T!stop_transfers /\ (at = "starting" => ~T!Fill)
    BY <2>4 DEF T!stop_transfers, T!Fill
  <2>6. ~T!Begin /\ ~T!ubertooth_bulk_init /\ ~T!ubertooth_stop
    BY <1>3 DEF T!Begin, T!ubertooth_bulk_init, T!ubertooth_stop, StreamAt
  <2>7. ~stop_ubertooth'
    <3>1. ASSUME T!Callback PROVE UNCHANGED stop_ubertooth
      BY <3>1, <2>2 DEF T!Callback
    <3>2. ASSUME T!HandleEvents PROVE UNCHANGED stop_ubertooth
      <4>1. at \in {"busy", "starting", "stopping", "calling"} \/ ~usb_really_full
        BY <3>2 DEF T!HandleEvents, T!Commanding, T!Waiting
      <4>2. outcome = "full" => ~T!Dropped
        BY <1>3, <2>3, <4>1 DEF StreamAt, T!Dropped
      <4> QED BY <3>2, <4>2 DEF T!HandleEvents, T!cb_xfer
    <3>3. ASSUME ~T!Callback, ~T!HandleEvents PROVE UNCHANGED stop_ubertooth \/ T!Reset
      BY <3>3, <2>5, <2>6 DEF T!Next, T!Runs, T!Finish, T!WaitEnds, T!ReceiveBegins, T!Called, T!ubertooth_connect,
         T!register_cleanup_handler, T!ubertooth_set_timeout, T!PollFails, T!Returns, T!cleanup, T!Fill, T!TimesOut, T!Leave
    <3>4. ASSUME T!Reset PROVE stop_ubertooth' = FALSE
      BY <3>4 DEF T!Reset
    <3>5. UNCHANGED stop_ubertooth \/ stop_ubertooth' = FALSE
      BY <3>1, <3>2, <3>3, <3>4
    <3> QED BY <2>3, <3>5
  <2>8. at' # "calling"
    <3>1. ASSUME T!Callback PROVE at' # "calling"
      BY <3>1, <2>2 DEF T!Callback, T!Local
    <3>2. ASSUME ~T!Callback, at' = "calling" PROVE FALSE
      <4>1. T!here.loop = "until -1"
        BY <1>1
      <4>2. ~T!HandleEvents /\ ~T!Fill /\ ~T!TimesOut /\ ~T!Leave
        BY <2>3, <3>2 DEF T!HandleEvents, T!Fill, T!TimesOut, T!Leave
      <4>3. ~T!Finish /\ ~T!WaitEnds /\ ~T!ReceiveBegins /\ ~T!Called
        BY <1>1, <2>3, <3>2, <4>1
           DEF T!Finish, T!Commanding, T!WaitEnds, T!ReceiveBegins, T!Called, T!Local, T!Advance, T!End, T!Return, T!Done, T!Fails
      <4> QED BY <2>3, <2>5, <2>6, <3>2, <4>2, <4>3
          DEF T!Next, T!Runs, T!ubertooth_connect, T!register_cleanup_handler, T!ubertooth_set_timeout, T!Reset,
              T!PollFails, T!Returns, T!cleanup, T!End, T!Advance, T!Fails, T!Done, T!Local
    <3> QED BY <3>1, <3>2
  <2>9. ASSUME at' = "starting" PROVE ~usb_really_full' /\ outcome' # "full"
    <3>1. at = "starting"
      BY <1>3, <2>9, StartsOnce
    <3>2. ~T!Fill /\ ~T!Callback /\ ~T!Called /\ ~T!WaitEnds /\ ~T!ReceiveBegins /\ ~usb_really_full /\ outcome # "full"
      BY <2>3, <2>5, <3>1 DEF T!Callback, T!Called, T!WaitEnds, T!ReceiveBegins
    <3>3. ASSUME T!HandleEvents PROVE UNCHANGED usb_really_full /\ outcome' = "none"
      BY <3>3, <3>2 DEF ToolTypes, T!HandleEvents, T!cb_xfer
    <3>4. ASSUME ~T!HandleEvents PROVE /\ UNCHANGED usb_really_full \/ T!Reset
                                     /\ outcome' \in {outcome, "error", "timed out"}
      BY <3>4, <3>2, <2>5, <2>6 DEF T!Next, T!Runs, T!xfer, T!Finish, T!ubertooth_connect,
         T!register_cleanup_handler, T!ubertooth_set_timeout, T!Reset, T!PollFails, T!Returns, T!cleanup, T!TimesOut, T!Leave
    <3>5. ASSUME T!Reset PROVE usb_really_full' = FALSE
      BY <3>5 DEF T!Reset
    <3>6. UNCHANGED usb_really_full \/ usb_really_full' = FALSE
      BY <3>3, <3>4, <3>5
    <3>7. ~usb_really_full'
      BY <3>2, <3>6
    <3>8. outcome' # "full"
      BY <3>2, <3>3, <3>4
    <3> QED BY <3>7, <3>8
  <2> QED BY <2>7, <2>8, <2>9
<1> QED BY <1>2, <1>3

(* The last block that came from the transfer, which is before or in its   *)
(* callbacks.                                                              *)
Following(n) == (n + 1) % Numbers
Last == IF usb_really_full /\ at \notin TakenAt THEN Following(taken) ELSE taken

(* A block is in its buffer until its callbacks have had it, and what the  *)
(* device fills meanwhile is the other buffer, with the one that follows.  *)
InOrder ==
  T!Running /\ at \in StreamAt =>
    /\ at \in TakenAt => usb_really_full
    /\ usb_really_full => buffers[full] = Last
    /\ rx_xfer = "pending" =>
         IF outcome = "full" THEN sent = Following(Last) /\ buffers[1 - full] = sent
         ELSE sent = Last

(* The other calls are not made while a stream is in its loop.             *)
LEMMA StreamActions ==
  ASSUME ToolTypes, InCall, T!Next, at \in StreamAt, ended' = "no"
  PROVE  \/ T!HandleEvents \/ T!Finish \/ T!WaitEnds \/ T!ReceiveBegins \/ T!Callback \/ T!Called
         \/ T!stop_transfers \/ T!Fill \/ T!TimesOut \/ T!Leave
<1>1. T!here.op \in T!StreamOps /\ pc <= Len(script) /\ at # "start" /\ Len(script) \in Nat /\ pc \in Nat
  BY StreamLoops, CallByCall, CallsOrderly DEF StreamAt
<1>2. ASSUME T!ubertooth_bulk_init \/ T!Begin \/ T!ubertooth_stop PROVE FALSE
  BY <1>1, <1>2 DEF T!ubertooth_bulk_init, T!Begin, T!ubertooth_stop
<1>3. ASSUME T!ubertooth_connect \/ T!register_cleanup_handler \/ T!ubertooth_set_timeout \/ T!Reset
             \/ T!PollFails \/ T!Returns PROVE FALSE
  BY <1>1, <1>3 DEF T!ubertooth_connect, T!register_cleanup_handler, T!ubertooth_set_timeout, T!Reset,
                    T!PollFails, T!Returns, T!StreamOps, T!At
<1>4. ASSUME T!cleanup PROVE FALSE
  BY <1>4 DEF T!cleanup, T!End
<1> QED BY <1>2, <1>3, <1>4, Zenon DEF T!Next, T!Runs

LEMMA InOrderKept == ASSUME ToolTypes, InCall, Caused, Endless, InOrder, T!Next PROVE InOrder'
<1> DEFINE Goal == /\ at' \in TakenAt => usb_really_full'
                   /\ usb_really_full' => buffers'[full'] = Last'
                   /\ rx_xfer' = "pending" =>
                        IF outcome' = "full" THEN sent' = Following(Last)' /\ buffers'[1 - full'] = sent'
                        ELSE sent' = Last'
<1> SUFFICES ASSUME ended' = "no", at' \in StreamAt PROVE Goal
  BY DEF InOrder, T!Running
<1>1. T!Running /\ pc' = pc /\ T!here' = T!here /\ at' # "start"
  BY CallByCall DEF StreamAt
<1>2. CASE at \notin StreamAt
  <2>1. T!ubertooth_bulk_init
    BY <1>2, EntersStream
  <2>2. /\ ~usb_really_full' /\ outcome' = "none" /\ taken' = sent /\ sent' = sent
    BY <2>1 DEF T!ubertooth_bulk_init
  <2>3. at' = "starting"
    <3>1. T!here.op # "blink"
      BY <2>1, Zenon DEF T!ubertooth_bulk_init, T!Streams, T!At
    <3> QED BY <1>1, <2>1, <3>1 DEF T!ubertooth_bulk_init, T!End, T!Fails, T!Done, T!Advance, T!place, T!Local, StreamAt
  <2> QED BY <2>2, <2>3 DEF Last, TakenAt
<1>3. CASE at \in StreamAt
  <2>1. /\ at \in TakenAt => usb_really_full
        /\ usb_really_full => buffers[full] = Last
        /\ rx_xfer = "pending" =>
             IF outcome = "full" THEN sent = Following(Last) /\ buffers[1 - full] = sent
             ELSE sent = Last
        /\ outcome # "none" => rx_xfer = "pending"
    BY <1>1, <1>3 DEF InOrder, Caused
  <2>2. /\ T!here.loop \in {"until 1", "while", "until -1"}
        /\ T!here.loop = "until -1" => ~stop_ubertooth
    BY <1>1, <1>3, StreamLoops DEF Endless
  <2>3. full \in {0, 1} /\ buffers \in [0 .. 1 -> Nat] /\ full # 1 - full /\ 1 - full \in 0 .. 1 /\ full \in 0 .. 1
    <3>1. full \in {0, 1} /\ buffers \in [0 .. 1 -> Nat]
      BY DEF ToolTypes
    <3> QED BY <3>1
  <2>4. ASSUME /\ UNCHANGED <<usb_really_full, full, buffers, sent, taken, rx_xfer>>
               /\ outcome' = outcome \/ (outcome' # "full" /\ outcome # "full")
               /\ at' \in TakenAt <=> at \in TakenAt
        PROVE  Goal
    <3>1. Last' = Last
      BY <2>4 DEF Last, Following
    <3>2. at' \in TakenAt => usb_really_full'
      BY <2>1, <2>4
    <3>3. usb_really_full' => buffers'[full'] = Last'
      BY <2>1, <2>4, <3>1
    <3>4. Following(Last)' = Following(Last)
      BY <3>1 DEF Following
    <3> QED BY <2>1, <2>4, <3>1, <3>2, <3>3, <3>4
  <2>5. ASSUME T!HandleEvents PROVE Goal
    <3>1. /\ UNCHANGED <<buffers, sent, taken>> /\ outcome' = "none" /\ outcome # "none"
          /\ at' \in TakenAt <=> at \in TakenAt
      BY <2>5 DEF T!HandleEvents, T!cb_xfer, TakenAt
    <3>2. CASE outcome # "full" \/ T!Dropped
      <4>1. UNCHANGED <<full, usb_really_full>> /\ (rx_xfer' = "pending" => outcome # "full")
        BY <2>5, <3>2 DEF T!HandleEvents, T!cb_xfer, ToolTypes
      <4>2. Last' = Last
        BY <3>1, <4>1 DEF Last, Following
      <4>3. at' \in TakenAt => usb_really_full'
        BY <2>1, <3>1, <4>1
      <4>4. usb_really_full' => buffers'[full'] = Last'
        BY <2>1, <3>1, <4>1, <4>2
      <4>5. rx_xfer' = "pending" => sent' = Last'
        BY <2>1, <3>1, <4>1, <4>2
      <4> QED BY <3>1, <4>3, <4>4, <4>5
    <3>3. CASE outcome = "full" /\ ~T!Dropped
      <4>1. full' = 1 - full /\ usb_really_full' = TRUE /\ ~usb_really_full
        BY <2>5, <3>3 DEF T!HandleEvents, T!cb_xfer, T!Dropped
      <4>2. at \notin TakenAt /\ at' \notin TakenAt
        BY <2>1, <3>1, <4>1
      <4>3. Last = taken /\ Last' = Following(taken)
        BY <3>1, <4>1, <4>2 DEF Last, Following
      <4>4. sent = Last' /\ buffers[1 - full] = Last'
        BY <2>1, <3>1, <3>3, <4>3
      <4> QED BY <3>1, <4>1, <4>4
    <3> QED BY <3>2, <3>3
  <2>6. ASSUME T!Fill PROVE Goal
    <3>1. /\ UNCHANGED <<usb_really_full, full, taken, at>> /\ rx_xfer = "pending" /\ outcome = "none"
          /\ sent' = Following(sent) /\ buffers' = [buffers EXCEPT ![1 - full] = sent'] /\ outcome' = "full"
      BY <2>6 DEF T!Fill, Following
    <3>2. Last' = Last /\ sent = Last
      BY <2>1, <3>1 DEF Last, Following
    <3>3. buffers'[1 - full'] = sent' /\ buffers'[full'] = buffers[full]
      BY <2>3, <3>1
    <3>4. sent' = Following(Last)'
      BY <3>1, <3>2 DEF Following
    <3>5. at' \in TakenAt => usb_really_full'
      BY <2>1, <3>1
    <3>6. usb_really_full' => buffers'[full'] = Last'
      BY <2>1, <3>1, <3>2, <3>3
    <3> QED BY <3>1, <3>3, <3>4, <3>5, <3>6
  <2>7. ASSUME T!ReceiveBegins PROVE Goal
    <3>1. at \notin TakenAt /\ UNCHANGED <<full, buffers, sent, rx_xfer, outcome, usb_really_full>>
      BY <2>7 DEF T!ReceiveBegins, TakenAt, T!xfer
    <3>2. CASE usb_really_full
      <4>1. at' = "process" /\ taken' = Following(taken)
        BY <2>7, <3>2 DEF T!ReceiveBegins, T!Local, Following
      <4>2. Last' = Last
        BY <3>1, <3>2, <4>1 DEF Last, TakenAt
      <4>3. usb_really_full'
        BY <3>1, <3>2
      <4>4. Following(Last)' = Following(Last)
        BY <4>2 DEF Following
      <4> QED BY <2>1, <3>1, <3>2, <4>2, <4>3, <4>4
    <3>3. CASE ~usb_really_full
      <4>1. at' \notin TakenAt /\ UNCHANGED taken
        BY <1>1, <2>2, <2>7, <3>1, <3>3
           DEF T!ReceiveBegins, T!Return, T!Local, T!Advance, T!End, TakenAt, T!place
      <4> QED BY <2>4, <3>1, <4>1
    <3> QED BY <3>2, <3>3
  <2>8. ASSUME T!Called PROVE Goal
    <3>1. /\ at = "called" /\ UNCHANGED <<full, buffers, sent, taken, rx_xfer>>
          /\ outcome' = outcome \/ (outcome' # "full" /\ outcome # "full")
      BY <2>8 DEF T!Called, T!libusb_cancel_transfer
    <3>2. usb_really_full /\ Last = taken
      BY <2>1, <3>1 DEF TakenAt, Last
    <3>3. CASE stop_ubertooth
      BY <1>1, <2>2, <2>8, <3>3 DEF T!Called, T!Return, T!Local, T!Advance, T!place
    <3>4. CASE ~stop_ubertooth /\ i < PKTS_PER_XFER
      <4>1. at' = "process" /\ UNCHANGED usb_really_full
        BY <2>8, <3>4 DEF T!Called, T!Local
      <4>2. at' \in TakenAt <=> at \in TakenAt
        BY <3>1, <4>1 DEF TakenAt
      <4> QED BY <2>4, <3>1, <4>1, <4>2
    <3>5. CASE ~stop_ubertooth /\ ~(i < PKTS_PER_XFER)
      <4>1. usb_really_full' = FALSE /\ T!Return(0)
        BY <2>8, <3>5 DEF T!Called, T!Emptied
      <4>2. at' = "wait"
        BY <1>1, <2>2, <3>5, <4>1 DEF T!Return, T!Local, T!Advance, T!End, T!place
      <4>3. Last' = taken
        BY <3>1, <4>1, <4>2 DEF Last
      <4>4. Following(Last)' = Following(Last)
        BY <4>3, <3>2 DEF Following
      <4> QED BY <2>1, <3>1, <3>2, <4>1, <4>2, <4>3, <4>4 DEF TakenAt
    <3> QED BY <3>3, <3>4, <3>5
  <2>9. ASSUME T!Finish \/ T!WaitEnds \/ T!Callback \/ T!stop_transfers \/ T!TimesOut \/ T!Leave PROVE Goal
    <3>1. /\ UNCHANGED <<usb_really_full, full, buffers, sent, taken, rx_xfer>>
          /\ outcome' = outcome \/ (outcome' # "full" /\ outcome # "full")
      BY <2>9 DEF T!Finish, T!WaitEnds, T!Callback, T!stop_transfers, T!TimesOut, T!Leave, T!xfer
    <3>2. at' \in TakenAt <=> at \in TakenAt
      <4>1. CASE T!Finish
        BY <1>1, <1>3, <4>1 DEF T!Finish, T!Commanding, T!Local, T!Fails, T!Done, T!Advance, T!End, TakenAt, StreamAt, T!place
      <4>2. CASE T!WaitEnds \/ T!Callback \/ T!stop_transfers
        BY <4>2 DEF T!WaitEnds, T!Callback, T!stop_transfers, T!Local, TakenAt
      <4>3. CASE T!TimesOut \/ T!Leave
        <5>1. at' = at
          BY <4>3 DEF T!TimesOut, T!Leave
        <5> QED BY <5>1
      <4> QED BY <2>9, <4>1, <4>2, <4>3
    <3> QED BY <2>4, <3>1, <3>2
  <2> QED BY <1>3, <2>5, <2>6, <2>7, <2>8, <2>9, StreamActions
<1> QED BY <1>2, <1>3

LEMMA InOrderSafe == ToolTypes /\ InOrder => T!ReceivesInOrder
<1> SUFFICES ASSUME ToolTypes, InOrder, T!Running, at = "process" PROVE buffers[full] = taken
  BY DEF T!ReceivesInOrder
<1> QED BY DEF InOrder, Last, StreamAt, TakenAt

(* A transfer that is left pending is not submitted again, and the one of  *)
(* a device that is closed is not pending, but for the race.               *)
LeftPending ==
  /\ T!Running /\ at \notin StreamAt /\ rx_xfer = "pending" =>
       stop_ubertooth \/ device = "gone" \/ raced
  /\ T!Running /\ at = "stopping" /\ rx_xfer = "pending" =>
       raced \/ outcome \in {"cancelled", "error", "full"}
  /\ devh = "closed" /\ ended \in {"no", "returned"} =>
       (rx_xfer # "pending" \/ raced) /\ device \in {"idle", "gone"}

(* What is so stays so, while no call resets the flags.                    *)
LEMMA StopsForGood ==
  ASSUME ToolTypes, T!Next, ended' = "no", ~T!Reset
  PROVE  /\ stop_ubertooth => stop_ubertooth'
         /\ device = "gone" => device' = "gone"
         /\ raced => raced'
<1>1. stop_ubertooth => stop_ubertooth'
  <2>1. ASSUME T!HandleEvents \/ T!Callback \/ T!stop_transfers
        PROVE  stop_ubertooth' = stop_ubertooth \/ stop_ubertooth' = TRUE
    BY <2>1 DEF T!HandleEvents, T!cb_xfer, T!Callback, T!stop_transfers
  <2>2. ASSUME ~T!HandleEvents, ~T!Callback, ~T!stop_transfers PROVE stop_ubertooth' = stop_ubertooth
    BY <2>2 DEF T!Next, T!Runs, T!ubertooth_bulk_init, T!Begin, T!Finish, T!WaitEnds, T!ReceiveBegins, T!Called,
           T!ubertooth_stop, T!ubertooth_connect, T!register_cleanup_handler, T!ubertooth_set_timeout,
           T!PollFails, T!Returns, T!cleanup, T!Fill, T!TimesOut, T!Leave
  <2> QED BY <2>1, <2>2
<1>2. device = "gone" => device' = "gone"
  <2>1. ASSUME T!Finish, device = "gone" PROVE device' = "gone"
    BY <2>1 DEF T!Finish, T!Commanding
  <2>2. ASSUME T!cleanup PROVE FALSE
    BY <2>2 DEF T!cleanup, T!End
  <2>3. ASSUME T!Leave PROVE device' = "gone"
    BY <2>3 DEF T!Leave
  <2>4. ASSUME ~T!Finish, ~T!cleanup, ~T!Leave PROVE device' = device
    BY <2>4 DEF T!Next, T!Runs, T!ubertooth_bulk_init, T!Begin, T!HandleEvents, T!WaitEnds, T!ReceiveBegins, T!Callback,
         T!Called, T!ubertooth_stop, T!ubertooth_connect, T!register_cleanup_handler, T!ubertooth_set_timeout,
         T!PollFails, T!Returns, T!stop_transfers, T!Fill, T!TimesOut
  <2> QED BY <2>1, <2>2, <2>3, <2>4
<1>3. raced => raced'
  <2>1. ASSUME T!Called \/ T!ubertooth_stop PROVE raced' = raced \/ T!libusb_cancel_transfer
    BY <2>1 DEF T!Called, T!ubertooth_stop
  <2>2. ASSUME T!libusb_cancel_transfer PROVE raced => raced'
    BY <2>2, Zenon DEF T!libusb_cancel_transfer
  <2>3. ASSUME ~T!Called, ~T!ubertooth_stop PROVE raced' = raced
    BY <2>3 DEF T!Next, T!Runs, T!ubertooth_bulk_init, T!Begin, T!Finish, T!HandleEvents, T!WaitEnds, T!ReceiveBegins,
         T!Callback, T!ubertooth_connect, T!register_cleanup_handler, T!ubertooth_set_timeout,
         T!PollFails, T!Returns, T!cleanup, T!stop_transfers, T!Fill, T!TimesOut, T!Leave
  <2> QED BY <2>1, <2>2, <2>3
<1> QED BY <1>1, <1>2, <1>3

LEMMA ResetsNothing == ASSUME ToolTypes, InCall, Caused, T!Reset, T!Running PROVE rx_xfer = "NULL"
<1>1. T!here.op = "reset" /\ pc <= Len(script)
  BY DEF T!Reset, T!At
<1>2. NoStreams
  BY <1>1, HereOrderly
<1>3. at \notin StreamAt
  BY <1>1, StreamLoops DEF T!StreamOps
<1> QED BY <1>2, <1>3 DEF Caused

LEMMA NotOne == -1 # 1 /\ 0 # 1
OBVIOUS

(* Of a loop that was not told to stop, nothing of the stream ends but it. *)
LEMMA ReturnsToLoop ==
  ASSUME NEW r, r # 1, T!here.loop \in {"until 1", "while", "until -1"},
         ~stop_ubertooth, T!Return(r)
  PROVE  pc' = pc
<1> USE DEF T!Return, T!Local, T!End, T!place
<1>1. CASE T!here.loop = "until 1"
  <2>1. T!Local("wait")
    BY <1>1, Zenon
  <2> QED BY <2>1
<1>2. CASE T!here.loop = "while"
  BY <1>2
<1>3. CASE T!here.loop = "until -1"
  BY <1>3
<1> QED BY <1>1, <1>2, <1>3

LEMMA PendingOutside ==
  ASSUME ToolTypes, InCall, Caused, LeftPending, T!Next,
         ended' = "no", at' \notin StreamAt, rx_xfer' = "pending"
  PROVE  stop_ubertooth' \/ device' = "gone" \/ raced'
<1>1. T!Running
  BY CallByCall
<1>2. ~T!Reset
  BY <1>1, ResetsNothing DEF T!Reset
<1>3. CASE at \in StreamAt
  <2>0. T!here.loop \in {"until 1", "while", "until -1"}
    BY <1>1, <1>3, StreamLoops
  <2>1. pc' # pc
    <3>1. pc' = pc + 1
      BY <1>3, LeavesStream
    <3>2. pc \in Nat
      BY CallsOrderly
    <3> QED BY <3>1, <3>2
  <2>2. ASSUME T!Finish PROVE device' = "gone"
    BY <1>3, <2>1, <2>2 DEF T!Finish, T!Commanding, T!Local, StreamAt, T!place
  <2>3. ASSUME T!ReceiveBegins \/ T!Called PROVE stop_ubertooth'
    <3>1. ASSUME T!ReceiveBegins, ~stop_ubertooth PROVE pc' = pc
      <4>1. ASSUME ~usb_really_full PROVE T!Return(-1)
        BY <3>1, <4>1 DEF T!ReceiveBegins
      <4>2. ASSUME usb_really_full PROVE pc' = pc
        BY <3>1, <4>2 DEF T!ReceiveBegins, T!Local, T!place
      <4>3. ASSUME T!Return(-1) PROVE pc' = pc
        BY <2>0, <3>1, <4>3, NotOne, ReturnsToLoop, Zenon
      <4> QED BY <4>1, <4>2, <4>3
    <3>2. ASSUME T!Called, ~stop_ubertooth PROVE pc' = pc
      <4>1. T!Local("process") \/ T!Return(0)
        BY <3>2 DEF T!Called
      <4>2. ASSUME T!Return(0) PROVE pc' = pc
        BY <2>0, <3>2, <4>2, NotOne, ReturnsToLoop, Zenon
      <4> QED BY <4>1, <4>2 DEF T!Local, T!place
    <3>3. stop_ubertooth' = stop_ubertooth
      BY <2>3 DEF T!ReceiveBegins, T!Called
    <3> QED BY <2>1, <2>3, <3>1, <3>2, <3>3
  <2>4. ASSUME T!HandleEvents \/ T!WaitEnds \/ T!Callback \/ T!stop_transfers \/ T!Fill \/ T!TimesOut \/ T!Leave
        PROVE  pc' = pc
    BY <2>4 DEF T!HandleEvents, T!WaitEnds, T!Callback, T!stop_transfers, T!Fill, T!TimesOut, T!Leave, T!Local, T!place
  <2> QED BY <1>3, <2>1, <2>2, <2>3, <2>4, StreamActions
<1>4. CASE at \notin StreamAt
  <2>1. rx_xfer = "pending"
    <3>1. ASSUME T!ubertooth_bulk_init PROVE FALSE
      BY <3>1 DEF T!ubertooth_bulk_init, StreamAt
    <3>2. ASSUME T!HandleEvents PROVE rx_xfer = "pending"
      BY <3>2 DEF T!HandleEvents, T!cb_xfer, Caused
    <3>3. ASSUME ~T!HandleEvents, ~T!ubertooth_bulk_init PROVE rx_xfer' = rx_xfer
      BY <3>3 DEF T!Next, T!Runs, T!xfer, T!Begin, T!Finish, T!WaitEnds, T!ReceiveBegins, T!Callback, T!Called, T!ubertooth_stop, T!Reset,
           T!ubertooth_connect, T!register_cleanup_handler, T!ubertooth_set_timeout, T!PollFails, T!Returns,
           T!stop_transfers, T!cleanup, T!Fill, T!TimesOut, T!Leave
    <3> QED BY <3>1, <3>2, <3>3
  <2>2. stop_ubertooth \/ device = "gone" \/ raced
    BY <1>1, <1>4, <2>1 DEF LeftPending
  <2> QED BY <1>2, <2>2, StopsForGood
<1> QED BY <1>3, <1>4

LEMMA StoppingStarts ==
  ASSUME ToolTypes, InCall, T!Next, ended' = "no", at' = "stopping", ~T!ubertooth_stop
  PROVE  at = "stopping"
<1> SUFFICES ASSUME at # "stopping" PROVE FALSE
  OBVIOUS
<1> USE DEF T!place, T!Advance, T!End, T!Local, T!Done, T!Fails
<1>1. ASSUME at \in StreamAt PROVE FALSE
  <2>1. at' = "start"
    BY <1>1, LeavesStream, CallByCall, CallsOrderly DEF StreamAt
  <2> QED BY <2>1
<1>2. ASSUME T!Begin \/ T!Finish \/ T!ubertooth_bulk_init PROVE FALSE
  BY <1>2 DEF T!Begin, T!Finish, T!Commanding, T!ubertooth_bulk_init
<1>3. ASSUME T!HandleEvents PROVE FALSE
  <2>1. at' = IF at = "receive" THEN "received" ELSE at
    BY <1>3 DEF T!HandleEvents
  <2> QED BY <2>1
<1>4. ASSUME T!WaitEnds \/ T!ReceiveBegins \/ T!Callback \/ T!Called PROVE FALSE
  BY <1>1, <1>4 DEF T!WaitEnds, T!ReceiveBegins, T!Callback, T!Called, StreamAt
<1>5. ASSUME T!ubertooth_connect \/ T!register_cleanup_handler \/ T!ubertooth_set_timeout \/ T!Reset
             \/ T!PollFails \/ T!Returns PROVE FALSE
  BY <1>5 DEF T!ubertooth_connect, T!register_cleanup_handler, T!ubertooth_set_timeout, T!Reset, T!PollFails, T!Returns
<1>6. ASSUME T!stop_transfers \/ T!cleanup PROVE FALSE
  BY <1>6 DEF T!stop_transfers, T!cleanup
<1>7. ASSUME T!Fill \/ T!TimesOut \/ T!Leave PROVE FALSE
  <2>1. at' = at
    BY <1>7 DEF T!Fill, T!TimesOut, T!Leave
  <2> QED BY <2>1
<1> QED BY <1>2, <1>3, <1>4, <1>5, <1>6, <1>7, Zenon DEF T!Next, T!Runs

LEMMA PendingStopping ==
  ASSUME ToolTypes, InCall, Caused, LeftPending, T!Next,
         ended' = "no", at' = "stopping", rx_xfer' = "pending"
  PROVE  raced' \/ outcome' \in {"cancelled", "error", "full"}
<1>1. T!Running /\ outcome \in {"none", "full", "timed out", "error", "cancelled"}
  BY CallByCall DEF ToolTypes
<1>2. CASE T!ubertooth_stop
  <2>1. rx_xfer = "pending" /\ T!libusb_cancel_transfer
    BY <1>2 DEF T!ubertooth_stop, T!End, T!place
  <2>2. outcome' = IF outcome = "none" THEN "cancelled" ELSE outcome
    BY <2>1 DEF T!libusb_cancel_transfer
  <2>3. ASSUME outcome = "timed out" PROVE raced'
    BY <2>1, <2>3, Zenon DEF T!libusb_cancel_transfer
  <2> QED BY <1>1, <2>2, <2>3
<1>3. CASE ~T!ubertooth_stop
  <2>1. at = "stopping"
    BY <1>3, StoppingStarts
  <2>2. ~T!Reset /\ ~T!Finish /\ ~T!ubertooth_bulk_init
    BY <1>1, <2>1 DEF InCall, T!Reset, T!At, T!Finish, T!Advance, T!ubertooth_bulk_init
  <2>3. raced => raced'
    BY <2>2, StopsForGood
  <2>4. rx_xfer = "pending" => /\ raced \/ outcome \in {"cancelled", "error", "full"}
                               /\ stop_ubertooth \/ device = "gone" \/ raced
    BY <1>1, <2>1 DEF LeftPending, StreamAt
  <2>5. CASE T!HandleEvents
    <3>1. rx_xfer = "pending" /\ outcome \notin {"error", "cancelled"}
      BY <2>5 DEF T!HandleEvents, T!cb_xfer, Caused
    <3>2. ASSUME outcome = "full" PROVE ~stop_ubertooth /\ device # "gone"
      BY <2>5, <3>2 DEF T!HandleEvents, T!cb_xfer, T!Dropped
    <3> QED BY <2>3, <2>4, <3>1, <3>2
  <2>6. CASE T!Fill \/ T!TimesOut \/ T!Leave
    <3>1. rx_xfer = "pending"
      BY <2>6 DEF T!Fill, T!TimesOut, T!Leave
    <3>2. outcome = "none" \/ outcome' = outcome
      BY <2>6 DEF T!Fill, T!TimesOut, T!Leave
    <3> QED BY <2>3, <2>4, <3>1, <3>2
  <2>7. CASE ~T!HandleEvents /\ ~T!Fill /\ ~T!TimesOut /\ ~T!Leave
    <3>1. ~T!Called
      BY <2>1 DEF T!Called
    <3>2. UNCHANGED <<rx_xfer, outcome>>
      BY <1>3, <2>2, <2>7, <3>1 DEF T!Next, T!Runs, T!xfer, T!Begin, T!WaitEnds, T!ReceiveBegins, T!Callback,
           T!ubertooth_connect, T!register_cleanup_handler, T!ubertooth_set_timeout, T!PollFails, T!Returns,
           T!stop_transfers, T!cleanup
    <3> QED BY <2>3, <2>4, <3>2
  <2> QED BY <2>5, <2>6, <2>7
<1> QED BY <1>2, <1>3

LEMMA ClosedQuiet ==
  ASSUME ToolTypes, InCall, Caused, LeftPending, T!Next, devh' = "closed", ended' \in {"no", "returned"}
  PROVE  (rx_xfer' # "pending" \/ raced') /\ device' \in {"idle", "gone"}
<1>1. ended = "no" /\ T!Running /\ ~T!cleanup
  BY CallByCall DEF T!Running, T!cleanup, T!End
<1>2. CASE devh = "closed"
  <2>1. (rx_xfer # "pending" \/ raced) /\ device \in {"idle", "gone"} /\ at = "start"
    BY <1>1, <1>2 DEF LeftPending, InCall
  <2>2. /\ ~T!HandleEvents /\ ~T!Finish /\ ~T!WaitEnds /\ ~T!ReceiveBegins /\ ~T!Callback /\ ~T!Called
        /\ ~T!ubertooth_bulk_init /\ ~T!ubertooth_stop
    BY <1>2, <2>1 DEF T!HandleEvents, T!Commanding, T!Waiting, T!Finish, T!WaitEnds, T!ReceiveBegins, T!Callback, T!Called,
                      T!ubertooth_bulk_init, T!ubertooth_stop, T!End
  <2>3. UNCHANGED <<rx_xfer, raced>> /\ device' \in {device, "gone"}
    BY <1>1, <2>2 DEF T!Next, T!Runs, T!xfer, T!Begin, T!Reset, T!ubertooth_connect, T!register_cleanup_handler,
           T!ubertooth_set_timeout, T!PollFails, T!Returns, T!stop_transfers, T!Fill, T!TimesOut, T!Leave
  <2> QED BY <2>1, <2>3
<1>3. CASE devh # "closed"
  <2>1. T!ubertooth_connect \/ T!Finish
    BY <1>1, <1>3 DEF T!Next, T!Runs, T!ubertooth_bulk_init, T!Begin, T!HandleEvents, T!WaitEnds, T!ReceiveBegins, T!Callback,
         T!Called, T!ubertooth_stop, T!Reset, T!register_cleanup_handler, T!ubertooth_set_timeout,
         T!PollFails, T!Returns, T!stop_transfers, T!Fill, T!TimesOut, T!Leave
  <2>2. CASE T!ubertooth_connect
    <3>1. T!here.op = "connect" /\ pc <= Len(script) /\ UNCHANGED <<rx_xfer, device>>
      BY <2>2 DEF T!ubertooth_connect, T!At, T!xfer
    <3>2. NoSending
      BY <3>1, HereOrderly
    <3>3. at \notin StreamAt
      BY <1>1, <3>1, StreamLoops DEF T!StreamOps
    <3>4. NoStreams
      BY <3>2 DEF NoSending, NoStreams, T!StartsSending
    <3>5. ~T!StartsSending(T!here)
      BY <3>1 DEF T!StartsSending, T!StreamOps
    <3> QED BY <1>1, <3>1, <3>2, <3>3, <3>4, <3>5 DEF Caused
  <2>3. CASE T!Finish
    <3>1. at = "stopping" /\ outcome = "none" /\ UNCHANGED <<rx_xfer, raced>> /\ device' \in {"idle", "gone"}
      BY <1>3, <2>3 DEF T!Finish, T!xfer
    <3>2. rx_xfer = "pending" => raced
      BY <1>1, <3>1 DEF LeftPending
    <3> QED BY <3>1, <3>2
  <2> QED BY <2>1, <2>2, <2>3
<1> QED BY <1>2, <1>3

LEMMA LeftPendingKept == ASSUME ToolTypes, InCall, Caused, LeftPending, T!Next PROVE LeftPending'
<1>1. ASSUME ended' = "no", at' \notin StreamAt, rx_xfer' = "pending"
      PROVE  stop_ubertooth' \/ device' = "gone" \/ raced'
  BY <1>1, PendingOutside
<1>2. ASSUME ended' = "no", at' = "stopping", rx_xfer' = "pending"
      PROVE  raced' \/ outcome' \in {"cancelled", "error", "full"}
  BY <1>2, PendingStopping
<1>3. ASSUME devh' = "closed", ended' \in {"no", "returned"}
      PROVE  (rx_xfer' # "pending" \/ raced') /\ device' \in {"idle", "gone"}
  BY <1>3, ClosedQuiet
<1> QED BY <1>1, <1>2, <1>3 DEF LeftPending, T!Running

(* Why a tool may have no device: it did not look, or not yet, or it       *)
(* closed it.                                                              *)
Unchecked(c) == c.op = "connect" /\ (c.bad = "null" \/ c.bad = "on")

Missing ==
  /\ T!Running =>
       \/ devh = "open"
       \/ \E c \in Past : Unchecked(c)
       \/ devh = "NULL" /\ \A c \in Past : c.op # "connect"
       \/ devh = "closed" /\ \E c \in Past : c.op = "stop"
  /\ ended = "crashed" => T!Careless

LEMMA CarelessCalls ==
  ASSUME ToolTypes
  PROVE  /\ (\E c \in Past : Unchecked(c)) => T!Careless
         /\ pc <= Len(script) /\ Unchecked(T!here) => T!Careless
         /\ (\E c \in Past : c.op = "stop") /\ (handler \/ pc <= Len(script)) => T!Careless
<1>1. pc \in Nat /\ pc >= 1 /\ Len(script) \in Nat /\ pc \in 1 .. Len(script) + 1
  BY CallsOrderly DEF ToolTypes
<1> DEFINE n == Len(script)
<1>2. n \in Nat /\ pc \in 1 .. n + 1
  BY <1>1
<1> HIDE DEF n
<1>3. \A j \in 1 .. pc - 1 : j \in 1 .. n /\ j <= pc
  BY <1>2
<1>4. pc <= n => pc \in 1 .. n /\ pc <= pc
  BY <1>2
<1>5. \A j \in 1 .. n : j <= pc /\ Unchecked(script[j]) => T!Careless
  BY DEF n, T!Careless, Unchecked
<1>6. ASSUME NEW c \in Past, Unchecked(c) PROVE T!Careless
  <2>1. PICK j \in 1 .. pc - 1 : c = script[j]
    BY <1>6 DEF Past
  <2> QED BY <1>3, <1>5, <1>6, <2>1
<1>7. ASSUME pc <= n, Unchecked(T!here) PROVE T!Careless
  BY <1>4, <1>5, <1>7 DEF T!here
<1>8. ASSUME NEW c \in Past, c.op = "stop", handler \/ pc <= n PROVE T!Careless
  BY <1>8, Zenon DEF Past, T!Careless, n
<1> QED BY <1>6, <1>7, <1>8 DEF n

(* Whatever uses the device without having it is careless.                 *)
LEMMA UsesWithout ==
  ASSUME ToolTypes, Missing, T!Running, pc <= Len(script), T!here.op \in T!DeviceOps, devh # "open"
  PROVE  T!Careless
<1>1. \E c \in Past : c.op = "connect"
  BY HereOrderly
<1> QED BY <1>1, CarelessCalls DEF Missing

LEMMA Crashes ==
  ASSUME ToolTypes, InCall, Missing, T!Next, ended' = "crashed"
  PROVE  T!Careless
<1>1. T!Running /\ ended = "no"
  BY CallByCall DEF T!Running
<1> USE DEF T!Advance, T!End, T!Local, T!Done, T!Fails
<1>2. CASE T!ubertooth_bulk_init
  <2>1. pc <= Len(script) /\ T!here.op \in T!DeviceOps
    BY <1>2, Zenon DEF T!ubertooth_bulk_init, T!Streams, T!At, T!DeviceOps, T!StreamOps
  <2>2. devh # "open"
    BY <1>1, <1>2 DEF T!ubertooth_bulk_init
  <2> QED BY <1>1, <2>1, <2>2, UsesWithout
<1>3. CASE T!Begin \/ T!PollFails
  <2>1. pc <= Len(script) /\ T!here.op \in T!DeviceOps
    BY <1>3 DEF T!Begin, T!PollFails, T!At, T!DeviceOps
  <2>2. devh # "open"
    BY <1>1, <1>3 DEF T!Begin, T!PollFails
  <2> QED BY <1>1, <2>1, <2>2, UsesWithout
<1>4. CASE T!ubertooth_connect
  <2>1. pc <= Len(script) /\ T!here.op = "connect" /\ T!here.bad = "null"
    BY <1>1, <1>4 DEF T!ubertooth_connect, T!At
  <2> QED BY <2>1, CarelessCalls DEF Unchecked
<1>5. CASE T!ubertooth_stop
  <2>1. pc <= Len(script) /\ devh = "closed"
    BY <1>1, <1>5 DEF T!ubertooth_stop, T!At
  <2> QED BY <1>1, <2>1, CarelessCalls DEF Missing
<1>6. CASE T!cleanup
  <2>1. handler /\ devh = "closed"
    BY <1>6 DEF T!cleanup
  <2> QED BY <1>1, <2>1, CarelessCalls DEF Missing
<1>7. CASE T!ReceiveBegins \/ T!Called
  <2>1. T!here.loop \in {"until 1", "while", "until -1"}
    BY <1>7, StreamLoops DEF T!ReceiveBegins, T!Called, StreamAt
  <2>2. ended' # "crashed"
    BY <1>1, <1>7, <2>1 DEF T!ReceiveBegins, T!Called, T!Return
  <2> QED BY <2>2
<1>8. ASSUME T!Finish \/ T!HandleEvents \/ T!WaitEnds \/ T!Callback \/ T!register_cleanup_handler
             \/ T!ubertooth_set_timeout \/ T!Reset \/ T!Returns
      PROVE  FALSE
  BY <1>1, <1>8 DEF T!Finish, T!Commanding, T!HandleEvents, T!WaitEnds, T!Callback, T!register_cleanup_handler,
                    T!ubertooth_set_timeout, T!Reset, T!Returns
<1>9. ASSUME T!stop_transfers \/ T!Fill \/ T!TimesOut \/ T!Leave PROVE FALSE
  BY <1>1, <1>9 DEF T!stop_transfers, T!Fill, T!TimesOut, T!Leave
<1> QED BY <1>2, <1>3, <1>4, <1>5, <1>6, <1>7, <1>8, <1>9, Zenon DEF T!Next, T!Runs

(* Past a connection a tool gets with the call that makes it only.         *)
LEMMA OthersConnectNot ==
  ASSUME ToolTypes, InCall, T!Next, ended' = "no", T!here.op = "connect", ~T!ubertooth_connect
  PROVE  pc' = pc
<1>1. T!Running /\ at = "start"
  BY CallByCall DEF InCall, T!StreamOps, ToolTypes
<1> USE <1>1 DEF T!place, T!At, T!End, T!Local
<1>2. ASSUME T!ubertooth_bulk_init \/ T!Begin \/ T!Finish \/ T!HandleEvents \/ T!ubertooth_stop PROVE FALSE
  BY <1>2 DEF T!ubertooth_bulk_init, T!Streams, T!Begin, T!Finish, T!HandleEvents, T!Commanding, T!Waiting, T!ubertooth_stop
<1>3. ASSUME T!WaitEnds \/ T!ReceiveBegins \/ T!Callback \/ T!Called PROVE FALSE
  BY <1>3 DEF T!WaitEnds, T!ReceiveBegins, T!Callback, T!Called
<1>4. ASSUME T!register_cleanup_handler \/ T!ubertooth_set_timeout \/ T!Reset \/ T!PollFails \/ T!Returns PROVE FALSE
  BY <1>4 DEF T!register_cleanup_handler, T!ubertooth_set_timeout, T!Reset, T!PollFails, T!Returns
<1>5. ASSUME T!stop_transfers \/ T!cleanup \/ T!Fill \/ T!TimesOut \/ T!Leave PROVE pc' = pc
  BY <1>5 DEF T!stop_transfers, T!cleanup, T!Fill, T!TimesOut, T!Leave
<1> QED BY <1>2, <1>3, <1>4, <1>5, Zenon DEF T!Next, T!Runs

LEMMA MissingKept == ASSUME ToolTypes, InCall, Caused, Missing, T!Next PROVE Missing'
<1>1. T!Running /\ script' = script
      /\ \/ pc' = pc /\ T!here' = T!here /\ Past' = Past
         \/ pc' = pc + 1 /\ Past' = Past \cup {T!here} /\ pc <= Len(script) /\ ended' = "no"
  BY CallByCall
<1>2. ASSUME ended' = "crashed" PROVE T!Careless'
  <2>1. T!Careless /\ pc' = pc
    BY <1>1, <1>2, Crashes
  <2>2. ~T!register_cleanup_handler
    BY <1>1, <1>2 DEF T!register_cleanup_handler, T!Advance, T!Running
  <2>3. handler' = handler
    BY <2>2 DEF T!Next, T!Runs, T!ubertooth_bulk_init, T!Begin, T!Finish, T!HandleEvents, T!WaitEnds, T!ReceiveBegins, T!Callback,
         T!Called, T!ubertooth_connect, T!ubertooth_stop, T!Reset, T!ubertooth_set_timeout,
         T!PollFails, T!Returns, T!stop_transfers, T!cleanup, T!Fill, T!TimesOut, T!Leave
  <2> QED BY <1>1, <2>1, <2>3 DEF T!Careless
<1>3. ASSUME ended' = "no"
      PROVE  \/ devh' = "open"
             \/ \E c \in Past' : Unchecked(c)
             \/ devh' = "NULL" /\ \A c \in Past' : c.op # "connect"
             \/ devh' = "closed" /\ \E c \in Past' : c.op = "stop"
  <2>1. \/ devh = "open"
        \/ \E c \in Past : Unchecked(c)
        \/ devh = "NULL" /\ \A c \in Past : c.op # "connect"
        \/ devh = "closed" /\ \E c \in Past : c.op = "stop"
    BY <1>1 DEF Missing
  <2>2. CASE T!ubertooth_connect /\ devh' # "open"
    <3>1. T!here.op = "connect" /\ pc <= Len(script) /\ T!here.bad # "null" /\ T!Fails
      BY <1>3, <2>2 DEF T!ubertooth_connect, T!At, T!End, T!Advance
    <3>2. T!here.bad = "on" /\ T!Advance
      BY <1>3, <3>1, HereOrderly DEF T!Fails, T!Done, T!End
    <3>3. Past' = Past \cup {T!here}
      BY <1>1, <3>2, PastMoves DEF T!Advance
    <3> QED BY <3>1, <3>2, <3>3 DEF Unchecked
  <2>3. CASE T!Finish /\ at = "stopping"
    <3>1. T!here.op = "stop" /\ devh' = "closed" /\ T!Advance
      BY <1>1, <2>3 DEF T!Finish, InCall
    <3>2. Past' = Past \cup {T!here}
      BY <1>1, <3>1, PastMoves DEF T!Advance
    <3> QED BY <3>1, <3>2
  <2>4. CASE ~T!ubertooth_connect /\ ~(T!Finish /\ at = "stopping")
    <3>1. ~T!cleanup
      BY <1>3 DEF T!cleanup, T!End
    <3>2. devh' = devh
      BY <2>4, <3>1 DEF T!Next, T!Runs, T!ubertooth_bulk_init, T!Begin, T!Finish, T!HandleEvents, T!WaitEnds, T!ReceiveBegins,
         T!Callback, T!Called, T!ubertooth_stop, T!Reset, T!register_cleanup_handler, T!ubertooth_set_timeout,
         T!PollFails, T!Returns, T!stop_transfers, T!Fill, T!TimesOut, T!Leave
    <3>3. Past' = Past \/ T!here.op # "connect"
      BY <1>1, <1>3, <2>4, OthersConnectNot, PastMoves
    <3>4. CASE Past' = Past
      BY <2>1, <3>2, <3>4
    <3>5. CASE Past' = Past \cup {T!here} /\ T!here.op # "connect"
      BY <2>1, <3>2, <3>5
    <3> QED BY <1>1, <3>3, <3>4, <3>5
  <2> QED BY <2>2, <2>3, <2>4
<1> QED BY <1>2, <1>3 DEF Missing, T!Running

LEMMA ToolHandleHeld == LeftPending /\ Missing => T!HandleHeld
BY DEF LeftPending, Missing, T!HandleHeld

-----------------------------------------------------------------------------
(* The invariant of a tool, and of the program whichever it is.            *)
ToolInv ==
  ToolTypes /\ InCall /\ Caused /\ Endless /\ InOrder /\ LeftPending /\ Missing

LEMMA ToolInit == ASSUME T!Init PROVE ToolInv
<1>1. tool \in DOMAIN Scripts /\ script = Scripts[tool] /\ pc = 1 /\ at = "start" /\ ended = "no"
  BY DEF T!Init
<1>2. script \in Seq([op : STRING, arg : STRING, loop : STRING, bad : STRING])
  BY <1>1, HostAssumption DEF T!StreamAssumption
<1>3. Len(script) \in Nat
  BY <1>2
<1>4. pc \in 1 .. Len(script) + 1
  <2> DEFINE n == Len(script)
  <2> SUFFICES pc \in 1 .. n + 1
    OBVIOUS
  <2>1. n \in Nat
    BY <1>3
  <2> HIDE DEF n
  <2> QED BY <1>1, <2>1
<1>5. Past = {}
  <2>1. 1 .. pc - 1 = {}
    BY <1>1
  <2> QED BY <2>1 DEF Past
<1>6. /\ devh = "NULL" /\ device = "idle" /\ rx_xfer = "NULL" /\ outcome = "none" /\ alarm = "none"
      /\ full = 1 /\ sent = 0 /\ buffers = [b \in 0 .. 1 |-> 0]
  BY DEF T!Init
<1>7. ~usb_really_full /\ ~stop_ubertooth
  BY DEF T!Init
<1>8. ToolTypes
  BY <1>1, <1>4, <1>6 DEF ToolTypes
<1>9. InCall /\ InOrder /\ Endless
  BY <1>1 DEF InCall, InOrder, Endless, StreamAt
<1>10. Caused
  BY <1>1, <1>6, <1>7 DEF Caused
<1>11. LeftPending
  BY <1>6 DEF LeftPending
<1>12. Missing
  BY <1>1, <1>5, <1>6 DEF Missing
<1> QED BY <1>8, <1>9, <1>10, <1>11, <1>12 DEF ToolInv

LEMMA ToolStep == ASSUME ToolInv, T!Next \/ UNCHANGED T!vars PROVE ToolInv'
<1>1. ASSUME T!Next PROVE ToolInv'
  BY <1>1, TypesKept, InCallKept, CausedKept, EndlessKept, InOrderKept, LeftPendingKept, MissingKept
     DEF ToolInv
<1>2. ASSUME UNCHANGED T!vars PROVE ToolInv'
  <2>1. UNCHANGED T!vars
    BY <1>2
  <2> USE <2>1 DEF T!vars, T!Running, T!here
  <2>2. Past' = Past
    BY DEF Past
  <2>3. ToolTypes' /\ InCall'
    <3>1. (pc \in 1 .. Len(script) + 1)' <=> pc \in 1 .. Len(script) + 1
      OBVIOUS
    <3>2. (pc <= Len(script))' <=> pc <= Len(script)
      OBVIOUS
    <3>3. ToolTypes'
      <4>1. pc \in 1 .. Len(script) + 1 /\ tool' \in DOMAIN Scripts /\ script' = Scripts[tool']
        BY DEF ToolInv, ToolTypes
      <4>2. pc' \in 1 .. Len(script') + 1
        BY <3>1, <4>1
      <4>3. /\ at' \in {"start", "busy", "stopping"} \cup StreamAt
            /\ ended' \in {"no", "returned", "killed", "crashed"}
            /\ devh' \in {"NULL", "open", "closed"} /\ device' \in {"idle", "bulk", "polled", "gone"}
            /\ rx_xfer' \in {"NULL", "idle", "pending"}
            /\ outcome' \in {"none", "full", "timed out", "error", "cancelled"}
            /\ alarm' \in {"none", "set", "caught", "missed"}
            /\ full' \in {0, 1} /\ sent' \in Nat /\ buffers' \in [0 .. 1 -> Nat]
        <5>1. /\ at \in {"start", "busy", "stopping"} \cup StreamAt
              /\ ended \in {"no", "returned", "killed", "crashed"}
              /\ devh \in {"NULL", "open", "closed"} /\ device \in {"idle", "bulk", "polled", "gone"}
              /\ rx_xfer \in {"NULL", "idle", "pending"}
              /\ outcome \in {"none", "full", "timed out", "error", "cancelled"}
              /\ alarm \in {"none", "set", "caught", "missed"}
          BY DEF ToolInv, ToolTypes
        <5>2. full \in {0, 1} /\ sent \in Nat /\ buffers \in [0 .. 1 -> Nat]
          BY DEF ToolInv, ToolTypes
        <5>3. full' = full /\ sent' = sent /\ buffers' = buffers
          OBVIOUS
        <5>4. full' \in {0, 1} /\ sent' \in Nat /\ buffers' \in [0 .. 1 -> Nat]
          BY <5>2, <5>3, Zenon
        <5>5. /\ at' = at /\ ended' = ended /\ devh' = devh /\ device' = device /\ rx_xfer' = rx_xfer
              /\ outcome' = outcome /\ alarm' = alarm
          OBVIOUS
        <5> QED BY <5>1, <5>4, <5>5, Zenon
      <4> QED BY <4>1, <4>2, <4>3, Zenon DEF ToolTypes
    <3>4. InCall'
      BY <3>2 DEF ToolInv, InCall
    <3> QED BY <3>3, <3>4
  <2>4. Caused' /\ Endless'
    BY <2>2 DEF ToolInv, Caused, Endless, NoStreams, NoTimeout, NoSending
  <2>5. InOrder'
    <3>1. Last' = Last
      BY DEF Last, Following
    <3>2. Following(Last)' = Following(Last)
      BY <3>1 DEF Following
    <3> QED BY <3>1, <3>2 DEF ToolInv, InOrder
  <2>6. LeftPending' /\ Missing'
    BY <2>2 DEF ToolInv, LeftPending, Missing, T!Careless
  <2> QED BY <2>3, <2>4, <2>5, <2>6 DEF ToolInv
<1> QED BY <1>1, <1>2

-----------------------------------------------------------------------------
(* The callbacks: where the packets are, and what was made of them.        *)

Received == [n : Nat, channel : Channels, clk100ns : 0 .. Wrap - 1, time : Nat, rssi_max : Int]

CallbackTypes ==
  /\ infile \in BOOLEAN /\ calibrated \in BOOLEAN
  /\ time \in Nat /\ clk \in 0 .. Wrap - 1 /\ heard \in Nat
  /\ current_bank \in C!Bank /\ usb \in [C!Bank -> Received] /\ DOMAIN bt = C!Bank
  /\ start_clk100ns \in 0 .. Wrap - 1 /\ last_clk100ns \in 0 .. Wrap - 1 /\ clk100ns_upper \in Nat
  /\ abs_start_ns \in Int /\ started \in Received
  /\ rssi_history \in [Channels -> [1 .. NUM_BANKS -> Int]]
  /\ prev_ts \in 0 .. Wrap - 1
  /\ trimmed \in Int /\ tuned \in Int
  /\ afh_map \subseteq Channels /\ last_seen \in [Channels -> Nat] /\ counter \in Nat
  /\ report.of \in Received
  /\ log \in Seq(Received)

(* The packet in a bank, the oldest first.                                 *)
Held(k) == usb[C!Index(current_bank, k)]

(* A packet that came next, as an untrimmed clock has it.                  *)
Follows(p, q) ==
  \E gap \in 1 .. Wrap - 1 : q.time = p.time + gap /\ q.clk100ns = (p.clk100ns + gap) % Wrap

(* The banks hold the last packets, one after the other, and before those  *)
(* what was in them at first.                                              *)
Ring ==
  /\ \A k \in C!Bank : LET n == heard - (NUM_BANKS - 1 - k)
                     IN  IF n > 0 THEN Held(k).n = n /\ bt[C!Index(current_bank, k)] = n
                                  ELSE Held(k).n = 0
  /\ trimmed = 0 => /\ heard > 0 => Held(NUM_BANKS - 1).time = time /\ Held(NUM_BANKS - 1).clk100ns = clk
                    /\ \A k \in C!Bank : k + 1 \in C!Bank /\ Held(k).n > 0 => Follows(Held(k), Held(k + 1))

(* The number of the packet that is looked at when so many came.           *)
Turn(n) == IF cb # "cb_rx" THEN n ELSE IF n < NUM_BANKS THEN 0 ELSE n - (NUM_BANKS - 1)

(* No packet's turn comes twice; some are passed over.                     *)
Logged ==
  /\ report.of.n <= Turn(heard) /\ started.n <= Turn(heard)
  /\ cb # "cb_rx" => \A k \in DOMAIN log : log[k].n > 0
  /\ cb = "cb_rx" => Len(log) <= heard /\ \A k \in DOMAIN log : log[k].n >= Turn(k)

(* The packet whose turn it was last.                                      *)
Tracked == IF cb = "cb_rx" THEN Held(0) ELSE Held(NUM_BANKS - 1)

(* As an untrimmed clock has it, q came after one at time t with s on the  *)
(* clock.                                                                  *)
InPhase(s, t, q) == q.time >= t /\ q.clk100ns = (s + (q.time - t)) % Wrap

(* Until it is trimmed, the device's clock goes on as long as the time     *)
(* does; and until it begins again, no roll-over was counted.              *)
Timing ==
  /\ start_clk100ns = 0 => clk100ns_upper = 0
  /\ ~calibrated => trimmed = 0
  /\ cb # "cb_rx" \/ infile => trimmed = 0 /\ ~calibrated
  /\ cb \in {"cb_br_rx", "cb_rx"} /\ started.n > 0 =>
       /\ Tracked.n > 0 /\ started.clk100ns = start_clk100ns
       /\ trimmed = 0 =>
            /\ InPhase(start_clk100ns, started.time, Tracked)
            /\ start_clk100ns + (Tracked.time - started.time) < Wrap =>
                 clk100ns_upper = 0 /\ last_clk100ns <= Tracked.clk100ns

(* The device's clock is always as far from the time, but for its wraps.   *)
Differing ==
  cb \in {"cb_btle", "cb_ego"} /\ log # <<>> =>
    /\ prev_ts = log[Len(log)].clk100ns
    /\ (log[Len(log)].clk100ns - log[Len(log)].time) % Wrap = (clk - time) % Wrap

(* A report of the packet that was analysed last was made with the history *)
(* as it is.                                                               *)
Signalled ==
  cb \in {"cb_br_rx", "cb_rx", "cb_btle"} /\ log # <<>> /\ report.of = log[Len(log)] /\ report.of.n > 0 =>
     report.signal = C!Max(C!ToSet(rssi_history[report.of.channel]))

(* Of every channel, the history has the last packets in their order.      *)
Remembered ==
  cb \in {"cb_br_rx", "cb_rx", "cb_btle"} => \A c \in Channels :
    /\ \A k \in C!On(c) : LET r == Cardinality(C!After(c, k)) IN
          r < NUM_BANKS => rssi_history[c][NUM_BANKS - r] = log[k].rssi_max
    /\ \A r \in C!Bank : r < Cardinality(C!On(c)) => \E k \in C!On(c) : Cardinality(C!After(c, k)) = r

(* A channel was last seen when its last packet came.                      *)
Mapped ==
  cb = "cb_afh_monitor" =>
    /\ counter = Len(log)
    /\ \A k \in DOMAIN log : last_seen[log[k].channel] >= k
    /\ \A c \in Channels : last_seen[c] # 0 => last_seen[c] \in DOMAIN log /\ log[last_seen[c]].channel = c
    /\ \A k \in DOMAIN log : k > Len(log) - packet_counter_max => log[k].channel \in afh_map

CallbackInv ==
  /\ CallbackTypes /\ Ring /\ Logged /\ Timing /\ Differing /\ Signalled /\ Remembered /\ Mapped
  /\ C!TimeTrue /\ C!DifferenceTrue /\ C!Tuned /\ C!MapsTrue

LEMMA ClockFacts ==
  ASSUME C!CallbacksAssumption
  PROVE  /\ NUM_BANKS \in Nat \ {0} /\ C!Bank = 0 .. NUM_BANKS - 1 /\ NUM_BANKS - 1 \in C!Bank /\ 0 \in C!Bank
         /\ Wrap \in Nat \ {0} /\ Modulus \in Nat \ {0} /\ Wrap < Modulus
         /\ Slot \in Nat \ {0}
         /\ 0 \in Channels /\ Channels \subseteq Nat /\ Heard \subseteq Channels
<1>1. NUM_BANKS \in Nat \ {0} /\ C!Bank = 0 .. NUM_BANKS - 1 /\ NUM_BANKS - 1 \in C!Bank /\ 0 \in C!Bank
  BY DEF C!CallbacksAssumption, C!Bank
<1>2. PICK gap : gap \in 1 .. Wrap - 1
  BY DEF C!CallbacksAssumption
<1>3. Wrap \in Nat \ {0} /\ Modulus \in Nat \ {0} /\ Wrap < Modulus
  BY <1>2 DEF C!CallbacksAssumption
<1>4. Slot \in Nat \ {0}
  BY DEF C!CallbacksAssumption
<1>5. 0 \in Channels /\ Channels \subseteq Nat /\ Heard \subseteq Channels
  BY DEF C!CallbacksAssumption
<1> QED BY <1>1, <1>3, <1>4, <1>5

(* The ring turned on by one. *)
LEMMA Turning ==
  ASSUME NEW m \in Nat \ {0}, NEW b \in 0 .. m - 1, NEW k \in Nat
  PROVE  (((b + 1) % m) + 1 + k) % m = (b + 1 + (k + 1)) % m
<1>1. b + 1 \in Int /\ 1 + k \in Int
  OBVIOUS
<1>2. (((b + 1) % m) + (1 + k)) % m = ((b + 1) + (1 + k)) % m
  BY <1>1, ModAdd
<1>3. (b + 1) % m \in Int
  BY <1>1, ModRangeInt
<1>4. ((b + 1) % m) + 1 + k = ((b + 1) % m) + (1 + k) /\ b + 1 + (k + 1) = (b + 1) + (1 + k)
  BY <1>1, <1>3
<1> QED BY <1>2, <1>4

LEMMA Newest ==
  ASSUME NEW m \in Nat \ {0}, NEW d \in 0 .. m - 1
  PROVE  /\ (d + 1 + (m - 1)) % m = d
         /\ \A k \in Nat : k + 1 < m => (d + 1 + k) % m # d
<1>1. (d + 1 + (m - 1)) % m = d
  <2>1. d + 1 + (m - 1) = d + (1 * m) /\ d \in Int /\ 1 \in Int
    OBVIOUS
  <2>2. (d + (1 * m)) % m = d % m
    BY <2>1, ModShift
  <2> QED BY <2>1, <2>2, ModOfSmall
<1>2. ASSUME NEW k \in Nat, k + 1 < m, (d + 1 + k) % m = d PROVE FALSE
  <2>1. d % m = d
    BY ModOfSmall
  <2>2. d + 1 + k \in Int /\ d \in Int /\ (d + 1 + k) - d < m /\ d - (d + 1 + k) < m
    BY <1>2
  <2>3. d + 1 + k = d
    BY <1>2, <2>1, <2>2, ModDistinct
  <2> QED BY <2>3
<1> QED BY <1>1, <1>2

(* A packet that comes, as the device and the ring have it. *)
Comes(p, gap) ==
  /\ p \in Received /\ gap \in 1 .. Wrap - 1
  /\ heard' = heard + 1 /\ p.n = heard' /\ time' = time + gap /\ p.time = time'
  /\ clk' = (clk + gap) % Wrap /\ p.clk100ns = (clk + gap - trimmed) % Wrap
  /\ C!ringbuffer_add(p)

LEMMA PacketComes ==
  ASSUME C!CallbacksAssumption, CallbackTypes, C!Next
  PROVE  /\ \E p \in Received : \E gap \in 1 .. Wrap - 1 : Comes(p, gap)
         /\ \/ C!cb_br_rx \/ C!cb_rx \/ C!cb_btle \/ C!cb_ego \/ C!cb_afh_initial \/ C!cb_afh_monitor
            \/ cb # "cb_ego" /\ C!Ignored
         /\ cb' = cb /\ infile' = infile
<1>1. C!Packet
  BY DEF C!Next, C!ubertooth_bulk_receive, C!stream_rx_file
<1>2. heard' = heard + 1
  BY <1>1 DEF C!Packet
<1>3. \A gap \in Gaps : gap \in 1 .. Wrap - 1
  BY DEF C!CallbacksAssumption
<1>4. (IF C!ForMaps THEN {C!Min(Gaps)} ELSE Gaps) \subseteq Gaps
  <2>1. Gaps # {} /\ Gaps \in SUBSET Nat
    BY DEF C!CallbacksAssumption
  <2>2. C!Min(Gaps) \in Gaps
    <3>1. \E m \in Gaps : \A n \in Gaps : m <= n
      BY <2>1, Smallest
    <3> QED BY <3>1 DEF C!Min
  <2> QED BY <2>2
<1>5. PICK gap \in Gaps, c \in (IF C!ForMaps THEN Channels ELSE Heard), level \in (IF C!ForMaps THEN {0} ELSE Levels) :
        /\ time' = time + gap /\ clk' = (clk + gap) % Wrap
        /\ C!ringbuffer_add([n |-> heard', channel |-> c, clk100ns |-> (clk + gap - trimmed) % Wrap,
                           time |-> time + gap, rssi_max |-> level])
  BY <1>1, <1>4 DEF C!Packet
<1> DEFINE p == [n |-> heard', channel |-> c, clk100ns |-> (clk + gap - trimmed) % Wrap,
                 time |-> time + gap, rssi_max |-> level]
<1>6. gap \in 1 .. Wrap - 1 /\ c \in Channels /\ level \in Int
  <2>1. c \in Channels
    BY ClockFacts
  <2>2. level \in Int
    BY DEF C!CallbacksAssumption
  <2> QED BY <1>3, <2>1, <2>2
<1>7. heard' \in Nat /\ time + gap \in Nat /\ (clk + gap - trimmed) % Wrap \in 0 .. Wrap - 1
  <2>1. clk + gap - trimmed \in Int /\ heard + 1 \in Nat /\ time + gap \in Nat
    BY <1>6 DEF CallbackTypes
  <2> QED BY <2>1, <1>2, ClockFacts, ModRangeInt
<1>8. p \in Received
  BY <1>6, <1>7 DEF Received
<1>9. Comes(p, gap)
  BY <1>2, <1>5, <1>6, <1>8 DEF Comes
<1> HIDE DEF p
<1>10. /\ \/ C!cb_br_rx \/ C!cb_rx \/ C!cb_btle \/ C!cb_ego \/ C!cb_afh_initial \/ C!cb_afh_monitor
          \/ cb # "cb_ego" /\ C!Ignored
       /\ cb' = cb /\ infile' = infile
  BY <1>1 DEF C!Packet
<1> QED BY <1>6, <1>8, <1>9, <1>10

(* Where the packets are after the next one: it takes the place of the     *)
(* oldest.                                                                 *)
LEMMA RingAdd ==
  ASSUME C!CallbacksAssumption, CallbackTypes, NEW p \in Received, C!ringbuffer_add(p)
  PROVE  /\ current_bank' \in C!Bank /\ usb' \in [C!Bank -> Received] /\ DOMAIN bt' = C!Bank
         /\ usb'[C!Index(current_bank', NUM_BANKS - 1)] = p
         /\ bt'[C!Index(current_bank', NUM_BANKS - 1)] = p.n
         /\ \A k \in C!Bank : k + 1 \in C!Bank =>
              /\ usb'[C!Index(current_bank', k)] = usb[C!Index(current_bank, k + 1)]
              /\ bt'[C!Index(current_bank', k)] = bt[C!Index(current_bank, k + 1)]
         /\ \A k \in C!Bank : C!Index(current_bank, k) \in C!Bank /\ C!Index(current_bank', k) \in C!Bank
<1> DEFINE b == current_bank
           d == current_bank'
           m == NUM_BANKS
<1>1. m \in Nat \ {0} /\ C!Bank = 0 .. m - 1 /\ b \in 0 .. m - 1 /\ usb \in [C!Bank -> Received] /\ DOMAIN bt = C!Bank
  BY ClockFacts DEF CallbackTypes
<1>2. /\ d = (b + 1) % m
      /\ usb' = [usb EXCEPT ![C!Index(d, m - 1)] = p] /\ bt' = [bt EXCEPT ![C!Index(d, m - 1)] = p.n]
  BY DEF C!ringbuffer_add
<1>3. (\A k : C!Index(d, k) = (d + 1 + k) % m) /\ (\A k : C!Index(b, k) = (b + 1 + k) % m)
  BY DEF C!Index
<1> HIDE DEF b, d, m
<1>4. /\ d \in 0 .. m - 1 /\ C!Index(d, m - 1) = d
      /\ \A k \in 0 .. m - 1 : C!Index(b, k) \in 0 .. m - 1 /\ C!Index(d, k) \in 0 .. m - 1
      /\ \A k \in Nat : k + 1 < m => C!Index(d, k) = C!Index(b, k + 1) /\ C!Index(d, k) # d
  <2>1. d \in 0 .. m - 1
    BY <1>1, <1>2, ModRange
  <2>2. \A k \in 0 .. m - 1 : (b + 1 + k) % m \in 0 .. m - 1 /\ (d + 1 + k) % m \in 0 .. m - 1
    BY <1>1, <2>1, ModRange
  <2>3. \A k \in Nat : (((b + 1) % m) + 1 + k) % m = (b + 1 + (k + 1)) % m
    BY <1>1, Turning
  <2>4. \A k \in Nat : C!Index(d, k) = C!Index(b, k + 1)
    BY <2>3, <1>2, <1>3
  <2>5. (d + 1 + (m - 1)) % m = d /\ \A k \in Nat : k + 1 < m => (d + 1 + k) % m # d
    BY <1>1, <2>1, Newest
  <2> QED BY <2>1, <2>2, <2>4, <2>5, <1>3
<1>5. usb' = [usb EXCEPT ![d] = p] /\ bt' = [bt EXCEPT ![d] = p.n]
  BY <1>2, <1>4
<1>6. d \in C!Bank /\ usb' \in [C!Bank -> Received] /\ DOMAIN bt' = C!Bank /\ usb'[d] = p /\ bt'[d] = p.n
  BY <1>1, <1>4, <1>5
<1>7. ASSUME NEW k \in C!Bank, k + 1 \in C!Bank
      PROVE  usb'[C!Index(d, k)] = usb[C!Index(b, k + 1)] /\ bt'[C!Index(d, k)] = bt[C!Index(b, k + 1)]
  <2> DEFINE e == C!Index(d, k)
  <2>1. e \in C!Bank /\ e # d /\ e = C!Index(b, k + 1)
    <3>1. k \in Nat /\ k + 1 < m /\ k \in 0 .. m - 1
      BY <1>1, <1>7
    <3> QED BY <1>1, <1>4, <3>1
  <2> HIDE DEF e
  <2>2. usb'[e] = usb[e] /\ bt'[e] = bt[e]
    BY <2>1, <1>1, <1>5
  <2> QED BY <2>1, <2>2 DEF e
<1> QED BY <1>1, <1>4, <1>6, <1>7 DEF b, d, m

LEMMA TrimmedOnce ==
  ASSUME C!CallbacksAssumption, CallbackTypes, Timing, C!Next
  PROVE  trimmed' = 0 => trimmed = 0
<1>1. CASE C!cb_rx
  <2>1. trimmed' = trimmed \/ ~calibrated
    BY <1>1 DEF C!cb_rx, C!tune
  <2> QED BY <2>1 DEF Timing
<1>2. CASE ~C!cb_rx
  <2>1. trimmed' = trimmed
    BY <1>2, PacketComes DEF C!cb_br_rx, C!cb_btle, C!cb_ego, C!cb_afh_initial, C!cb_afh_monitor, C!Ignored, C!tune
  <2> QED BY <2>1
<1> QED BY <1>1, <1>2

LEMMA RingKept ==
  ASSUME C!CallbacksAssumption, CallbackTypes, Ring, NEW p \in Received, NEW gap \in 1 .. Wrap - 1,
         Comes(p, gap), trimmed' = 0 => trimmed = 0
  PROVE  Ring'
<1> DEFINE h(k) == usb[C!Index(current_bank, k)]
           g(k) == bt[C!Index(current_bank, k)]
           h2(k) == usb'[C!Index(current_bank', k)]
           g2(k) == bt'[C!Index(current_bank', k)]
           m == NUM_BANKS
<1>1. m \in Nat \ {0} /\ C!Bank = 0 .. m - 1 /\ heard \in Nat /\ heard' = heard + 1 /\ p.n = heard + 1
  BY ClockFacts DEF CallbackTypes, Comes
<1>2. /\ h2(m - 1) = p /\ g2(m - 1) = p.n
      /\ \A k \in C!Bank : k + 1 \in C!Bank => h2(k) = h(k + 1) /\ g2(k) = g(k + 1)
  BY RingAdd DEF Comes
<1>3. \A k \in C!Bank : IF heard - (m - 1 - k) > 0 THEN h(k).n = heard - (m - 1 - k) /\ g(k) = heard - (m - 1 - k)
                                                 ELSE h(k).n = 0
  BY DEF Ring, Held
<1>4. trimmed = 0 => /\ heard > 0 => h(m - 1).time = time /\ h(m - 1).clk100ns = clk
                     /\ \A k \in C!Bank : k + 1 \in C!Bank /\ h(k).n > 0 => Follows(h(k), h(k + 1))
  BY DEF Ring, Held
<1>5. trimmed = 0 => p.time = time' /\ p.clk100ns = clk' /\ time' = time + gap /\ clk' = (clk + gap) % Wrap
  <2> SUFFICES ASSUME trimmed = 0 PROVE p.time = time' /\ p.clk100ns = clk' /\ time' = time + gap /\ clk' = (clk + gap) % Wrap
    OBVIOUS
  <2>1. clk + gap - 0 = clk + gap
    BY DEF CallbackTypes
  <2> QED BY <2>1 DEF Comes
<1> SUFFICES /\ \A k \in C!Bank : IF heard' - (m - 1 - k) > 0
                                THEN h2(k).n = heard' - (m - 1 - k) /\ g2(k) = heard' - (m - 1 - k)
                                ELSE h2(k).n = 0
             /\ trimmed = 0 => /\ heard' > 0 => h2(m - 1).time = time' /\ h2(m - 1).clk100ns = clk'
                               /\ \A k \in C!Bank : k + 1 \in C!Bank /\ h2(k).n > 0 => Follows(h2(k), h2(k + 1))
  <2> HIDE DEF h, g
  <2> QED BY DEF Ring, Held, C!Bank, Follows
<1> HIDE DEF h, g, h2, g2, m
<1>6. ASSUME NEW k \in C!Bank
      PROVE  IF heard' - (m - 1 - k) > 0
             THEN h2(k).n = heard' - (m - 1 - k) /\ g2(k) = heard' - (m - 1 - k)
             ELSE h2(k).n = 0
  <2>1. CASE k = m - 1
    BY <2>1, <1>1, <1>2
  <2>2. CASE k # m - 1
    <3>1. k + 1 \in C!Bank /\ heard' - (m - 1 - k) = heard - (m - 1 - (k + 1))
      BY <2>2, <1>1
    <3>2. h2(k) = h(k + 1) /\ g2(k) = g(k + 1)
      BY <3>1, <1>2
    <3> QED BY <3>1, <3>2, <1>3
  <2> QED BY <2>1, <2>2
<1>7. ASSUME trimmed = 0, NEW k \in C!Bank, k + 1 \in C!Bank, h2(k).n > 0 PROVE Follows(h2(k), h2(k + 1))
  <2>1. h2(k) = h(k + 1)
    BY <1>2, <1>7
  <2>2. CASE k + 1 = m - 1
    <3>1. h2(k + 1) = p
      BY <2>2, <1>2
    <3>2. heard > 0
      BY <2>1, <2>2, <1>1, <1>3, <1>7
    <3>3. h(m - 1).time = time /\ h(m - 1).clk100ns = clk
      BY <3>2, <1>4, <1>7
    <3>4. Follows(h(m - 1), p)
      BY <3>3, <1>5, <1>7 DEF Follows
    <3> QED BY <3>1, <3>4, <2>1, <2>2
  <2>3. CASE k + 1 # m - 1
    <3>1. k + 1 \in C!Bank /\ (k + 1) + 1 \in C!Bank
      BY <2>3, <1>1, <1>7
    <3>2. h2(k + 1) = h((k + 1) + 1)
      BY <3>1, <1>2
    <3> QED BY <3>1, <3>2, <2>1, <1>4, <1>7
  <2> QED BY <2>2, <2>3
<1>8. trimmed = 0 /\ heard' > 0 => h2(m - 1).time = time' /\ h2(m - 1).clk100ns = clk'
  BY <1>2, <1>5
<1> QED BY <1>6, <1>7, <1>8

(* The packet that a callback analyses. *)
LEMMA Analysing ==
  ASSUME C!CallbacksAssumption, CallbackTypes, C!Next, Ring'
  PROVE  /\ Tracked' = IF cb = "cb_rx" THEN C!ringbuffer_bottom_usb ELSE C!ringbuffer_top_usb
         /\ Tracked' \in Received /\ Tracked'.n = Turn(heard') /\ cb' = cb
         /\ C!ringbuffer_top_usb \in Received /\ C!ringbuffer_top_usb.n = heard' /\ heard' = heard + 1
<1>1. PICK p \in Received : \E gap \in 1 .. Wrap - 1 : Comes(p, gap)
  BY PacketComes
<1>2. heard' = heard + 1 /\ heard \in Nat /\ p.n = heard' /\ cb' = cb
  BY <1>1, PacketComes DEF Comes, CallbackTypes
<1>3. NUM_BANKS \in Nat \ {0} /\ 0 \in C!Bank /\ NUM_BANKS - 1 \in C!Bank
  BY ClockFacts
<1>4. C!ringbuffer_top_usb = p /\ C!ringbuffer_bottom_usb \in Received
  BY <1>1, <1>3, RingAdd DEF Comes, C!ringbuffer_top_usb, C!ringbuffer_bottom_usb
<1>5. Tracked' = IF cb = "cb_rx" THEN C!ringbuffer_bottom_usb ELSE C!ringbuffer_top_usb
  BY <1>2 DEF Tracked, Held, C!ringbuffer_top_usb, C!ringbuffer_bottom_usb
<1>6. CASE cb = "cb_rx"
  <2>1. IF heard' - (NUM_BANKS - 1 - 0) > 0 THEN C!ringbuffer_bottom_usb.n = heard' - (NUM_BANKS - 1 - 0)
                                            ELSE C!ringbuffer_bottom_usb.n = 0
    BY <1>3 DEF Ring, Held, C!ringbuffer_bottom_usb
  <2> QED BY <2>1, <1>2, <1>3, <1>4, <1>5, <1>6 DEF Turn
<1>7. CASE cb # "cb_rx"
  BY <1>1, <1>2, <1>4, <1>5, <1>7 DEF Turn
<1> QED BY <1>2, <1>4, <1>5, <1>6, <1>7

(* The history of a channel: the newest at the end. *)
LEMMA Shifted ==
  ASSUME NEW m \in Nat \ {0}, NEW h \in [1 .. m -> Int], NEW x \in Int
  PROVE  /\ Append(Tail(h), x) \in [1 .. m -> Int] /\ Append(Tail(h), x)[m] = x
         /\ \A k \in 1 .. m - 1 : Append(Tail(h), x)[k] = h[k + 1]
<1>1. h \in Seq(Int) /\ Len(h) = m
  OBVIOUS
<1> DEFINE s == Tail(h)
<1>2. s \in Seq(Int) /\ Len(s) = m - 1 /\ \A k \in 1 .. m - 1 : s[k] = h[k + 1]
  BY <1>1
<1> HIDE DEF s
<1> DEFINE t == Append(s, x)
<1>3. t \in Seq(Int) /\ Len(t) = m /\ t[m] = x /\ \A k \in 1 .. m - 1 : t[k] = s[k]
  BY <1>2
<1> HIDE DEF t
<1>4. t \in [1 .. m -> Int]
  BY <1>3
<1> QED BY <1>2, <1>3, <1>4 DEF s, t

LEMMA TypesOfTime ==
  ASSUME C!CallbacksAssumption, CallbackTypes, NEW rx \in Received, time' \in Nat, C!track_clk100ns(rx)
  PROVE  /\ start_clk100ns' \in 0 .. Wrap - 1 /\ last_clk100ns' \in 0 .. Wrap - 1 /\ clk100ns_upper' \in Nat
         /\ abs_start_ns' \in Int /\ started' \in Received
<1>1. rx.clk100ns \in 0 .. Wrap - 1
  BY DEF Received
<1>2. start_clk100ns' \in 0 .. Wrap - 1 /\ last_clk100ns' \in 0 .. Wrap - 1
  BY <1>1 DEF CallbackTypes, C!track_clk100ns
<1>3. clk100ns_upper' = clk100ns_upper + 1 \/ clk100ns_upper' = clk100ns_upper
  BY DEF C!track_clk100ns
<1>4. clk100ns_upper' \in Nat
  BY <1>3 DEF CallbackTypes
<1>5. abs_start_ns' \in Int /\ started' \in Received
  BY DEF CallbackTypes, C!track_clk100ns
<1> QED BY <1>2, <1>4, <1>5

LEMMA TypesOfHistory ==
  ASSUME C!CallbacksAssumption, CallbackTypes, NEW rx \in Received, rssi_history' = C!History(rx)
  PROVE  /\ rssi_history' \in [Channels -> [1 .. NUM_BANKS -> Int]]
         /\ rssi_history'[rx.channel] = Append(Tail(rssi_history[rx.channel]), rx.rssi_max)
         /\ \A c \in Channels : c # rx.channel => rssi_history'[c] = rssi_history[c]
<1> DEFINE c == rx.channel
           h == Append(Tail(rssi_history[c]), rx.rssi_max)
           H == [1 .. NUM_BANKS -> Int]
<1>1. c \in Channels /\ rx.rssi_max \in Int /\ rssi_history \in [Channels -> H] /\ rssi_history[c] \in H
  BY DEF Received, CallbackTypes
<1>2. h \in H
  BY <1>1, ClockFacts, Shifted
<1>3. rssi_history' = [rssi_history EXCEPT ![c] = h]
  BY DEF C!History
<1> HIDE DEF c, h, H
<1>4. rssi_history' \in [Channels -> H] /\ rssi_history'[c] = h
      /\ \A d \in Channels : d # c => rssi_history'[d] = rssi_history[d]
  BY <1>1, <1>2, <1>3
<1> QED BY <1>4 DEF c, h, H

LEMMA FilledInBand ==
  ASSUME NEW map \in SUBSET Channels, NEW c \in Channels
  PROVE  C!Filled(map, c) \subseteq Channels
BY DEF C!Filled, C!seen

LEMMA CallbackTypesKept ==
  ASSUME C!CallbacksAssumption, CallbackTypes, C!Next, Ring'
  PROVE  CallbackTypes'
<1> DEFINE rx == Tracked'
           Moving == /\ time' \in Nat /\ clk' \in 0 .. Wrap - 1 /\ heard' \in Nat
                     /\ current_bank' \in C!Bank /\ usb' \in [C!Bank -> Received] /\ DOMAIN bt' = C!Bank
                     /\ infile' \in BOOLEAN
           Timed2 == /\ start_clk100ns' \in 0 .. Wrap - 1 /\ last_clk100ns' \in 0 .. Wrap - 1
                     /\ clk100ns_upper' \in Nat /\ abs_start_ns' \in Int /\ started' \in Received
           Tuned2 == calibrated' \in BOOLEAN /\ trimmed' \in Int /\ tuned' \in Int
           Mapped2 == afh_map' \subseteq Channels /\ last_seen' \in [Channels -> Nat] /\ counter' \in Nat
           Told2 == /\ rssi_history' \in [Channels -> [1 .. NUM_BANKS -> Int]]
                    /\ prev_ts' \in 0 .. Wrap - 1 /\ report'.of \in Received
           Logged2 == log' \in Seq(Received)
<1> SUFFICES Moving /\ Timed2 /\ Tuned2 /\ Mapped2 /\ Told2 /\ Logged2
  BY DEF CallbackTypes, C!Bank, Received
<1>1. rx \in Received /\ rx.clk100ns \in 0 .. Wrap - 1 /\ rx.channel \in Channels
  BY Analysing DEF Received
<1>2. Moving
  <2>1. PICK p \in Received, gap \in 1 .. Wrap - 1 : Comes(p, gap)
    BY PacketComes
  <2>2. time' \in Nat /\ heard' \in Nat
    BY <2>1 DEF Comes, CallbackTypes
  <2>3. clk' \in 0 .. Wrap - 1
    <3>1. clk + gap \in Nat
      BY DEF CallbackTypes
    <3> QED BY <3>1, <2>1, ClockFacts, ModRange DEF Comes
  <2>4. current_bank' \in C!Bank /\ usb' \in [C!Bank -> Received] /\ DOMAIN bt' = C!Bank
    BY <2>1, RingAdd DEF Comes
  <2>5. infile' \in BOOLEAN
    BY PacketComes DEF CallbackTypes
  <2> QED BY <2>2, <2>3, <2>4, <2>5
<1>3. UNCHANGED C!clock => Timed2
  BY DEF C!clock, CallbackTypes
<1>4. C!track_clk100ns(rx) => Timed2
  BY <1>1, <1>2, TypesOfTime
<1>5. rssi_history' = C!History(rx) => rssi_history' \in [Channels -> [1 .. NUM_BANKS -> Int]]
  BY <1>1, TypesOfHistory
<1>6. UNCHANGED C!tune => Tuned2
  BY DEF C!tune, CallbackTypes
<1>7. UNCHANGED C!maps => Mapped2
  BY DEF C!maps, CallbackTypes
<1>8. log' = Append(log, rx) => Logged2
  BY <1>1 DEF CallbackTypes
<1>9. UNCHANGED log => Logged2
  BY DEF CallbackTypes
<1>10. (rssi_history' = rssi_history \/ rssi_history' = C!History(rx))
       /\ (prev_ts' = prev_ts \/ prev_ts' = rx.clk100ns) /\ (report' = report \/ report'.of = rx) => Told2
  BY <1>1, <1>5 DEF CallbackTypes
<1>11. Tracked' = IF cb = "cb_rx" THEN C!ringbuffer_bottom_usb ELSE C!ringbuffer_top_usb
  BY Analysing
<1> HIDE DEF rx, Timed2, Tuned2, Mapped2, Told2, Logged2, Moving
<1>12. CASE C!cb_br_rx
  <2>1. C!Timed(rx) /\ UNCHANGED <<prev_ts, C!maps, C!tune>> /\ (report' = report \/ report'.of = rx)
    BY <1>11, <1>12 DEF C!cb_br_rx, C!Report, rx
  <2> QED BY <2>1, <1>2, <1>4, <1>6, <1>7, <1>8, <1>10 DEF C!Timed, C!Analysed
<1>13. CASE C!cb_rx
  <2>1. C!Timed(rx) /\ UNCHANGED <<prev_ts, C!maps>> /\ (report' = report \/ report'.of = rx)
    BY <1>11, <1>13 DEF C!cb_rx, C!Report, rx
  <2>2. Tuned2
    <3>1. UNCHANGED C!tune
          \/ \E offset \in Offsets :
                /\ calibrated' = TRUE /\ trimmed' = C!Trim(C!Offset(rx.clk100ns, offset))
                /\ tuned' = rx.clk100ns + offset - Preamble
      BY <1>11, <1>13 DEF C!cb_rx, rx
    <3>2. ASSUME NEW offset \in Offsets, calibrated' = TRUE, trimmed' = C!Trim(C!Offset(rx.clk100ns, offset)),
                 tuned' = rx.clk100ns + offset - Preamble
          PROVE  Tuned2
      <4>1. offset \in Int /\ Slot \in Nat \ {0} /\ CLK_TUNE_TIME \in Int /\ Preamble \in Int
        BY ClockFacts DEF C!CallbacksAssumption
      <4>2. tuned' \in Int /\ rx.clk100ns + offset + Slot - Preamble \in Int
        BY <1>1, <3>2, <4>1
      <4>3. C!Offset(rx.clk100ns, offset) \in Int
        BY <4>1, <4>2, ModRangeInt DEF C!Offset
      <4>4. trimmed' \in Int
        BY <3>2, <4>1, <4>3 DEF C!Trim
      <4> QED BY <3>2, <4>2, <4>4 DEF Tuned2
    <3> QED BY <3>1, <3>2, <1>6
  <2> QED BY <2>1, <2>2, <1>2, <1>4, <1>7, <1>8, <1>10 DEF C!Timed, C!Analysed
<1>14. CASE C!cb_btle
  <2>1. C!track_clk100ns(rx) /\ UNCHANGED <<C!maps, C!tune>>
        /\ (rssi_history' = rssi_history \/ rssi_history' = C!History(rx))
        /\ (prev_ts' = prev_ts \/ prev_ts' = rx.clk100ns) /\ (report' = report \/ report'.of = rx)
        /\ (UNCHANGED log \/ log' = Append(log, rx))
    BY <1>11, <1>14 DEF C!cb_btle, C!Report, C!Analysed, rx
  <2> QED BY <2>1, <1>2, <1>4, <1>6, <1>7, <1>8, <1>9, <1>10
<1>15. CASE C!cb_ego
  <2>1. UNCHANGED <<C!clock, rssi_history, C!maps, C!tune>> /\ prev_ts' = rx.clk100ns /\ report'.of = rx
        /\ log' = Append(log, rx)
    BY <1>11, <1>15 DEF C!cb_ego, C!Report, C!Analysed, rx
  <2> QED BY <2>1, <1>2, <1>3, <1>6, <1>7, <1>8, <1>10
<1>16. CASE C!cb_afh_initial
  <2>1. UNCHANGED <<last_seen, counter, C!clock, rssi_history, prev_ts, report, C!tune>> /\ log' = Append(log, rx)
        /\ (afh_map' = afh_map \/ afh_map' = C!Filled(afh_map \cup {rx.channel}, rx.channel))
    BY <1>11, <1>16 DEF C!cb_afh_initial, C!Analysed, rx
  <2>2. Mapped2
    <3>1. afh_map \cup {rx.channel} \in SUBSET Channels /\ afh_map \subseteq Channels
          /\ last_seen \in [Channels -> Nat] /\ counter \in Nat
      BY <1>1 DEF CallbackTypes
    <3> QED BY <3>1, <2>1, <1>1, FilledInBand DEF Mapped2
  <2> QED BY <2>1, <2>2, <1>2, <1>3, <1>6, <1>8, <1>10
<1>17. CASE C!cb_afh_monitor
  <2>1. UNCHANGED <<C!clock, rssi_history, prev_ts, report, C!tune>> /\ log' = Append(log, rx)
        /\ counter' = counter + 1 /\ last_seen' = [last_seen EXCEPT ![rx.channel] = counter']
        /\ afh_map' \subseteq afh_map \cup {rx.channel}
    BY <1>11, <1>17 DEF C!cb_afh_monitor, C!Analysed, rx
  <2>2. Mapped2
    BY <2>1, <1>1 DEF Mapped2, CallbackTypes
  <2> QED BY <2>1, <2>2, <1>2, <1>3, <1>6, <1>8, <1>10
<1>18. CASE C!Ignored
  BY <1>18, <1>2, <1>3, <1>6, <1>7, <1>9, <1>10 DEF C!Ignored
<1> QED BY <1>12, <1>13, <1>14, <1>15, <1>16, <1>17, <1>18, PacketComes

(* What the callbacks have in common. *)
LEMMA Effects ==
  ASSUME C!CallbacksAssumption, CallbackTypes, C!Next, Ring'
  PROVE  /\ report' = report \/ report'.of = Tracked'
         /\ started' = started \/ started' = Tracked'
         /\ log' = log \/ log' = Append(log, Tracked')
         /\ cb = "cb_rx" => (C!cb_rx /\ C!Timed(Tracked')) \/ C!Ignored
         /\ cb = "cb_br_rx" => (C!cb_br_rx /\ C!Timed(Tracked')) \/ C!Ignored
         /\ cb = "cb_btle" => (C!cb_btle /\ C!track_clk100ns(Tracked')) \/ C!Ignored
         /\ cb = "cb_ego" => C!cb_ego
         /\ cb \notin {"cb_rx", "cb_br_rx", "cb_btle"} => UNCHANGED <<C!clock, rssi_history, C!tune>>
         /\ cb \notin {"cb_rx", "cb_br_rx", "cb_btle", "cb_ego"} => UNCHANGED <<report, prev_ts>>
         /\ cb # "cb_rx" => UNCHANGED C!tune
<1> DEFINE rx == Tracked'
<1>1. rx = IF cb = "cb_rx" THEN C!ringbuffer_bottom_usb ELSE C!ringbuffer_top_usb
  BY Analysing
<1>2. C!cb_br_rx \/ C!cb_rx \/ C!cb_btle \/ C!cb_ego \/ C!cb_afh_initial \/ C!cb_afh_monitor
      \/ (cb # "cb_ego" /\ C!Ignored)
  BY PacketComes
<1>3. C!track_clk100ns(rx) => started' = started \/ started' = rx
  BY DEF C!track_clk100ns
<1> HIDE DEF rx
<1>4. CASE C!cb_br_rx
  <2>1. cb = "cb_br_rx" /\ C!Timed(rx) /\ (report' = report \/ report'.of = rx) /\ UNCHANGED C!tune
    BY <1>1, <1>4 DEF C!cb_br_rx, C!Report
  <2> QED BY <2>1, <1>3, <1>4 DEF C!Timed, C!Analysed, rx
<1>5. CASE C!cb_rx
  <2>1. cb = "cb_rx" /\ C!Timed(rx) /\ (report' = report \/ report'.of = rx)
    BY <1>1, <1>5 DEF C!cb_rx, C!Report
  <2> QED BY <2>1, <1>3, <1>5 DEF C!Timed, C!Analysed, rx
<1>6. CASE C!cb_btle
  <2>1. cb = "cb_btle" /\ C!track_clk100ns(rx) /\ (report' = report \/ report'.of = rx) /\ UNCHANGED C!tune
        /\ (log' = log \/ log' = Append(log, rx))
    BY <1>1, <1>6 DEF C!cb_btle, C!Report, C!Analysed
  <2> QED BY <2>1, <1>3, <1>6 DEF rx
<1>7. CASE C!cb_ego
  <2>1. cb = "cb_ego" /\ report'.of = rx /\ UNCHANGED <<C!clock, rssi_history, C!tune>> /\ log' = Append(log, rx)
    BY <1>1, <1>7 DEF C!cb_ego, C!Report, C!Analysed
  <2> QED BY <2>1, <1>7 DEF C!clock, rx
<1>8. CASE C!cb_afh_initial
  <2>1. cb = "cb_afh_initial" /\ UNCHANGED <<C!clock, rssi_history, prev_ts, report, C!tune>> /\ log' = Append(log, rx)
    BY <1>1, <1>8 DEF C!cb_afh_initial, C!Analysed
  <2> QED BY <2>1 DEF C!clock, rx
<1>9. CASE C!cb_afh_monitor
  <2>1. cb = "cb_afh_monitor" /\ UNCHANGED <<C!clock, rssi_history, prev_ts, report, C!tune>> /\ log' = Append(log, rx)
    BY <1>1, <1>9 DEF C!cb_afh_monitor, C!Analysed
  <2> QED BY <2>1 DEF C!clock, rx
<1>10. CASE cb # "cb_ego" /\ C!Ignored
  <2>1. cb # "cb_ego" /\ UNCHANGED <<C!clock, rssi_history, prev_ts, report, C!tune, log>>
    BY <1>10 DEF C!Ignored
  <2> QED BY <2>1, <1>10 DEF C!clock, rx
<1> QED BY <1>2, <1>4, <1>5, <1>6, <1>7, <1>8, <1>9, <1>10

LEMMA TurnsGrow ==
  ASSUME C!CallbacksAssumption, NEW n \in Nat
  PROVE  Turn(n) \in Nat /\ Turn(n) <= Turn(n + 1) /\ (Turn(n + 1) > 0 => Turn(n) < Turn(n + 1))
<1>1. NUM_BANKS \in Nat \ {0}
  BY ClockFacts
<1> QED BY <1>1 DEF Turn

LEMMA TurnsInOrder ==
  ASSUME C!CallbacksAssumption, NEW a \in Nat, NEW b \in Nat, a <= b
  PROVE  Turn(a) \in Nat /\ Turn(a) <= Turn(b)
<1>1. NUM_BANKS \in Nat \ {0}
  BY ClockFacts
<1> QED BY <1>1 DEF Turn

LEMMA LoggedKept ==
  ASSUME C!CallbacksAssumption, CallbackTypes, C!Next, Ring', Logged
  PROVE  Logged'
<1> DEFINE rx == Tracked'
           t == Turn(heard + 1)
<1>1. rx \in Received /\ rx.n = t /\ heard' = heard + 1 /\ heard \in Nat /\ cb' = cb
  BY Analysing DEF CallbackTypes
<1>2. Turn(heard) \in Nat /\ t \in Nat /\ Turn(heard) <= t /\ report.of.n \in Nat /\ started.n \in Nat
  BY <1>1, TurnsGrow DEF CallbackTypes, Received
<1>3. /\ report' = report \/ report'.of = rx
      /\ started' = started \/ started' = rx
      /\ log' = log \/ log' = Append(log, rx)
  BY Effects
<1>4. cb # "cb_rx" => t > 0
  BY <1>1 DEF Turn
<1>5. log \in Seq(Received)
  BY DEF CallbackTypes
<1>6. Turn(heard)' = t /\ \A k : Turn(k)' = Turn(k)
  BY <1>1 DEF Turn
<1> HIDE DEF rx, t
<1>7. report'.of.n <= t /\ started'.n <= t
  BY <1>1, <1>2, <1>3 DEF Logged
<1>8. ASSUME cb # "cb_rx", NEW k \in DOMAIN log' PROVE log'[k].n > 0
  BY <1>1, <1>3, <1>4, <1>5, <1>8 DEF Logged
<1>9. ASSUME cb = "cb_rx" PROVE Len(log') <= heard' /\ \A k \in DOMAIN log' : log'[k].n >= Turn(k)
  <2> DEFINE n == Len(log)
  <2>1. n <= heard /\ (\A k \in 1 .. n : log[k].n >= Turn(k)) /\ n \in Nat /\ DOMAIN log = 1 .. n
    BY <1>5, <1>9 DEF Logged
  <2>2. CASE log' = log
    BY <2>1, <2>2, <1>1
  <2>3. CASE log' = Append(log, rx)
    <3>1. Len(log') = n + 1 /\ DOMAIN log' = 1 .. n + 1 /\ log'[n + 1] = rx
          /\ \A k \in 1 .. n : log'[k] = log[k]
      BY <2>1, <2>3, <1>5
    <3>2. Turn(n + 1) <= t
      <4>1. n + 1 \in Nat /\ heard + 1 \in Nat /\ n + 1 <= heard + 1
        BY <2>1, <1>1
      <4> QED BY <4>1, TurnsInOrder DEF t
    <3>3. rx.n \in Nat /\ Turn(n + 1) \in Nat
      <4>1. n + 1 \in Nat
        BY <2>1
      <4> QED BY <4>1, <1>1, TurnsInOrder DEF Received
    <3>4. rx.n >= Turn(n + 1)
      BY <3>2, <3>3, <1>1
    <3> HIDE DEF n
    <3> QED BY <2>1, <3>1, <3>4, <1>1
  <2> QED BY <2>2, <2>3, <1>3
<1> QED BY <1>1, <1>6, <1>7, <1>8, <1>9 DEF Logged

(* The packet that is tracked is the one after that tracked before. *)
LEMMA TrackedFollows ==
  ASSUME C!CallbacksAssumption, CallbackTypes, Ring, Timing, C!Next, Ring', trimmed' = 0, Tracked.n > 0
  PROVE  Follows(Tracked, Tracked')
<1>1. PICK p \in Received, gap \in 1 .. Wrap - 1 : Comes(p, gap)
  BY PacketComes
<1>2. trimmed = 0 /\ cb' = cb
  BY TrimmedOnce, PacketComes
<1>3. NUM_BANKS \in Nat \ {0} /\ 0 \in C!Bank /\ NUM_BANKS - 1 \in C!Bank /\ C!Bank = 0 .. NUM_BANKS - 1
  BY ClockFacts
<1>4. /\ usb'[C!Index(current_bank', NUM_BANKS - 1)] = p
      /\ \A k \in C!Bank : k + 1 \in C!Bank => usb'[C!Index(current_bank', k)] = Held(k + 1)
  BY <1>1, RingAdd DEF Comes, Held
<1>5. Held(NUM_BANKS - 1).n > 0 => Follows(Held(NUM_BANKS - 1), p)
  <2> SUFFICES ASSUME Held(NUM_BANKS - 1).n > 0 PROVE Follows(Held(NUM_BANKS - 1), p)
    OBVIOUS
  <2>1. heard > 0
    <3>1. IF heard - (NUM_BANKS - 1 - (NUM_BANKS - 1)) > 0
          THEN Held(NUM_BANKS - 1).n = heard - (NUM_BANKS - 1 - (NUM_BANKS - 1))
          ELSE Held(NUM_BANKS - 1).n = 0
      BY <1>3 DEF Ring
    <3>2. heard \in Nat
      BY DEF CallbackTypes
    <3> QED BY <3>1, <3>2, <1>3
  <2>2. Held(NUM_BANKS - 1).time = time /\ Held(NUM_BANKS - 1).clk100ns = clk
    BY <2>1, <1>2 DEF Ring
  <2>3. p.time = time + gap /\ p.clk100ns = (clk + gap - 0) % Wrap
    BY <1>1, <1>2 DEF Comes
  <2>4. clk + gap - 0 = clk + gap
    BY DEF CallbackTypes
  <2> QED BY <2>2, <2>3, <2>4 DEF Follows
<1>6. CASE cb # "cb_rx"
  <2>1. Tracked = Held(NUM_BANKS - 1) /\ Tracked' = p
    BY <1>2, <1>4, <1>6 DEF Tracked, Held
  <2> QED BY <2>1, <1>5
<1>7. CASE cb = "cb_rx"
  <2>1. Tracked = Held(0) /\ Tracked' = usb'[C!Index(current_bank', 0)]
    BY <1>2, <1>7 DEF Tracked, Held
  <2>2. CASE NUM_BANKS = 1
    <3>1. NUM_BANKS - 1 = 0
      BY <2>2
    <3> QED BY <2>1, <3>1, <1>4, <1>5
  <2>3. CASE NUM_BANKS # 1
    <3>1. 0 + 1 \in C!Bank
      BY <2>3, <1>3
    <3> QED BY <2>1, <3>1, <1>2, <1>3, <1>4 DEF Ring
  <2> QED BY <2>2, <2>3
<1> QED BY <1>6, <1>7

(* So does the packet after one in phase, and the clock went on between    *)
(* them unless it began again.                                             *)
LEMMA PhaseKept ==
  ASSUME C!CallbacksAssumption, NEW p \in Received, NEW q \in Received, Follows(p, q),
         NEW s \in 0 .. Wrap - 1, NEW t \in Nat, InPhase(s, t, p)
  PROVE  /\ InPhase(s, t, q)
         /\ s + (q.time - t) < Wrap => s + (p.time - t) < Wrap /\ p.clk100ns <= q.clk100ns
<1>1. PICK gap \in 1 .. Wrap - 1 : q.time = p.time + gap /\ q.clk100ns = (p.clk100ns + gap) % Wrap
  BY DEF Follows
<1>2. Wrap \in Nat \ {0} /\ p.time \in Nat /\ p.time >= t /\ gap \in Nat
  BY ClockFacts DEF Received, InPhase
<1> DEFINE a == s + (p.time - t)
           b == s + (q.time - t)
<1>3. a \in Nat /\ b = a + gap /\ b \in Nat /\ q.time >= t
  BY <1>1, <1>2
<1>4. p.clk100ns = a % Wrap
  BY DEF InPhase
<1> HIDE DEF a, b
<1>5. q.clk100ns = b % Wrap
  <2>1. a \in Int /\ gap \in Int
    BY <1>2, <1>3
  <2>2. ((a % Wrap) + gap) % Wrap = (a + gap) % Wrap
    BY <2>1, <1>2, ModAdd
  <2> QED BY <2>2, <1>1, <1>3, <1>4
<1>6. ASSUME b < Wrap PROVE a < Wrap /\ p.clk100ns <= q.clk100ns
  <2>1. a \in 0 .. Wrap - 1 /\ b \in 0 .. Wrap - 1 /\ a <= b
    BY <1>2, <1>3, <1>6
  <2>2. a % Wrap = a /\ b % Wrap = b
    BY <2>1, <1>2, ModOfSmall
  <2> QED BY <2>1, <2>2, <1>2, <1>4, <1>5
<1> QED BY <1>3, <1>5, <1>6 DEF a, b, InPhase

LEMMA TrackedReceived ==
  ASSUME C!CallbacksAssumption, CallbackTypes, C!Next
  PROVE  Tracked \in Received
<1>1. PICK p \in Received, gap \in 1 .. Wrap - 1 : Comes(p, gap)
  BY PacketComes
<1>2. C!Index(current_bank, 0) \in C!Bank /\ C!Index(current_bank, NUM_BANKS - 1) \in C!Bank
  BY <1>1, RingAdd, ClockFacts DEF Comes
<1> QED BY <1>2 DEF Tracked, Held, CallbackTypes

(* What tracking a packet, or passing it over, does to the clock. *)
LEMMA Tracking ==
  ASSUME C!CallbacksAssumption, CallbackTypes, NEW rx \in Received,
         C!track_clk100ns(rx) \/ UNCHANGED C!clock,
         start_clk100ns = 0 => clk100ns_upper = 0
  PROVE  /\ start_clk100ns' = 0 => clk100ns_upper' = 0
         /\ \/ /\ started' = rx /\ start_clk100ns' = rx.clk100ns /\ last_clk100ns' = rx.clk100ns
               /\ clk100ns_upper' = 0 /\ start_clk100ns = 0
            \/ /\ started' = started /\ start_clk100ns' = start_clk100ns /\ abs_start_ns' = abs_start_ns
               /\ \/ last_clk100ns' = last_clk100ns /\ clk100ns_upper' = clk100ns_upper
                  \/ /\ last_clk100ns' = rx.clk100ns
                     /\ rx.clk100ns >= last_clk100ns => clk100ns_upper' = clk100ns_upper
<1>1. start_clk100ns \in Int /\ last_clk100ns \in Int /\ rx.clk100ns \in Int
  BY DEF CallbackTypes, Received
<1>2. CASE C!track_clk100ns(rx) /\ start_clk100ns = 0
  <2>1. /\ started' = rx /\ start_clk100ns' = rx.clk100ns /\ last_clk100ns' = rx.clk100ns
        /\ clk100ns_upper' = IF rx.clk100ns < rx.clk100ns THEN clk100ns_upper + 1 ELSE clk100ns_upper
    BY <1>2 DEF C!track_clk100ns
  <2>2. ~(rx.clk100ns < rx.clk100ns)
    BY <1>1
  <2> QED BY <2>1, <2>2, <1>2
<1>3. CASE C!track_clk100ns(rx) /\ start_clk100ns # 0
  <2>1. /\ started' = started /\ start_clk100ns' = start_clk100ns /\ abs_start_ns' = abs_start_ns
        /\ last_clk100ns' = rx.clk100ns
        /\ clk100ns_upper' = IF rx.clk100ns < last_clk100ns THEN clk100ns_upper + 1 ELSE clk100ns_upper
    BY <1>3 DEF C!track_clk100ns
  <2>2. rx.clk100ns >= last_clk100ns => ~(rx.clk100ns < last_clk100ns)
    BY <1>1
  <2> QED BY <2>1, <2>2, <1>3
<1>4. CASE UNCHANGED C!clock
  BY <1>4 DEF C!clock
<1> QED BY <1>2, <1>3, <1>4

LEMMA TimingKept ==
  ASSUME C!CallbacksAssumption, CallbackTypes, Ring, Logged, Timing, C!Next, Ring', CallbackTypes'
  PROVE  Timing'
<1> DEFINE rx == Tracked'
           p == Tracked
           s == start_clk100ns
           t == started.time
<1>1. rx \in Received /\ rx.n = Turn(heard + 1) /\ cb' = cb /\ infile' = infile /\ heard \in Nat
  BY Analysing, PacketComes DEF CallbackTypes
<1>2. C!track_clk100ns(rx) \/ UNCHANGED C!clock
  BY Effects DEF C!Timed, C!Ignored
<1>3. /\ start_clk100ns' = 0 => clk100ns_upper' = 0
      /\ \/ /\ started' = rx /\ start_clk100ns' = rx.clk100ns /\ last_clk100ns' = rx.clk100ns
            /\ clk100ns_upper' = 0 /\ start_clk100ns = 0
         \/ /\ started' = started /\ start_clk100ns' = start_clk100ns /\ abs_start_ns' = abs_start_ns
            /\ \/ last_clk100ns' = last_clk100ns /\ clk100ns_upper' = clk100ns_upper
               \/ /\ last_clk100ns' = rx.clk100ns
                  /\ rx.clk100ns >= last_clk100ns => clk100ns_upper' = clk100ns_upper
  <2>1. start_clk100ns = 0 => clk100ns_upper = 0
    BY DEF Timing
  <2> HIDE DEF rx
  <2> QED BY <2>1, <1>1, <1>2, Tracking
<1>4. UNCHANGED C!tune \/ (cb = "cb_rx" /\ ~infile /\ calibrated' = TRUE)
  <2>1. CASE cb = "cb_rx"
    <3>1. C!cb_rx \/ C!Ignored
      BY <2>1, Effects
    <3> QED BY <3>1, <2>1 DEF C!cb_rx, C!tune, C!Ignored
  <2>2. CASE cb # "cb_rx"
    BY <2>2, Effects
  <2> QED BY <2>1, <2>2
<1>5. /\ ~calibrated' => trimmed' = 0
      /\ cb' # "cb_rx" \/ infile' => trimmed' = 0 /\ ~calibrated'
  <2>1. UNCHANGED C!tune => trimmed' = trimmed /\ (calibrated' <=> calibrated)
    BY DEF C!tune
  <2> QED BY <2>1, <1>1, <1>4 DEF Timing
<1>6. ASSUME cb \in {"cb_br_rx", "cb_rx"}, started'.n > 0
      PROVE  /\ rx.n > 0 /\ started'.clk100ns = start_clk100ns'
             /\ trimmed' = 0 =>
                  /\ InPhase(start_clk100ns', started'.time, rx)
                  /\ start_clk100ns' + (rx.time - started'.time) < Wrap =>
                       clk100ns_upper' = 0 /\ last_clk100ns' <= rx.clk100ns
  <2>1. CASE /\ started' = rx /\ start_clk100ns' = rx.clk100ns /\ last_clk100ns' = rx.clk100ns
             /\ clk100ns_upper' = 0
    <3>1. rx.time \in Nat /\ rx.clk100ns \in 0 .. Wrap - 1 /\ Wrap \in Nat \ {0}
      BY <1>1, ClockFacts DEF Received
    <3>2. rx.n > 0
      BY <2>1, <1>6
    <3> HIDE DEF rx
    <3>3. rx.clk100ns + (rx.time - rx.time) = rx.clk100ns /\ rx.clk100ns % Wrap = rx.clk100ns
      BY <3>1, ModOfSmall
    <3>4. InPhase(rx.clk100ns, rx.time, rx) /\ rx.clk100ns <= rx.clk100ns
      BY <3>1, <3>3 DEF InPhase
    <3> QED BY <2>1, <3>2, <3>4
  <2>2. CASE /\ started' = started /\ start_clk100ns' = start_clk100ns
             /\ \/ last_clk100ns' = last_clk100ns /\ clk100ns_upper' = clk100ns_upper
                \/ /\ last_clk100ns' = rx.clk100ns
                   /\ rx.clk100ns >= last_clk100ns => clk100ns_upper' = clk100ns_upper
    <3>1. /\ p.n > 0 /\ started.clk100ns = s
          /\ trimmed = 0 =>
               /\ InPhase(s, t, p)
               /\ s + (p.time - t) < Wrap => clk100ns_upper = 0 /\ last_clk100ns <= p.clk100ns
      BY <2>2, <1>6 DEF Timing
    <3>2. rx.n > 0
      <4>1. started.n \in Nat /\ rx.n \in Nat
        BY <1>1 DEF CallbackTypes, Received
      <4>2. Turn(heard) \in Nat /\ Turn(heard) <= Turn(heard + 1)
        BY <1>1, TurnsGrow
      <4>3. started.n <= Turn(heard) /\ started.n > 0
        BY <2>2, <1>6 DEF Logged
      <4> HIDE DEF rx
      <4> QED BY <4>1, <4>2, <4>3, <1>1
    <3>3. ASSUME trimmed' = 0
          PROVE  /\ InPhase(s, t, rx)
                 /\ s + (rx.time - t) < Wrap => clk100ns_upper' = 0 /\ last_clk100ns' <= rx.clk100ns
      <4>1. trimmed = 0
        BY <3>3, TrimmedOnce
      <4>2. Follows(p, rx)
        BY <3>1, <3>3, TrackedFollows
      <4>3. p \in Received /\ s \in 0 .. Wrap - 1 /\ t \in Nat
        BY TrackedReceived DEF CallbackTypes, Received
      <4>4. p.clk100ns \in Int /\ rx.clk100ns \in Int /\ last_clk100ns \in Int
        BY <4>3, <1>1 DEF CallbackTypes, Received
      <4>5. /\ InPhase(s, t, p)
            /\ s + (p.time - t) < Wrap => clk100ns_upper = 0 /\ last_clk100ns <= p.clk100ns
        BY <3>1, <4>1
      <4> HIDE DEF p, rx, s, t
      <4>6. /\ InPhase(s, t, rx)
            /\ s + (rx.time - t) < Wrap => s + (p.time - t) < Wrap /\ p.clk100ns <= rx.clk100ns
        BY <4>2, <4>3, <4>5, <1>1, PhaseKept
      <4>7. ASSUME s + (rx.time - t) < Wrap PROVE clk100ns_upper' = 0 /\ last_clk100ns' <= rx.clk100ns
        <5>1. clk100ns_upper = 0 /\ last_clk100ns <= p.clk100ns /\ p.clk100ns <= rx.clk100ns
          BY <4>5, <4>6, <4>7
        <5>2. last_clk100ns <= rx.clk100ns /\ rx.clk100ns >= last_clk100ns /\ rx.clk100ns <= rx.clk100ns
          BY <5>1, <4>4
        <5> QED BY <5>1, <5>2, <2>2
      <4> QED BY <4>6, <4>7
    <3> HIDE DEF p, rx
    <3> QED BY <2>2, <3>1, <3>2, <3>3 DEF s, t
  <2> QED BY <2>1, <2>2, <1>3
<1> QED BY <1>1, <1>3, <1>5, <1>6 DEF Timing, InPhase

LEMMA TimeTrueKept ==
  ASSUME C!CallbacksAssumption, CallbackTypes, Ring, Logged, Timing, C!TimeTrue, C!Next, Ring', CallbackTypes', Timing'
  PROVE  C!TimeTrue'
<1> DEFINE rx == Tracked'
           first == start_clk100ns = 0
<1>1. rx \in Received /\ rx.n = Turn(heard + 1) /\ cb' = cb /\ heard \in Nat
  BY Analysing, PacketComes DEF CallbackTypes
<1> SUFFICES ASSUME cb \in {"cb_br_rx", "cb_rx"}, report'.of.n >= started'.n, started'.n > 0,
                    started'.clk100ns + (report'.of.time - started'.time) < Wrap, trimmed' = 0
             PROVE  report'.ns - abs_start_ns' = report'.of.time - started'.time
  BY <1>1 DEF C!TimeTrue
<1>2. C!track_clk100ns(rx) \/ UNCHANGED C!clock
  BY Effects DEF C!Timed, C!Ignored
<1>3. \/ report' = report
      \/ /\ report'.of = rx /\ report'.ns = C!now_ns_from_clk100ns(rx)
  <2>1. rx = IF cb = "cb_rx" THEN C!ringbuffer_bottom_usb ELSE C!ringbuffer_top_usb
    BY Analysing
  <2>2. (cb = "cb_br_rx" => C!cb_br_rx \/ C!Ignored) /\ (cb = "cb_rx" => C!cb_rx \/ C!Ignored)
    BY Effects
  <2> HIDE DEF rx
  <2>3. C!Ignored => report' = report
    BY DEF C!Ignored
  <2>4. CASE cb = "cb_br_rx"
    BY <2>1, <2>2, <2>3, <2>4 DEF C!cb_br_rx, C!Report
  <2>5. CASE cb = "cb_rx"
    BY <2>1, <2>2, <2>3, <2>5 DEF C!cb_rx, C!Report
  <2> QED BY <2>4, <2>5
<1>4. \/ started' = rx
      \/ started' = started /\ abs_start_ns' = abs_start_ns
  <2>1. start_clk100ns = 0 => clk100ns_upper = 0
    BY DEF Timing
  <2> HIDE DEF rx
  <2> QED BY <2>1, <1>1, <1>2, Tracking
<1>5. CASE report' = report
  <2>1. CASE started' = rx
    <3>1. report.of.n <= Turn(heard) /\ report.of.n \in Nat /\ Turn(heard) \in Nat
          /\ (Turn(heard + 1) > 0 => Turn(heard) < Turn(heard + 1)) /\ Turn(heard + 1) \in Nat
      <4>1. report.of.n \in Nat
        BY DEF CallbackTypes, Received
      <4>2. heard + 1 \in Nat
        BY <1>1
      <4> QED BY <4>1, <4>2, <1>1, TurnsGrow DEF Logged
    <3>2. rx.n > 0 /\ report.of.n >= rx.n
      BY <2>1, <1>5
    <3> HIDE DEF rx
    <3> QED BY <3>1, <3>2, <1>1
  <2>2. CASE started' = started /\ abs_start_ns' = abs_start_ns
    <3>1. trimmed = 0
      BY TrimmedOnce
    <3> QED BY <3>1, <2>2, <1>5 DEF C!TimeTrue
  <2> QED BY <2>1, <2>2, <1>4
<1>6. CASE report'.of = rx /\ report'.ns = C!now_ns_from_clk100ns(rx)
  <2> DEFINE s == start_clk100ns'
             d == rx.time - started'.time
  <2>1. /\ started'.clk100ns = s /\ InPhase(s, started'.time, rx)
        /\ s + d < Wrap => clk100ns_upper' = 0
    BY <1>1 DEF Timing, InPhase
  <2>2. s \in 0 .. Wrap - 1 /\ rx.time \in Nat /\ started'.time \in Nat /\ abs_start_ns' \in Int
        /\ Modulus \in Nat \ {0} /\ Wrap \in Nat \ {0} /\ Wrap < Modulus
    BY <1>1, ClockFacts DEF CallbackTypes, Received
  <2>3. s + d < Wrap /\ rx.time >= started'.time /\ rx.clk100ns = (s + d) % Wrap
    BY <2>1, <1>6 DEF InPhase
  <2>4. d \in Nat
    <3> HIDE DEF rx
    <3> QED BY <2>2, <2>3
  <2>5. C!now_ns_from_clk100ns(rx) = abs_start_ns' + ((rx.clk100ns - s) % Modulus) + clk100ns_upper' * Modulus
    BY DEF C!now_ns_from_clk100ns
  <2>6. report'.ns = C!now_ns_from_clk100ns(rx) /\ clk100ns_upper' = 0 /\ report'.of.time = rx.time
    BY <2>1, <2>3, <1>6
  <2> SUFFICES report'.ns - abs_start_ns' = d
    BY <2>6
  <2> HIDE DEF rx, s, d
  <2>7. rx.clk100ns = s + d
    <3>1. s + d \in 0 .. Wrap - 1
      BY <2>2, <2>3, <2>4
    <3> QED BY <3>1, <2>2, <2>3, ModOfSmall
  <2>8. (rx.clk100ns - s) % Modulus = d
    <3>1. rx.clk100ns - s = d /\ d \in 0 .. Modulus - 1
      BY <2>2, <2>3, <2>4, <2>7
    <3> QED BY <3>1, <2>2, ModOfSmall
  <2>9. clk100ns_upper' * Modulus = 0
    BY <2>2, <2>6
  <2> QED BY <2>2, <2>4, <2>5, <2>6, <2>8, <2>9
<1> QED BY <1>3, <1>5, <1>6

LEMMA SamePhase ==
  ASSUME NEW m \in Nat \ {0}, NEW a \in Int, NEW b \in Int, a % m = b % m
  PROVE  (a - b) % m = 0 /\ ((a - b) - m) % m = 0
<1>1. ((a % m) - b) % m = (a - b) % m /\ ((b % m) - b) % m = (b - b) % m
  BY ModSub
<1>2. b - b = 0 /\ 0 \in 0 .. m - 1
  OBVIOUS
<1>3. 0 % m = 0
  BY <1>2, ModOfSmall
<1>4. (a - b) % m = 0
  BY <1>1, <1>2, <1>3
<1>5. (a - b) - m = (a - b) + ((-1) * m) /\ a - b \in Int /\ -1 \in Int
  OBVIOUS
<1>6. ((a - b) + ((-1) * m)) % m = (a - b) % m
  BY <1>5, ModShift
<1> QED BY <1>4, <1>5, <1>6

(* The clock of a packet that was just received. *)
LEMMA OnTime ==
  ASSUME C!CallbacksAssumption, CallbackTypes, Timing, C!Next, Ring', cb # "cb_rx"
  PROVE  /\ Tracked'.clk100ns = clk' /\ Tracked'.time = time'
         /\ (clk' - time') % Wrap = (clk - time) % Wrap
<1>1. PICK p \in Received, gap \in 1 .. Wrap - 1 : Comes(p, gap)
  BY PacketComes
<1>2. Tracked' = p
  <2>1. Tracked' = C!ringbuffer_top_usb
    BY Analysing
  <2> QED BY <2>1, <1>1, RingAdd DEF Comes, C!ringbuffer_top_usb
<1>3. clk \in Int /\ gap \in Int /\ time \in Int /\ Wrap \in Nat \ {0} /\ trimmed = 0
  BY ClockFacts DEF CallbackTypes, Timing
<1>4. time' = time + gap /\ clk' = (clk + gap) % Wrap /\ p.clk100ns = (clk + gap - 0) % Wrap /\ p.time = time'
  BY <1>1, <1>3 DEF Comes
<1>5. clk + gap - 0 = clk + gap
  BY <1>3
<1>6. (((clk + gap) % Wrap) - (time + gap)) % Wrap = ((clk + gap) - (time + gap)) % Wrap
  <2>1. clk + gap \in Int /\ time + gap \in Int
    BY <1>3
  <2> QED BY <2>1, <1>3, ModSub
<1>7. (clk + gap) - (time + gap) = clk - time
  BY <1>3
<1>8. (clk' - time') % Wrap = (clk - time) % Wrap
  BY <1>4, <1>6, <1>7
<1> QED BY <1>2, <1>4, <1>5, <1>8

LEMMA DifferingKept ==
  ASSUME C!CallbacksAssumption, CallbackTypes, Timing, Differing, C!DifferenceTrue, C!Next, Ring', CallbackTypes'
  PROVE  Differing' /\ C!DifferenceTrue'
<1> DEFINE rx == Tracked'
           q == log[Len(log)]
<1>1. rx \in Received /\ cb' = cb
  BY Analysing
<1> SUFFICES ASSUME cb \in {"cb_btle", "cb_ego"}
             PROVE  /\ log' # <<>> => /\ prev_ts' = log'[Len(log')].clk100ns
                                      /\ (log'[Len(log')].clk100ns - log'[Len(log')].time) % Wrap = (clk' - time') % Wrap
                    /\ Len(log') > 1 =>
                         /\ report'.of = log'[Len(log')]
                         /\ report'.difference \in 0 .. Wrap - 1
                         /\ (report'.of.time - log'[Len(log') - 1].time - report'.difference) % Wrap = 0
  BY <1>1 DEF Differing, C!DifferenceTrue
<1>2. rx.clk100ns = clk' /\ rx.time = time' /\ (clk' - time') % Wrap = (clk - time) % Wrap
  BY OnTime
<1>3. \/ UNCHANGED <<prev_ts, report, log>>
      \/ /\ prev_ts' = rx.clk100ns /\ log' = Append(log, rx)
         /\ report'.of = rx /\ report'.difference = C!Difference(rx)
  <2>1. rx = C!ringbuffer_top_usb
    BY Analysing
  <2> HIDE DEF rx
  <2>2. CASE cb = "cb_btle"
    <3>1. C!cb_btle \/ C!Ignored
      BY <2>2, Effects
    <3> QED BY <2>1, <3>1 DEF C!cb_btle, C!Report, C!Analysed, C!Ignored
  <2>3. CASE cb = "cb_ego"
    <3>1. C!cb_ego
      BY <2>3, Effects
    <3> QED BY <2>1, <3>1 DEF C!cb_ego, C!Report, C!Analysed
  <2> QED BY <2>2, <2>3
<1>4. CASE UNCHANGED <<prev_ts, report, log>>
  BY <1>2, <1>4 DEF Differing, C!DifferenceTrue
<1>5. CASE /\ prev_ts' = rx.clk100ns /\ log' = Append(log, rx)
           /\ report'.of = rx /\ report'.difference = C!Difference(rx)
  <2> HIDE DEF rx
  <2>1. log \in Seq(Received) /\ Len(log) \in Nat
    BY DEF CallbackTypes
  <2>2. Len(log') = Len(log) + 1 /\ log'[Len(log')] = rx
        /\ (Len(log) > 0 => log'[Len(log') - 1] = q /\ q \in Received /\ log # <<>>)
    BY <2>1, <1>5, <1>1
  <2>3. prev_ts' = log'[Len(log')].clk100ns
        /\ (log'[Len(log')].clk100ns - log'[Len(log')].time) % Wrap = (clk' - time') % Wrap
    BY <2>2, <1>2, <1>5
  <2>4. ASSUME Len(log') > 1
        PROVE  /\ report'.difference \in 0 .. Wrap - 1
               /\ (report'.of.time - log'[Len(log') - 1].time - report'.difference) % Wrap = 0
    <3>1. log'[Len(log') - 1] = q /\ q \in Received /\ log # <<>>
      BY <2>1, <2>2, <2>4
    <3>2. prev_ts = q.clk100ns /\ (q.clk100ns - q.time) % Wrap = (clk - time) % Wrap
      BY <3>1 DEF Differing
    <3> HIDE DEF q
    <3> DEFINE x == rx.clk100ns
               y == q.clk100ns
               s == rx.time
               t == q.time
               dd == IF x < y THEN x + Wrap - y ELSE x - y
    <3>3. x \in 0 .. Wrap - 1 /\ y \in 0 .. Wrap - 1 /\ s \in Int /\ t \in Int
          /\ Wrap \in Nat \ {0} /\ Modulus \in Nat \ {0} /\ Wrap < Modulus
      BY <1>1, <3>1, ClockFacts DEF Received
    <3>4. (y - t) % Wrap = (x - s) % Wrap
      BY <1>2, <3>2
    <3>5. C!Difference(rx) = ((IF x < y THEN x + Wrap ELSE x) - y) % Modulus
      BY <3>2 DEF C!Difference, C!Rolled
    <3> HIDE DEF x, y, s, t
    <3>6. dd \in 0 .. Wrap - 1 /\ dd \in 0 .. Modulus - 1
      BY <3>3
    <3>7. C!Difference(rx) = dd
      <4>1. (IF x < y THEN x + Wrap ELSE x) - y = dd
        BY <3>3
      <4>2. dd % Modulus = dd
        BY <3>3, <3>6, ModOfSmall
      <4> QED BY <4>1, <4>2, <3>5
    <3>8. (s - t - dd) % Wrap = 0
      <4>1. y - t \in Int /\ x - s \in Int
        BY <3>3
      <4>2. ((y - t) - (x - s)) % Wrap = 0 /\ (((y - t) - (x - s)) - Wrap) % Wrap = 0
        BY <4>1, <3>3, <3>4, SamePhase
      <4>3. s - t - dd = IF x < y THEN ((y - t) - (x - s)) - Wrap ELSE (y - t) - (x - s)
        BY <3>3
      <4> QED BY <4>2, <4>3
    <3> QED BY <3>1, <3>6, <3>7, <3>8, <1>5 DEF s, t
  <2> QED BY <2>2, <2>3, <2>4, <1>5
<1> QED BY <1>3, <1>4, <1>5

LEMMA TunedKept ==
  ASSUME C!CallbacksAssumption, CallbackTypes, C!Tuned, C!Next, Ring', Timing'
  PROVE  C!Tuned'
<1> DEFINE rx == Tracked'
           o(offset) == C!Offset(rx.clk100ns, offset)
           x(offset) == rx.clk100ns + offset - Preamble
<1>1. infile' => trimmed' = 0
  BY DEF Timing
<1>2. UNCHANGED C!tune
      \/ \E offset \in Offsets : trimmed' = C!Trim(o(offset)) /\ tuned' = x(offset)
  <2>1. CASE cb = "cb_rx"
    <3>1. (C!cb_rx \/ C!Ignored) /\ rx = C!ringbuffer_bottom_usb
      BY <2>1, Effects, Analysing
    <3> HIDE DEF rx
    <3> QED BY <3>1 DEF C!cb_rx, C!tune, C!Ignored
  <2>2. CASE cb # "cb_rx"
    BY <2>2, Effects
  <2> QED BY <2>1, <2>2
<1>3. CASE UNCHANGED C!tune
  BY <1>1, <1>3 DEF C!Tuned, C!tune
<1>4. ASSUME NEW offset \in Offsets, trimmed' = C!Trim(o(offset)), tuned' = x(offset)
      PROVE  (tuned' - trimmed') % Slot = CLK_TUNE_TIME
  <2> DEFINE S == Slot
             tt == CLK_TUNE_TIME
             y == o(offset)
             z == x(offset)
  <2>1. S \in Nat \ {0} /\ tt \in 0 .. S - 1 /\ offset \in Int /\ Preamble \in Int
    BY ClockFacts DEF C!CallbacksAssumption
  <2>2. rx.clk100ns \in Int /\ z \in Int
    <3>1. rx.clk100ns \in 0 .. Wrap - 1
      BY Analysing DEF Received
    <3> HIDE DEF rx
    <3> QED BY <3>1, <2>1
  <2>3. y = z % S
    <3>1. rx.clk100ns + offset + S - Preamble = z + (1 * S) /\ 1 \in Int
      BY <2>1, <2>2
    <3>2. (z + (1 * S)) % S = z % S
      BY <2>1, <2>2, <3>1, ModShift, Zenon
    <3> QED BY <3>1, <3>2 DEF C!Offset
  <2>4. C!Trim(y) = IF y < tt THEN S + y - tt ELSE y - tt
    BY DEF C!Trim
  <2>5. tuned' = z /\ trimmed' = C!Trim(y)
    BY <1>4
  <2> HIDE DEF y, z, S, tt
  <2>6. y \in 0 .. S - 1
    BY <2>1, <2>2, <2>3, ModRangeInt
  <2>7. (z - y) % S = 0
    <3>1. y % S = y
      BY <2>1, <2>6, ModOfSmall
    <3>2. z % S = y % S /\ z \in Int /\ y \in Int
      BY <2>2, <2>3, <2>6, <3>1
    <3> QED BY <3>2, <2>1, SamePhase
  <2> DEFINE k == (z - y) \div S
  <2>8. z - y = (k * S) + 0 /\ k \in Int
    <3>1. z - y \in Int
      BY <2>2, <2>6
    <3> QED BY <3>1, <2>1, <2>7, DivModInt
  <2> HIDE DEF k
  <2>9. ASSUME NEW j \in Int PROVE (tt + (j * S)) % S = tt
    <3>1. tt \in Int
      BY <2>1
    <3>2. (tt + (j * S)) % S = tt % S
      BY <3>1, <2>1, <2>9, ModShift
    <3> QED BY <3>2, <2>1, ModOfSmall
  <2>10. CASE y < tt
    <3>1. z - (S + y - tt) = tt + ((k - 1) * S) /\ k - 1 \in Int
      BY <2>1, <2>2, <2>6, <2>8
    <3> QED BY <3>1, <2>4, <2>5, <2>9, <2>10 DEF S, tt
  <2>11. CASE ~(y < tt)
    <3>1. z - (y - tt) = tt + (k * S)
      BY <2>1, <2>2, <2>6, <2>8
    <3> QED BY <3>1, <2>4, <2>5, <2>8, <2>9, <2>11 DEF S, tt
  <2> QED BY <2>10, <2>11
<1> QED BY <1>1, <1>2, <1>3, <1>4 DEF C!Tuned

NoSingleGap(map) == \A c \in Channels : C!seen(map, c) \/ ~C!seen(map, c - 1) \/ ~C!seen(map, c + 1)

LEMMA FilledGaps ==
  ASSUME C!CallbacksAssumption, NEW map \in SUBSET Channels, NEW c \in Channels, NoSingleGap(map)
  PROVE  NoSingleGap(C!Filled(map \cup {c}, c))
<1>1. PICK last \in Nat \ {0} : Channels = 0 .. last
  BY DEF C!CallbacksAssumption
<1> DEFINE more == map \cup {c}
           above == IF ~C!seen(more, c + 1) /\ C!seen(more, c + 2) THEN more \cup {c + 1} ELSE more
           new == C!Filled(more, c)
<1>2. new = IF ~C!seen(above, c - 1) /\ C!seen(above, c - 2) THEN above \cup {c - 1} ELSE above
  BY DEF C!Filled
<1>3. \A d \in Int : C!seen(more, d) <=> C!seen(map, d) \/ d = c
  BY DEF C!seen
<1>4. \A d \in Int : C!seen(above, d) <=> C!seen(more, d) \/ (d = c + 1 /\ C!seen(more, c + 2))
  BY <1>1 DEF C!seen
<1>5. \A d \in Int : C!seen(new, d) <=> C!seen(above, d) \/ (d = c - 1 /\ C!seen(above, c - 2))
  BY <1>1, <1>2 DEF C!seen
<1>6. \A d \in Channels : C!seen(map, d) \/ ~C!seen(map, d - 1) \/ ~C!seen(map, d + 1)
  BY DEF NoSingleGap
<1> HIDE DEF more, above, new
<1> SUFFICES ASSUME NEW d \in Channels, ~C!seen(new, d), C!seen(new, d - 1), C!seen(new, d + 1) PROVE FALSE
  BY DEF NoSingleGap, new, more
<1> DEFINE Seen(e) == C!seen(map, e)
<1>7. c \in Int /\ d \in Int
  BY <1>1
<1>8. \A e \in Int : Seen(e) <=> C!seen(map, e)
  OBVIOUS
<1> HIDE DEF Seen
<1>9. d # c /\ ~Seen(d) /\ (Seen(d - 1) => ~Seen(d + 1))
  BY <1>3, <1>4, <1>5, <1>6, <1>7, <1>8
<1>10. d # c + 1 \/ ~C!seen(more, c + 2)
  BY <1>4, <1>5, <1>7
<1>11. d # c - 1 \/ ~C!seen(above, c - 2)
  BY <1>5, <1>7
<1>12. CASE d = c + 1
  <2>1. ~C!seen(more, d + 1) /\ d + 1 # c + 1 /\ d + 1 # c - 1
    BY <1>10, <1>12, <1>7
  <2> QED BY <2>1, <1>4, <1>5, <1>7
<1>13. CASE d = c - 1
  <2>1. ~C!seen(above, d - 1) /\ d - 1 # c - 1
    BY <1>11, <1>13, <1>7
  <2> QED BY <2>1, <1>5, <1>7
<1>14. CASE d # c + 1 /\ d # c - 1
  <2>1. d - 1 # c /\ d + 1 # c
    BY <1>14, <1>7
  <2>2. C!seen(above, d - 1)
    BY <1>5, <1>7, <1>9
  <2>3. C!seen(map, d - 1) \/ (d - 1 = c + 1 /\ C!seen(more, c + 2))
    BY <2>1, <2>2, <1>3, <1>4, <1>7
  <2>4. d - 1 # c + 1 \/ ~C!seen(more, c + 2)
    BY <1>4, <1>5, <1>7
  <2>5. C!seen(above, d + 1) \/ (d + 1 = c - 1 /\ C!seen(above, c - 2))
    BY <1>5, <1>7
  <2>6. C!seen(above, d + 1)
    BY <2>5, <1>5, <1>7
  <2>7. C!seen(map, d + 1)
    BY <2>1, <2>6, <1>3, <1>4, <1>7, <1>9
  <2>8. d - 1 \in Int /\ d + 1 \in Int
    BY <1>7
  <2> QED BY <2>3, <2>4, <2>7, <2>8, <1>8, <1>9
<1> QED BY <1>12, <1>13, <1>14

LEMMA MapsKept ==
  ASSUME C!CallbacksAssumption, CallbackTypes, Mapped, C!MapsTrue, C!Next, Ring'
  PROVE  Mapped' /\ C!MapsTrue'
<1> DEFINE rx == Tracked'
           c == rx.channel
           n == Len(log)
           m == packet_counter_max
<1>1. rx \in Received /\ c \in Channels /\ cb' = cb /\ (cb # "cb_rx" => rx = C!ringbuffer_top_usb)
  BY Analysing DEF Received
<1>2. log \in Seq(Received) /\ n \in Nat /\ DOMAIN log = 1 .. n /\ m \in Nat \ {0}
  BY DEF CallbackTypes, C!CallbacksAssumption
<1>3. CASE cb = "cb_afh_initial"
  <2>1. C!cb_afh_initial \/ C!Ignored
    BY <1>3, PacketComes DEF C!cb_br_rx, C!cb_rx, C!cb_btle, C!cb_ego, C!cb_afh_monitor
  <2>2. \/ UNCHANGED <<afh_map, afh_device>>
        \/ afh_map' = C!Filled(afh_map \cup {c}, c) /\ afh_device' = afh_map'
    BY <2>1, <1>1, <1>3 DEF C!cb_afh_initial, C!Ignored, C!maps
  <2>3. afh_device = afh_map /\ NoSingleGap(afh_map) /\ afh_map \in SUBSET Channels
    BY <1>3 DEF C!MapsTrue, NoSingleGap, CallbackTypes
  <2> HIDE DEF c
  <2>4. afh_device' = afh_map' /\ NoSingleGap(afh_map')
    BY <2>2, <2>3, <1>1, FilledGaps
  <2> QED BY <2>4, <1>1, <1>3 DEF C!MapsTrue, Mapped, NoSingleGap
<1>4. CASE cb = "cb_afh_monitor"
  <2>1. C!cb_afh_monitor \/ C!Ignored
    BY <1>4, PacketComes DEF C!cb_br_rx, C!cb_rx, C!cb_btle, C!cb_ego, C!cb_afh_initial
  <2>2. CASE C!Ignored
    BY <2>2, <1>1, <1>4 DEF C!Ignored, C!maps, Mapped, C!MapsTrue, C!LastOf
  <2>3. CASE C!cb_afh_monitor
    <3>1. /\ counter' = counter + 1 /\ last_seen' = [last_seen EXCEPT ![c] = counter']
          /\ afh_map' = {d \in afh_map \cup {c} : ~C!Unused(d)} /\ log' = Append(log, rx)
      BY <2>3, <1>1, <1>4 DEF C!cb_afh_monitor, C!Analysed
    <3>2. /\ counter = n
          /\ \A k \in 1 .. n : last_seen[log[k].channel] >= k
          /\ \A d \in Channels : last_seen[d] # 0 => last_seen[d] \in 1 .. n /\ log[last_seen[d]].channel = d
          /\ \A k \in 1 .. n : k > n - m => log[k].channel \in afh_map
      BY <1>2, <1>4 DEF Mapped
    <3>3. last_seen \in [Channels -> Nat] /\ \A k \in 1 .. n : log[k] \in Received /\ log[k].channel \in Channels
      <4>1. last_seen \in [Channels -> Nat]
        BY DEF CallbackTypes
      <4>2. \A k \in 1 .. n : log[k] \in Received
        BY <1>2
      <4>3. \A r \in Received : r.channel \in Channels
        BY DEF Received
      <4> QED BY <4>1, <4>2, <4>3
    <3> DEFINE seen2 == last_seen'
               log2 == log'
               map2 == afh_map'
    <3>4. /\ Len(log2) = n + 1 /\ DOMAIN log2 = 1 .. n + 1 /\ log2[n + 1] = rx
          /\ \A k \in 1 .. n : log2[k] = log[k]
      BY <1>2, <3>1
    <3>5. seen2[c] = n + 1 /\ \A d \in Channels : d # c => seen2[d] = last_seen[d]
      BY <1>1, <3>1, <3>2, <3>3
    <3>6. \A d \in Channels : d \in map2 <=> d \in afh_map \cup {c} /\ ~(n + 1 - seen2[d] >= m)
      <4>1. counter' = n + 1
        BY <3>1, <3>2
      <4>2. \A d \in Channels : C!Unused(d) <=> n + 1 - seen2[d] >= m
        <5> TAKE d \in Channels
        <5>1. C!Unused(d) <=> counter' - seen2[d] >= m
          BY DEF C!Unused
        <5>2. seen2[d] \in Int /\ counter' \in Int
          BY <3>1, <3>3, <4>1, <1>1, <1>2
        <5>3. (counter' - seen2[d] >= m) <=> (n + 1 - seen2[d] >= m)
          BY <4>1, <5>2, <1>2
        <5> QED BY <5>1, <5>3, Zenon
      <4> QED BY <3>1, <4>2, Zenon
    <3>7. afh_map \subseteq Channels /\ map2 \subseteq Channels
      <4>1. afh_map \subseteq Channels
        BY DEF CallbackTypes
      <4> QED BY <4>1, <3>1, <1>1
    <3> HIDE DEF seen2, log2, map2, c, n, m
    <3>8. ASSUME NEW k \in 1 .. n + 1 PROVE log2[k].channel \in Channels /\ seen2[log2[k].channel] >= k
      <4>1. CASE k = n + 1
        BY <4>1, <1>1, <1>2, <3>4, <3>5 DEF c
      <4>2. CASE k # n + 1
        <5>1. k \in 1 .. n /\ log2[k] = log[k] /\ log[k].channel \in Channels /\ last_seen[log[k].channel] >= k
          BY <4>2, <1>2, <3>2, <3>3, <3>4
        <5>2. seen2[log[k].channel] >= k
          BY <5>1, <1>2, <3>5
        <5> QED BY <5>1, <5>2
      <4> QED BY <4>1, <4>2
    <3>9. ASSUME NEW d \in Channels, seen2[d] # 0 PROVE seen2[d] \in 1 .. n + 1 /\ log2[seen2[d]].channel = d
      <4>1. CASE d = c
        BY <4>1, <1>2, <3>4, <3>5 DEF c
      <4>2. CASE d # c
        BY <4>2, <1>2, <3>2, <3>4, <3>5, <3>9
      <4> QED BY <4>1, <4>2
    <3>10. \A d \in Channels : seen2[d] \in Nat
      BY <1>2, <3>3, <3>5
    <3>11. ASSUME NEW k \in 1 .. n + 1, k > (n + 1) - m PROVE log2[k].channel \in map2
      <4> DEFINE d == log2[k].channel
      <4>1. d \in afh_map \cup {c}
        <5>1. CASE k = n + 1
          BY <5>1, <3>4 DEF c
        <5>2. CASE k # n + 1
          BY <5>2, <1>2, <3>2, <3>4, <3>11
        <5> QED BY <5>1, <5>2
      <4>2. d \in Channels /\ seen2[d] >= k /\ seen2[d] \in Nat
        BY <3>8, <3>10
      <4> HIDE DEF d
      <4>3. ~(n + 1 - seen2[d] >= m)
        BY <4>2, <3>11, <1>2
      <4>4. d \in map2
        BY <4>1, <4>2, <4>3, <3>6
      <4> QED BY <4>4 DEF d
    <3>12. ASSUME n + 1 >= m, NEW d \in map2
           PROVE  \E k \in 1 .. n + 1 : k > (n + 1) - m /\ log2[k].channel = d
      <4>1. d \in Channels /\ ~(n + 1 - seen2[d] >= m)
        BY <3>6, <3>7, <3>12
      <4>2. seen2[d] \in Nat /\ seen2[d] > (n + 1) - m
        BY <4>1, <3>10, <1>2
      <4>3. seen2[d] # 0
        BY <4>2, <3>12, <1>2
      <4> QED BY <4>1, <4>2, <4>3, <3>9
    <3>13. Mapped'
      <4>1. counter' = Len(log2)
        BY <3>1, <3>2, <3>4
      <4> QED BY <4>1, <3>4, <3>8, <3>9, <3>11 DEF Mapped, seen2, log2, map2, m
    <3>14. C!MapsTrue'
      <4>1. cb' = "cb_afh_monitor"
        BY <1>1, <1>4
      <4>2. n + 1 >= m => map2 = {log2[k].channel : k \in {k \in 1 .. n + 1 : k > (n + 1) - m}}
        BY <3>11, <3>12
      <4>3. {p.channel : p \in {log2[k] : k \in {k \in 1 .. n + 1 : k > (n + 1) - m}}}
              = {log2[k].channel : k \in {k \in 1 .. n + 1 : k > (n + 1) - m}}
        OBVIOUS
      <4> QED BY <4>1, <4>2, <4>3, <3>4 DEF C!MapsTrue, C!LastOf, log2, map2, m
    <3> QED BY <3>13, <3>14
  <2> QED BY <2>1, <2>2, <2>3
<1>5. CASE cb \notin {"cb_afh_initial", "cb_afh_monitor"}
  BY <1>1, <1>5 DEF Mapped, C!MapsTrue
<1> QED BY <1>3, <1>4, <1>5

(* The packets on a channel can be counted. *)
LEMMA Counted ==
  ASSUME CallbackTypes, NEW c \in Channels
  PROVE  /\ C!On(c) \subseteq 1 .. Len(log) /\ IsFiniteSet(C!On(c)) /\ Cardinality(C!On(c)) \in Nat
         /\ Cardinality(C!On(c)) <= Len(log)
         /\ \A k \in C!On(c) : IsFiniteSet(C!After(c, k)) /\ Cardinality(C!After(c, k)) \in Nat
<1> DEFINE n == Len(log)
<1>1. n \in Nat /\ DOMAIN log = 1 .. n
  BY DEF CallbackTypes
<1>2. C!On(c) \in SUBSET (1 .. n)
  BY <1>1 DEF C!On
<1> HIDE DEF n
<1>3. IsFiniteSet(1 .. n) /\ Cardinality(1 .. n) = n
  <2>1. 1 \in Int /\ n \in Int
    BY <1>1
  <2>2. IsFiniteSet(1 .. n) /\ Cardinality(1 .. n) = IF 1 > n THEN 0 ELSE n - 1 + 1
    BY <2>1, FS_Interval
  <2> QED BY <2>2, <1>1
<1>4. IsFiniteSet(C!On(c)) /\ Cardinality(C!On(c)) <= n
  BY <1>2, <1>3, FS_Subset
<1>5. Cardinality(C!On(c)) \in Nat
  BY <1>4, FS_CardinalityType
<1>6. ASSUME NEW k \in C!On(c) PROVE IsFiniteSet(C!After(c, k)) /\ Cardinality(C!After(c, k)) \in Nat
  <2>1. C!After(c, k) \in SUBSET C!On(c)
    BY DEF C!After
  <2>2. IsFiniteSet(C!After(c, k))
    BY <2>1, <1>4, FS_Subset
  <2> QED BY <2>2, FS_CardinalityType
<1> QED BY <1>2, <1>4, <1>5, <1>6 DEF n

(* One more packet: what comes after those that were there, and what after *)
(* it.                                                                     *)
LEMMA OneMore ==
  ASSUME CallbackTypes, NEW rx \in Received, log' = Append(log, rx), NEW c \in Channels
  PROVE  /\ c # rx.channel => C!On(c)' = C!On(c) /\ \A k \in C!On(c) : C!After(c, k)' = C!After(c, k)
         /\ c = rx.channel =>
              /\ C!On(c)' = C!On(c) \cup {Len(log) + 1} /\ Len(log) + 1 \notin C!On(c)
              /\ Cardinality(C!On(c))' = Cardinality(C!On(c)) + 1
              /\ Cardinality(C!After(c, Len(log) + 1))' = 0
              /\ \A k \in C!On(c) : Cardinality(C!After(c, k))' = Cardinality(C!After(c, k)) + 1
         /\ log'[Len(log) + 1] = rx /\ \A k \in C!On(c) : log'[k] = log[k]
<1> DEFINE n == Len(log)
           log2 == log'
           A == C!On(c)
           A2 == C!On(c)'
           B(k) == C!After(c, k)
           B2(k) == C!After(c, k)'
<1>1. n \in Nat /\ DOMAIN log = 1 .. n /\ log \in Seq(Received)
  BY DEF CallbackTypes
<1>2. DOMAIN log2 = 1 .. n + 1 /\ log2[n + 1] = rx /\ \A k \in 1 .. n : log2[k] = log[k]
  BY <1>1
<1>3. /\ A = {k \in 1 .. n : log[k].channel = c} /\ A2 = {k \in 1 .. n + 1 : log2[k].channel = c}
      /\ \A k : B(k) = {j \in A : j > k} /\ B2(k) = {j \in A2 : j > k}
  BY <1>1, <1>2 DEF C!On, C!After
<1>4. IsFiniteSet(A) /\ \A k \in A : IsFiniteSet(B(k))
  BY Counted
<1> SUFFICES /\ c # rx.channel => A2 = A /\ \A k \in A : B2(k) = B(k)
             /\ c = rx.channel => /\ A2 = A \cup {n + 1} /\ n + 1 \notin A
                                  /\ Cardinality(A2) = Cardinality(A) + 1
                                  /\ Cardinality(B2(n + 1)) = 0
                                  /\ \A k \in A : Cardinality(B2(k)) = Cardinality(B(k)) + 1
             /\ log2[n + 1] = rx /\ \A k \in A : log2[k] = log[k]
  OBVIOUS
<1> HIDE DEF n, log2, A, A2, B, B2
<1>5. ASSUME c # rx.channel PROVE A2 = A /\ \A k \in A : B2(k) = B(k)
  <2>1. A2 = A
    BY <1>1, <1>2, <1>3, <1>5
  <2> QED BY <2>1, <1>3
<1>6. ASSUME c = rx.channel
      PROVE  /\ A2 = A \cup {n + 1} /\ n + 1 \notin A
             /\ Cardinality(A2) = Cardinality(A) + 1
             /\ Cardinality(B2(n + 1)) = 0
             /\ \A k \in A : Cardinality(B2(k)) = Cardinality(B(k)) + 1
  <2>1. A2 = A \cup {n + 1} /\ n + 1 \notin A
    BY <1>1, <1>2, <1>3, <1>6
  <2>2. Cardinality(A2) = Cardinality(A) + 1
    BY <2>1, <1>4, FS_AddElement
  <2>3. B2(n + 1) = {}
    BY <2>1, <1>1, <1>3
  <2>4. ASSUME NEW k \in A PROVE Cardinality(B2(k)) = Cardinality(B(k)) + 1
    <3>1. B2(k) = B(k) \cup {n + 1} /\ n + 1 \notin B(k)
      BY <2>1, <1>1, <1>3
    <3> QED BY <3>1, <1>4, FS_AddElement
  <2> QED BY <2>1, <2>2, <2>3, <2>4, FS_EmptySet
<1>7. \A k \in A : log2[k] = log[k]
  BY <1>2, <1>3
<1> QED BY <1>2, <1>5, <1>6, <1>7

LEMMA RememberedKept ==
  ASSUME C!CallbacksAssumption, CallbackTypes, Remembered, C!Next, Ring'
  PROVE  Remembered'
<1> DEFINE rx == Tracked'
           m == NUM_BANKS
           h == rssi_history
           h2 == rssi_history'
<1>1. rx \in Received /\ cb' = cb /\ rx.channel \in Channels /\ rx.rssi_max \in Int /\ m \in Nat \ {0}
      /\ C!Bank = 0 .. m - 1
  BY Analysing, ClockFacts DEF Received
<1>2. CASE cb \notin {"cb_br_rx", "cb_rx", "cb_btle"}
  BY <1>1, <1>2 DEF Remembered
<1>3. CASE cb \in {"cb_br_rx", "cb_rx", "cb_btle"}
  <2>1. \/ log' = log /\ h2 = h
        \/ log' = Append(log, rx) /\ h2 = C!History(rx)
    <3>1. C!cb_btle => \/ log' = log /\ h2 = h
                       \/ log' = Append(log, C!ringbuffer_top_usb) /\ h2 = C!History(C!ringbuffer_top_usb)
      BY DEF C!cb_btle, C!Analysed
    <3>2. C!Timed(rx) => log' = Append(log, rx) /\ h2 = C!History(rx)
      BY DEF C!Timed, C!Analysed
    <3>3. cb # "cb_rx" => rx = C!ringbuffer_top_usb
      BY Analysing
    <3>4. C!Ignored => log' = log /\ h2 = h
      BY DEF C!Ignored
    <3> HIDE DEF rx, h2, h
    <3> QED BY <3>1, <3>2, <3>3, <3>4, <1>3, Effects DEF rx
  <2>2. CASE log' = log /\ h2 = h
    <3>1. \A c : C!On(c)' = C!On(c)
      BY <2>2 DEF C!On
    <3>2. \A c, k : C!After(c, k)' = C!After(c, k)
      BY <3>1 DEF C!After
    <3>3. \A c : Cardinality(C!On(c))' = Cardinality(C!On(c))
      BY <3>1
    <3>4. \A c, k : Cardinality(C!After(c, k))' = Cardinality(C!After(c, k))
      BY <3>2
    <3>5. C!Bank' = C!Bank /\ log' = log /\ rssi_history' = rssi_history /\ cb' = cb
      BY <2>2, <1>1 DEF C!Bank
    <3> HIDE DEF rx, m, h, h2
    <3> QED BY <3>1, <3>3, <3>4, <3>5 DEF Remembered
  <2>3. CASE log' = Append(log, rx) /\ h2 = C!History(rx)
    <3> DEFINE s == rx.channel
    <3>1. /\ h \in [Channels -> [1 .. m -> Int]] /\ h2[s] = Append(Tail(h[s]), rx.rssi_max)
          /\ \A c \in Channels : c # s => h2[c] = h[c]
      BY <2>3, <1>1, TypesOfHistory DEF CallbackTypes
    <3>2. h2[s][m] = rx.rssi_max /\ \A k \in 1 .. m - 1 : h2[s][k] = h[s][k + 1]
      BY <3>1, <1>1, Shifted
    <3> SUFFICES ASSUME NEW c \in Channels
                 PROVE  /\ \A k \in C!On(c)' : Cardinality(C!After(c, k))' < m
                              => h2[c][m - Cardinality(C!After(c, k))'] = log'[k].rssi_max
                        /\ \A r \in C!Bank : r < Cardinality(C!On(c))'
                              => \E k \in C!On(c)' : Cardinality(C!After(c, k))' = r
      BY DEF Remembered, C!Bank, C!On, C!After
    <3> DEFINE A == C!On(c)
               A2 == C!On(c)'
               B(k) == Cardinality(C!After(c, k))
               B2(k) == Cardinality(C!After(c, k))'
               a == Cardinality(C!On(c))
               a2 == Cardinality(C!On(c))'
               log2 == log'
               n == Len(log)
    <3>3. /\ \A k \in A : B(k) < m => h[c][m - B(k)] = log[k].rssi_max
          /\ \A r \in C!Bank : r < a => \E k \in A : B(k) = r
      BY <1>3 DEF Remembered
    <3>4. a \in Nat /\ n \in Nat /\ \A k \in A : B(k) \in Nat
      BY Counted DEF CallbackTypes
    <3>5. log2[n + 1] = rx /\ \A k \in A : log2[k] = log[k]
      BY <2>3, <1>1, OneMore
    <3>6. CASE c # s
      <4>1. A2 = A /\ \A k \in A : B2(k) = B(k)
        BY <2>3, <3>6, <1>1, OneMore
      <4>2. a2 = a /\ h2[c] = h[c]
        BY <4>1, <3>1, <3>6
      <4> HIDE DEF A, A2, B, B2, a, a2, log2, h, h2, m, rx
      <4> QED BY <4>1, <4>2, <3>3, <3>5 DEF A2, B2, a2, log2
    <3>7. CASE c = s
      <4>1. A2 = A \cup {n + 1} /\ a2 = a + 1 /\ B2(n + 1) = 0 /\ \A k \in A : B2(k) = B(k) + 1
        BY <2>3, <3>7, <1>1, OneMore
      <4>2. h2[c][m] = rx.rssi_max /\ \A k \in 1 .. m - 1 : h2[c][k] = h[c][k + 1]
        BY <3>2, <3>7
      <4> SUFFICES /\ \A k \in A2 : B2(k) < m => h2[c][m - B2(k)] = log2[k].rssi_max
                   /\ \A r \in C!Bank : r < a2 => \E k \in A2 : B2(k) = r
        OBVIOUS
      <4> HIDE DEF A, A2, B, B2, a, a2, log2, h, h2, m, rx, s, n
      <4>3. ASSUME NEW k \in A2, B2(k) < m PROVE h2[c][m - B2(k)] = log2[k].rssi_max
        <5>1. CASE k = n + 1
          <6>1. m - B2(k) = m
            BY <5>1, <4>1, <1>1
          <6> QED BY <6>1, <5>1, <4>2, <3>5
        <5>2. CASE k \in A
          <6>1. B2(k) = B(k) + 1 /\ B(k) \in Nat
            BY <5>2, <4>1, <3>4
          <6>2. m - B2(k) \in 1 .. m - 1 /\ (m - B2(k)) + 1 = m - B(k) /\ B(k) < m
            BY <6>1, <4>3, <1>1
          <6>3. h2[c][m - B2(k)] = h[c][m - B(k)]
            BY <6>2, <4>2
          <6> QED BY <6>2, <6>3, <5>2, <3>3, <3>5
        <5> QED BY <5>1, <5>2, <4>1
      <4>4. ASSUME NEW r \in C!Bank, r < a2 PROVE \E k \in A2 : B2(k) = r
        <5>1. CASE r = 0
          BY <5>1, <4>1
        <5>2. CASE r # 0
          <6>1. r - 1 \in C!Bank /\ r - 1 < a /\ r \in Nat
            BY <5>2, <4>4, <4>1, <3>4, <1>1
          <6>2. PICK k \in A : B(k) = r - 1
            BY <6>1, <3>3
          <6>3. B2(k) = r
            BY <6>1, <6>2, <4>1
          <6> QED BY <6>3, <4>1
        <5> QED BY <5>1, <5>2
      <4> QED BY <4>3, <4>4
    <3> QED BY <3>6, <3>7
  <2> QED BY <2>1, <2>2, <2>3
<1> QED BY <1>2, <1>3

(* A report is of the packet that was analysed last only if it was made    *)
(* then: that packet has a number no other had.                            *)
LEMMA SignalledKept ==
  ASSUME C!CallbacksAssumption, CallbackTypes, Logged, Signalled, C!Next, Ring'
  PROVE  Signalled'
<1> DEFINE rx == Tracked'
           Fresh == report'.of = rx /\ report'.signal = C!Max(C!ToSet(rssi_history'[rx.channel]))
<1>1. rx \in Received /\ cb' = cb /\ rx.n = Turn(heard + 1) /\ heard \in Nat
  BY Analysing DEF CallbackTypes
<1>2. CASE cb \notin {"cb_br_rx", "cb_rx", "cb_btle"}
  BY <1>1, <1>2 DEF Signalled
<1>3. CASE cb \in {"cb_br_rx", "cb_rx", "cb_btle"}
  <2>1. rx = IF cb = "cb_rx" THEN C!ringbuffer_bottom_usb ELSE C!ringbuffer_top_usb
    BY Analysing
  <2>2. \/ UNCHANGED <<report, log, rssi_history>>
        \/ log' = Append(log, rx) /\ (UNCHANGED report \/ Fresh)
    <3> HIDE DEF rx
    <3>1. C!cb_br_rx => log' = Append(log, rx) /\ (UNCHANGED report \/ Fresh)
      BY <2>1 DEF C!cb_br_rx, C!Timed, C!Analysed, C!Report, C!determine_signal_and_noise
    <3>2. C!cb_rx => log' = Append(log, rx) /\ (UNCHANGED report \/ Fresh)
      BY <2>1 DEF C!cb_rx, C!Timed, C!Analysed, C!Report, C!determine_signal_and_noise
    <3>3. C!cb_btle => \/ UNCHANGED <<report, log, rssi_history>>
                       \/ log' = Append(log, rx) /\ Fresh
      BY <2>1 DEF C!cb_btle, C!Analysed, C!Report, C!determine_signal_and_noise
    <3>4. C!Ignored => UNCHANGED <<report, log, rssi_history>>
      BY DEF C!Ignored
    <3> HIDE DEF Fresh
    <3> QED BY <3>1, <3>2, <3>3, <3>4, <1>3, Effects
  <2>3. CASE UNCHANGED <<report, log, rssi_history>>
    BY <2>3, <1>1 DEF Signalled
  <2>4. CASE log' = Append(log, rx) /\ UNCHANGED report
    <3>1. log' # <<>> /\ log'[Len(log')] = rx
      <4>1. log \in Seq(Received)
        BY DEF CallbackTypes
      <4> HIDE DEF rx
      <4> QED BY <4>1, <1>1, <2>4
    <3>2. report'.of = rx => ~(report'.of.n > 0)
      <4>1. report.of.n <= Turn(heard) /\ Turn(heard) \in Nat /\ (rx.n > 0 => Turn(heard) < rx.n)
        BY <1>1, TurnsGrow DEF Logged
      <4>2. rx.n \in Nat /\ report.of.n \in Nat
        BY <1>1 DEF Received, CallbackTypes
      <4> HIDE DEF rx
      <4> QED BY <4>1, <4>2, <2>4
    <3> HIDE DEF rx
    <3> QED BY <3>1, <3>2 DEF Signalled
  <2>5. CASE log' = Append(log, rx) /\ Fresh
    BY <2>5 DEF Signalled
  <2> QED BY <2>2, <2>3, <2>4, <2>5
<1> QED BY <1>2, <1>3

(* The module of the callbacks counts as this one does.                    *)
LEMMA SameCount == \A S : C!Cardinality(S) = Cardinality(S)
BY DEF Cardinality, C!Cardinality

LEMMA SignalIsTrue ==
  ASSUME C!CallbacksAssumption, CallbackTypes, Logged, Signalled, Remembered
  PROVE  C!SignalTrue
<1> DEFINE c == report.of.channel
           A == C!On(c)
           B(k) == Cardinality(C!After(c, k))
           h == rssi_history[c]
           m == NUM_BANKS
           n == Len(log)
<1> SUFFICES ASSUME cb \in {"cb_br_rx", "cb_rx", "cb_btle"}, log # <<>>, report.of = log[n], Cardinality(A) >= m
             PROVE  report.signal = C!Max({log[k].rssi_max : k \in {k \in A : B(k) < m}})
  BY SameCount DEF C!SignalTrue
<1>1. c \in Channels /\ m \in Nat \ {0} /\ C!Bank = 0 .. m - 1 /\ h \in [1 .. m -> Int]
  BY ClockFacts DEF CallbackTypes, Received
<1>2. A \subseteq 1 .. n /\ Cardinality(A) \in Nat /\ Cardinality(A) <= n /\ \A k \in A : B(k) \in Nat
  BY <1>1, Counted
<1>3. n \in Nat /\ n > 0 /\ n \in DOMAIN log
  BY DEF CallbackTypes
<1>4. report.of.n > 0
  <2>1. cb = "cb_rx" => log[n].n >= Turn(n)
    BY <1>3 DEF Logged
  <2>2. cb = "cb_rx" => Turn(n) > 0 /\ Turn(n) \in Nat
    <3> HIDE DEF n, A
    <3> QED BY <1>1, <1>2, <1>3 DEF Turn
  <2>4. log[n].n \in Nat
    BY <1>3 DEF CallbackTypes, Received
  <2>3. cb # "cb_rx" => log[n].n > 0
    BY <1>3 DEF Logged
  <2> HIDE DEF n
  <2> QED BY <2>1, <2>2, <2>3, <2>4
<1>5. report.signal = C!Max(C!ToSet(h))
  BY <1>4 DEF Signalled
<1>6. /\ \A k \in A : B(k) < m => h[m - B(k)] = log[k].rssi_max
      /\ \A r \in C!Bank : r < Cardinality(A) => \E k \in A : B(k) = r
  BY <1>1 DEF Remembered
<1>7. C!ToSet(h) = {h[e] : e \in 1 .. m}
  BY <1>1 DEF C!ToSet
<1> HIDE DEF c, A, B, h, m, n
<1>8. ASSUME NEW e \in 1 .. m PROVE \E k \in A : B(k) < m /\ h[e] = log[k].rssi_max
  <2>1. m - e \in C!Bank /\ m - e < Cardinality(A) /\ m - e < m /\ m - (m - e) = e
    BY <1>1, <1>2
  <2>2. PICK k \in A : B(k) = m - e
    BY <2>1, <1>6
  <2> QED BY <2>1, <2>2, <1>6
<1>9. ASSUME NEW k \in A, B(k) < m PROVE \E e \in 1 .. m : log[k].rssi_max = h[e]
  <2>1. m - B(k) \in 1 .. m
    BY <1>1, <1>2, <1>9
  <2> QED BY <2>1, <1>6, <1>9
<1>10. {h[e] : e \in 1 .. m} = {log[k].rssi_max : k \in {k \in A : B(k) < m}}
  BY <1>8, <1>9
<1> QED BY <1>5, <1>7, <1>10

LEMMA CallbackStep ==
  ASSUME C!CallbacksAssumption, CallbackInv, C!Next
  PROVE  CallbackInv'
<1>1. CallbackTypes /\ Ring /\ Logged /\ Timing /\ Differing /\ Signalled /\ Remembered /\ Mapped
      /\ C!TimeTrue /\ C!DifferenceTrue /\ C!Tuned /\ C!MapsTrue
  BY DEF CallbackInv
<1>2. Ring'
  <2>1. PICK p \in Received, gap \in 1 .. Wrap - 1 : Comes(p, gap)
    BY <1>1, PacketComes
  <2> QED BY <2>1, <1>1, RingKept, TrimmedOnce
<1>3. CallbackTypes'
  BY <1>1, <1>2, CallbackTypesKept
<1>4. Logged'
  BY <1>1, <1>2, LoggedKept
<1>5. Timing'
  BY <1>1, <1>2, <1>3, TimingKept
<1>6. C!TimeTrue'
  BY <1>1, <1>2, <1>3, <1>4, <1>5, TimeTrueKept
<1>7. Differing' /\ C!DifferenceTrue'
  BY <1>1, <1>2, <1>3, <1>4, DifferingKept
<1>8. Signalled' /\ Remembered'
  BY <1>1, <1>2, SignalledKept, RememberedKept
<1>9. C!Tuned'
  BY <1>1, <1>2, <1>3, <1>5, TunedKept
<1>10. Mapped' /\ C!MapsTrue'
  BY <1>1, <1>2, MapsKept
<1> QED BY <1>2, <1>3, <1>4, <1>5, <1>6, <1>7, <1>8, <1>9, <1>10 DEF CallbackInv

LEMMA ReportsFollow ==
  ASSUME C!CallbacksAssumption, CallbackInv
  PROVE  C!ReportsRight
<1>1. C!RingInOrder
  BY DEF CallbackInv, Ring, C!RingInOrder, Held
<1>2. C!SignalTrue
  BY SignalIsTrue DEF CallbackInv
<1> QED BY <1>1, <1>2 DEF CallbackInv, C!ReportsRight

LEMMA CallbackInit ==
  ASSUME C!CallbacksAssumption, C!Init
  PROVE  CallbackInv
<1>1. NUM_BANKS \in Nat \ {0} /\ Wrap \in Nat \ {0} /\ Slot \in Nat \ {0} /\ 0 \in Channels /\ 0 \in C!Bank
      /\ C!Bank = 0 .. NUM_BANKS - 1 /\ 0 \in 0 .. Wrap - 1 /\ Channels \subseteq Nat
  BY ClockFacts
<1>2. C!Zero \in Received /\ C!Junk \in Received
  BY <1>1 DEF C!Zero, C!Junk, Received
<1>3. /\ infile \in BOOLEAN /\ calibrated = FALSE
      /\ time = 0 /\ clk \in 0 .. Wrap - 1 /\ heard = 0
  BY DEF C!Init, C!CallbacksAssumption
<1>4. current_bank \in C!Bank /\ usb \in [C!Bank -> Received] /\ DOMAIN bt = C!Bank /\ \A b \in C!Bank : usb[b].n = 0
  <2>1. usb = [b \in C!Bank |-> C!Zero] \/ usb = [b \in C!Bank |-> C!Junk]
    BY DEF C!Init
  <2>2. bt = [b \in C!Bank |-> 0] /\ current_bank = 0
    BY DEF C!Init
  <2> QED BY <2>1, <2>2, <1>1, <1>2 DEF C!Zero, C!Junk
<1>5. /\ start_clk100ns = 0 /\ last_clk100ns = 0 /\ clk100ns_upper = 0 /\ abs_start_ns = 0 /\ started = C!Zero
      /\ prev_ts = 0 /\ trimmed = 0 /\ tuned = CLK_TUNE_TIME /\ counter = 0 /\ log = <<>> /\ report.of = C!Zero
      /\ afh_device = {}
  BY DEF C!Init
<1>6. rssi_history \in [Channels -> [1 .. NUM_BANKS -> Int]] /\ last_seen = [c \in Channels |-> 0]
  BY DEF C!Init
<1>7. afh_map \subseteq Channels /\ (cb = "cb_afh_initial" => afh_map = {})
  BY DEF C!Init
<1>8. CLK_TUNE_TIME \in 0 .. Slot - 1
  BY DEF C!CallbacksAssumption
<1>9. CallbackTypes
  <2>1. 0 \in Nat /\ 0 \in Int /\ CLK_TUNE_TIME \in Int /\ last_seen \in [Channels -> Nat] /\ log \in Seq(Received)
    BY <1>5, <1>6, <1>8
  <2> QED BY <2>1, <1>1, <1>2, <1>3, <1>4, <1>5, <1>6, <1>7 DEF CallbackTypes
<1>10. C!Zero.n = 0
  BY DEF C!Zero
<1>11. Ring
  <2>1. \A k \in C!Bank : C!Index(current_bank, k) \in C!Bank
    <3>1. current_bank \in 0 .. NUM_BANKS - 1
      BY <1>1, <1>4
    <3>2. \A k \in C!Bank : current_bank + 1 + k \in Nat
      BY <1>1, <3>1
    <3> QED BY <3>2, <1>1, ModRange DEF C!Index
  <2>2. \A k \in C!Bank : Held(k).n = 0
    BY <2>1, <1>4 DEF Held
  <2>3. \A k \in C!Bank : ~(heard - (NUM_BANKS - 1 - k) > 0)
    BY <1>1, <1>3
  <2>4. ~(heard > 0) /\ \A k \in C!Bank : ~(Held(k).n > 0)
    BY <2>2, <1>3
  <2> QED BY <2>2, <2>3, <2>4 DEF Ring
<1>12. Logged
  <2>1. Turn(heard) = 0
    BY <1>1, <1>3 DEF Turn
  <2> QED BY <2>1, <1>3, <1>5, <1>10 DEF Logged
<1>13. Timing
  BY <1>3, <1>5, <1>10 DEF Timing
<1>14. Differing /\ Signalled
  BY <1>5 DEF Differing, Signalled
<1>15. Remembered
  <2>1. DOMAIN log = {}
    BY <1>5
  <2>2. \A c : C!On(c) = {}
    BY <2>1 DEF C!On
  <2>3. \A c : Cardinality(C!On(c)) = 0
    BY <2>2, FS_EmptySet
  <2>4. \A r \in C!Bank : ~(r < 0)
    BY <1>1
  <2> QED BY <2>2, <2>3, <2>4 DEF Remembered
<1>16. Mapped
  <2>1. DOMAIN log = {} /\ Len(log) = 0
    BY <1>5
  <2> QED BY <2>1, <1>5, <1>6 DEF Mapped
<1>17. C!TimeTrue /\ C!DifferenceTrue
  <2>1. Len(log) = 0
    BY <1>5
  <2> QED BY <2>1, <1>5, <1>10 DEF C!TimeTrue, C!DifferenceTrue
<1>18. C!Tuned
  <2>1. CLK_TUNE_TIME - 0 = CLK_TUNE_TIME
    BY <1>8
  <2>2. CLK_TUNE_TIME % Slot = CLK_TUNE_TIME
    BY <1>1, <1>8, ModOfSmall
  <2> QED BY <2>1, <2>2, <1>5 DEF C!Tuned
<1>19. C!MapsTrue
  <2>1. \A c \in Channels : c - 1 \in Channels \/ c + 1 \in Channels
    BY DEF C!CallbacksAssumption
  <2>2. \A c \in Channels : ~C!seen({}, c - 1) \/ ~C!seen({}, c + 1)
    BY <2>1 DEF C!seen
  <2>3. ~(Len(log) >= packet_counter_max)
    BY <1>5 DEF C!CallbacksAssumption
  <2> QED BY <2>2, <2>3, <1>5, <1>7 DEF C!MapsTrue
<1> QED BY <1>9, <1>11, <1>12, <1>13, <1>14, <1>15, <1>16, <1>17, <1>18, <1>19 DEF CallbackInv

LEMMA CallbackStays == ASSUME UNCHANGED C!vars PROVE CallbackInv => CallbackInv'
<1>1. /\ cb' = cb /\ infile' = infile /\ time' = time /\ clk' = clk /\ current_bank' = current_bank
      /\ usb' = usb /\ bt' = bt /\ start_clk100ns' = start_clk100ns /\ last_clk100ns' = last_clk100ns
      /\ clk100ns_upper' = clk100ns_upper /\ abs_start_ns' = abs_start_ns /\ rssi_history' = rssi_history
      /\ prev_ts' = prev_ts /\ calibrated' = calibrated /\ afh_map' = afh_map /\ last_seen' = last_seen
      /\ counter' = counter /\ afh_device' = afh_device /\ report' = report /\ started' = started
      /\ trimmed' = trimmed /\ tuned' = tuned /\ heard' = heard /\ log' = log
  BY DEF C!vars
<1>2. CallbackTypes => CallbackTypes'
  BY <1>1 DEF CallbackTypes, C!Bank, Received
<1>3. \A k : Held(k)' = Held(k)
  BY <1>1 DEF Held, C!Index
<1>4. \A n : Turn(n)' = Turn(n)
  BY <1>1 DEF Turn
<1>5. Ring => Ring'
  BY <1>1, <1>3 DEF Ring, C!Index, C!Bank, Follows
<1>6. Logged => Logged'
  BY <1>1, <1>4 DEF Logged
<1>7. Timing => Timing'
  <2>1. Tracked' = Tracked
    BY <1>1, <1>3 DEF Tracked
  <2> QED BY <2>1, <1>1 DEF Timing, InPhase
<1>8. Differing /\ C!DifferenceTrue => Differing' /\ C!DifferenceTrue'
  BY <1>1 DEF Differing, C!DifferenceTrue
<1>9. Signalled /\ C!TimeTrue /\ C!Tuned => Signalled' /\ C!TimeTrue' /\ C!Tuned'
  BY <1>1 DEF Signalled, C!TimeTrue, C!Tuned
<1>10. Remembered => Remembered'
  <2>1. \A c : C!On(c)' = C!On(c)
    BY <1>1 DEF C!On
  <2>2. \A c, k : C!After(c, k)' = C!After(c, k)
    BY <2>1 DEF C!After
  <2>3. /\ \A c : Cardinality(C!On(c))' = Cardinality(C!On(c))
        /\ \A c, k : Cardinality(C!After(c, k))' = Cardinality(C!After(c, k))
    BY <2>1, <2>2
  <2>4. C!Bank' = C!Bank
    BY DEF C!Bank
  <2> QED BY <2>1, <2>3, <2>4, <1>1 DEF Remembered
<1>11. Mapped /\ C!MapsTrue => Mapped' /\ C!MapsTrue'
  BY <1>1 DEF Mapped, C!MapsTrue, C!LastOf, C!seen
<1> QED BY <1>2, <1>5, <1>6, <1>7, <1>8, <1>9, <1>10, <1>11 DEF CallbackInv

-----------------------------------------------------------------------------
(* Whatever program it is, it keeps its own invariant.                     *)
HostInv ==
  /\ who = "tool" => ToolInv
  /\ who = "callback" => CallbackInv
  /\ who = "kismet" => KismetInv

LEMMA HostInit == Init => HostInv
BY ToolInit, CallbackInit, KismetInit, HostAssumption DEF Init, HostInv

LEMMA HostStep == ASSUME HostInv, [Next]_vars PROVE HostInv'
<1>1. CASE UNCHANGED vars
  <2>1. who' = who /\ UNCHANGED T!vars /\ UNCHANGED K!vars
    BY <1>1 DEF vars, tools, kismet, T!vars, K!vars
  <2>2. UNCHANGED C!vars
    BY <1>1 DEF vars, callbacks, C!vars
  <2>3. CallbackInv => CallbackInv'
    BY <2>2, CallbackStays
  <2> QED BY <2>1, <2>3, ToolStep, KismetStep DEF HostInv
<1>2. CASE Tool /\ T!Next
  <2>1. who = "tool" /\ who' = who
    BY <1>2 DEF Tool, Of
  <2> QED BY <1>2, <2>1, ToolStep DEF HostInv
<1>3. CASE Callback /\ C!Next
  <2>1. who = "callback" /\ who' = who
    BY <1>3 DEF Callback, Of
  <2>2. CallbackInv'
    BY <1>3, <2>1, CallbackStep, HostAssumption DEF HostInv
  <2> QED BY <2>1, <2>2 DEF HostInv
<1>4. CASE Kismet /\ K!Next
  <2>1. who = "kismet" /\ who' = who
    BY <1>4 DEF Kismet, Of
  <2> QED BY <1>4, <2>1, KismetStep DEF HostInv
<1> QED BY <1>1, <1>2, <1>3, <1>4 DEF Next

LEMMA HostSafe == HostInv => PacketsKept /\ HandleHeld /\ ReportsRight
<1>1. ToolInv => T!ReceivesInOrder /\ T!HandleHeld
  BY InOrderSafe, ToolHandleHeld DEF ToolInv
<1>2. KismetInv => K!WakesUp /\ K!NetsTold
  BY KismetSafe
<1>3. CallbackInv => C!ReportsRight
  BY ReportsFollow, HostAssumption
<1> QED BY <1>1, <1>2, <1>3 DEF HostInv, PacketsKept, HandleHeld, ReportsRight

THEOREM HostAlways == Spec => []HostInv
<1>1. HostInv /\ [Next]_vars => HostInv'
  BY HostStep
<1> QED BY HostInit, <1>1, PTL DEF Spec

(* A tool's callbacks get each block that the device sends once, whole and *)
(* in its order, whatever is handled meanwhile; and Kismet's main loop     *)
(* tracks the packets that its thread queued, each in the network that it  *)
(* belongs to, for any tool whose calls are Orderly and any piconets       *)
(* (ubertooth_bulk_receive(), cb_xfer(), PacketSource_Ubertooth::Poll())   *)
THEOREM PacketsAreKept == Spec => []PacketsKept
<1>1. HostInv => PacketsKept
  BY HostSafe
<1> QED BY HostAlways, <1>1, PTL

(* No tool that looks whether it has its device uses one that it does not  *)
(* have, and a device that is closed has no transfer and sends no more,    *)
(* but for the race with a transfer that times out (ubertooth_stop(),      *)
(* cleanup())                                                              *)
THEOREM HandleIsHeld == Spec => []HandleHeld
<1>1. HostInv => HandleHeld
  BY HostSafe
<1> QED BY HostAlways, <1>1, PTL

(* What the callbacks tell of packets is true, for rings, channels and     *)
(* clocks of any size, whatever packets they pass over: the order of the   *)
(* banks, the time until the clock begins again, the difference to the     *)
(* packet before, also across that, the highest level of the channel's     *)
(* last packets, the trim that puts access codes where they are wanted,    *)
(* and the channel maps (ubertooth_callback.c, ubertooth_ringbuffer.c)     *)
THEOREM ReportsAreRight == Spec => []ReportsRight
<1>1. HostInv => ReportsRight
  BY HostSafe
<1> QED BY HostAlways, <1>1, PTL
=============================================================================
