--------------------------- MODULE UsbQueueProofs ---------------------------
EXTENDS UsbQueue, ModFacts, SequenceTheorems

LEMMA MaskInSlot == \A c \in Nat : Mask(c) \in Slot
  BY SizeAssumption, ModRange DEF Mask, Slot

LEMMA MaskOfSlot == \A s \in Slot : Mask(s) = s
<1> SUFFICES ASSUME NEW s \in Slot PROVE Mask(s) = s
  OBVIOUS
<1>1. ((0 * Size) + s) % Size = s
  BY SizeAssumption, ModUnique DEF Slot
<1> QED BY <1>1, SizeAssumption DEF Mask, Slot

LEMMA ModulusPositive == Modulus \in Nat \ {0}
  BY SizeAssumption DEF Modulus

LEMMA CounterStep ==
  ASSUME NEW c \in Counter
  PROVE  (c + 1) % Modulus \in Counter /\ Mask((c + 1) % Modulus) = Succ(Mask(c))
<1> c \in Nat
  BY ModulusPositive DEF Counter
<1>1. (c + 1) % Modulus \in Counter
  BY ModulusPositive, ModRange DEF Counter
<1>2. Mask(c + 1) = Succ(Mask(c))
  <2>1. (c + 1) % Size = IF c % Size = Size - 1 THEN 0 ELSE (c % Size) + 1
    <3>1. Size \in Nat \ {0} /\ c \in Nat
      BY SizeAssumption
    <3> QED BY ONLY <3>1, ModSucc
  <2> QED BY <2>1 DEF Mask, Succ
<1>3. CASE c + 1 < Modulus
  <2>1. ((0 * Modulus) + (c + 1)) % Modulus = c + 1
    BY <1>3, ModulusPositive, ModUnique
  <2> QED BY <2>1, <1>1, <1>2, ModulusPositive
<1>4. CASE c + 1 = Modulus
  <2>1. ((1 * Modulus) + 0) % Modulus = 0
    BY ModulusPositive, ModUnique
  <2>2. (c + 1) % Modulus = 0
    BY <2>1, <1>4, ModulusPositive
  <2>3. ((Laps * Size) + 0) % Size = 0
    BY SizeAssumption, ModUnique
  <2>4. Mask(c + 1) = 0
    BY <2>3, <1>4, SizeAssumption DEF Mask, Modulus
  <2>5. Mask(0) = 0
    BY MaskOfSlot, SizeAssumption DEF Slot
  <2> QED BY <1>1, <1>2, <2>2, <2>4, <2>5
<1> QED BY <1>3, <1>4, ModulusPositive DEF Counter

LEMMA SuccMod == \A s \in Slot : (s + 1) % Size = Succ(s)
<1> SUFFICES ASSUME NEW s \in Slot PROVE (s + 1) % Size = Succ(s)
  OBVIOUS
<1>1. s \in Nat /\ Size \in Nat \ {0}
  BY SizeAssumption DEF Slot
<1>2. (s + 1) % Size = IF s % Size = Size - 1 THEN 0 ELSE (s % Size) + 1
  BY <1>1, ModSucc
<1> QED BY <1>2, MaskOfSlot DEF Mask, Succ

-----------------------------------------------------------------------------
(* Type correctness: the counters stay within their widths and no write    *)
(* goes to a full endpoint, in either way of serving USB.                  *)

LEMMA ZeroedIsPacket == Zeroed \in Packets
  BY DEF Zeroed, Packet, Packets

LEMMA ResetType ==
  ASSUME queue_init
  PROVE  head' \in Counter /\ tail' \in Counter /\ fifo' \in [Slot -> Packets]
<1>1. 0 \in Counter
  BY ModulusPositive DEF Counter
<1> QED BY <1>1, ZeroedIsPacket DEF queue_init

LEMMA DequeueType ==
  ASSUME TypeOK, Dequeue
  PROVE  out' \in Packets /\ head' \in Counter
<1>1. head \in Counter /\ head \in Nat /\ fifo \in [Slot -> Packets]
  BY ModulusPositive DEF TypeOK, Counter
<1>2. Mask(head) \in Slot
  BY <1>1, MaskInSlot
<1> QED BY <1>1, <1>2, CounterStep DEF Dequeue

LEMMA ClockStep == \A c \in Nat : c % ClkModulus \in Clock
<1>1. ClkModulus \in Nat \ {0}
  BY ClockAssumption
<1> QED BY <1>1, ModRange DEF Clock

LEMMA TypeInit == Init => TypeOK
<1> SUFFICES ASSUME Init PROVE TypeOK
  OBVIOUS
<1>1. 0 \in Counter /\ 0 \in Slot /\ 0 \in Clock /\ 0 \in 0 .. MaxFrames
  BY ModulusPositive, SizeAssumption, ClockAssumption, BoundAssumption DEF Counter, Slot, Clock
<1>2. fifo \in [Slot -> Packets] /\ out \in Packets
  BY ZeroedIsPacket DEF Init
<1>3. room \in 0 .. 2 /\ epFull \in 0 .. 2 /\ (pc = "usb" => room + epFull <= 2)
  BY DEF Init
<1> QED BY <1>1, <1>2, <1>3, Zenon DEF Init, TypeOK

LEMMA TypeStep == TypeOK /\ [Next]_vars => TypeOK'
<1> SUFFICES ASSUME TypeOK, [Next]_vars PROVE TypeOK'
  OBVIOUS
<1> USE DEF counters, locals, usb, clock
<1>0. /\ head \in Nat /\ tail \in Nat
      /\ Mask(head) \in Slot /\ Mask(tail) \in Slot
  BY ModulusPositive, MaskInSlot DEF TypeOK, Counter
<1>done. Done \in {"idle", "serve"}
  BY DEF Done
<1>1. CASE ReadHead
  <2>1. frame + 1 \in 0 .. MaxFrames
    BY <1>1, BoundAssumption DEF ReadHead, TypeOK
  <2> QED BY <1>0, <1>1, <2>1 DEF ReadHead, TypeOK
<1>2. CASE EnqueueFull
  BY <1>2, <1>done DEF EnqueueFull, TypeOK
<1>3. CASE EnqueueFree
  BY <1>0, <1>3 DEF EnqueueFree, TypeOK
<1>4. CASE LoadTail
  BY <1>4 DEF LoadTail, TypeOK
<1>5. CASE StoreTail
  <2>1. tail' \in Counter
    BY <1>5, CounterStep DEF StoreTail, TypeOK
  <2> QED BY <1>5, <2>1 DEF StoreTail, TypeOK
<1>6. CASE Fill
  <2>1. fifo' \in [Slot -> Packets]
    BY <1>6, BoundAssumption DEF Fill, TypeOK, Packets
  <2> QED BY <1>6, <2>1 DEF Fill, TypeOK
<1>7. CASE Stamp
  <2>1. fifo' \in [Slot -> Packets]
    <3>1. /\ fifo \in [Slot -> Packets] /\ claim \in Slot
          /\ frame \in Nat /\ overflow \in BOOLEAN
      BY BoundAssumption DEF TypeOK
    <3>2. [fifo[claim] EXCEPT !.stamp = frame, !.overflow = overflow] \in Packets
      BY <3>1 DEF Packets
    <3>3. fifo' = [fifo EXCEPT ![claim] =
                     [fifo[claim] EXCEPT !.stamp = frame, !.overflow = overflow]]
      BY <1>7, <3>1 DEF Stamp, Packets
    <3> QED BY <3>1, <3>2, <3>3
  <2> QED BY <1>7, <1>done, <2>1 DEF Stamp, TypeOK
<1>8. CASE HandleUsb
  <2>1. room' \in 0 .. 2 /\ epFull' \in 0 .. 2 /\ (pc' = "usb" => room' + epFull' <= 2)
    BY <1>8 DEF HandleUsb, TypeOK
  <2> QED BY <1>8, <2>1, Zenon DEF HandleUsb, TypeOK
<1>9. CASE DequeueSend
  <2>1. out' \in Packets /\ head' \in Counter
    BY <1>9, DequeueType DEF DequeueSend
  <2> QED BY <1>9, <2>1 DEF DequeueSend, TypeOK
<1>10. CASE SendKeepAlive
  BY <1>10 DEF SendKeepAlive, TypeOK
<1>11. CASE SendNothing
  BY <1>11 DEF SendNothing, TypeOK
<1>12. CASE PolledIsr
  <2>1. head' \in Counter /\ tail' \in Counter /\ fifo' \in [Slot -> Packets]
    BY <1>12, ResetType DEF PolledIsr, TypeOK
  <2> QED BY <1>12, <2>1 DEF PolledIsr, TypeOK
<1>13. CASE PollIsr
  <2>1. out' \in Packets /\ head' \in Counter
    BY <1>13, DequeueType DEF PollIsr
  <2> QED BY <1>13, <2>1 DEF PollIsr, TypeOK
<1>14. CASE ResetIsr
  <2>1. head' \in Counter /\ tail' \in Counter /\ fifo' \in [Slot -> Packets]
    BY <1>14, ResetType DEF ResetIsr
  <2> QED BY <1>14, <2>1 DEF ResetIsr, TypeOK
<1>15. CASE Tick
  <2>1. (clkn + 1) % ClkModulus \in Clock
    BY ClockStep, ClockAssumption DEF TypeOK, Clock
  <2> QED BY <1>15, <2>1 DEF Tick, TypeOK
<1>16. CASE HostRead
  BY <1>16 DEF HostRead, TypeOK
<1>17. CASE UNCHANGED vars
  BY <1>17 DEF vars, TypeOK
<1> QED
  BY <1>1, <1>2, <1>3, <1>4, <1>5, <1>6, <1>7, <1>8, <1>9, <1>10, <1>11, <1>12,
     <1>13, <1>14, <1>15, <1>16, <1>17 DEF Next, Main, Enqueue, ServeUsb

(* The types of TypeOK hold in every reachable state, with or without USB  *)
(* interrupts and host resets.                                             *)
THEOREM TypeCorrect == Spec => []TypeOK
<1>1. Init => TypeOK
  BY TypeInit
<1>2. TypeOK /\ [Next]_vars => TypeOK'
  BY TypeStep
<1> QED BY <1>1, <1>2, PTL DEF Spec

-----------------------------------------------------------------------------
(* Distances around the ring.                                              *)

LEMMA SuccSlot == \A s \in Slot : Succ(s) \in Slot
  BY SizeAssumption DEF Succ, Slot

LEMMA CycRange == \A a, b \in Slot : Cyc(a, b) \in 0 .. Size - 1
  BY SizeAssumption DEF Cyc, Slot

LEMMA CycSelf == \A a \in Slot : Cyc(a, a) = 0
  BY DEF Cyc, Slot

LEMMA CycInjective == \A a, b, c \in Slot : Cyc(a, b) = Cyc(a, c) => b = c
  BY SizeAssumption DEF Cyc, Slot

LEMMA CycNextFrom ==
  \A a, b \in Slot : a # b => Cyc(Succ(a), b) = Cyc(a, b) - 1
  BY SizeAssumption DEF Cyc, Succ, Slot

LEMMA CycNextTo ==
  \A a, b \in Slot : Cyc(a, b) < Size - 1 => Cyc(a, Succ(b)) = Cyc(a, b) + 1
  BY SizeAssumption DEF Cyc, Succ, Slot

LEMMA CycNotFull ==
  \A a, b \in Slot : Succ(b) # a => Cyc(a, b) < Size - 1
  BY SizeAssumption DEF Cyc, Succ, Slot

(* What a step does to the set of published slots. *)
LEMMA QueuedAfterStore ==
  ASSUME TypeOK, Used < Size - 1, StoreTail, reg = tail
  PROVE  /\ Used' = Used + 1
         /\ Queued' = Queued \cup {Mask(tail)}
         /\ Mask(tail)' = Succ(Mask(tail))
<1>1. /\ Mask(head) \in Slot /\ Mask(tail) \in Slot
      /\ head' = head /\ Mask(tail') = Succ(Mask(tail))
  BY MaskInSlot, CounterStep, ModulusPositive DEF StoreTail, TypeOK, Counter, counters
<1> DEFINE hd == Mask(head)
           tl == Mask(tail)
<1>2. Used = Cyc(hd, tl) /\ Used' = Cyc(hd, Succ(tl))
  BY <1>1 DEF Used
<1>3. Queued = {s \in Slot : Cyc(hd, s) < Used}
      /\ Queued' = {s \in Slot : Cyc(hd, s) < Used'}
  BY <1>1 DEF Queued
<1>4. hd \in Slot /\ tl \in Slot
  BY <1>1
<1> HIDE DEF hd, tl
<1>5. Used' = Used + 1
  BY <1>2, <1>4, CycNextTo
<1>6. \A s \in Slot : Cyc(hd, s) < Used + 1 <=> Cyc(hd, s) < Used \/ s = tl
  BY <1>2, <1>4, CycRange, CycInjective, SizeAssumption
<1>7. Queued' = Queued \cup {tl}
  BY <1>3, <1>4, <1>5, <1>6
<1> QED BY <1>1, <1>5, <1>7 DEF tl

LEMMA QueuedAfterDequeue ==
  ASSUME TypeOK, Dequeue, ~QueueEmpty, tail' = tail
  PROVE  /\ Used' = Used - 1
         /\ Mask(head) \in Queued
         /\ Queued' = Queued \ {Mask(head)}
         /\ \A s \in Queued' : Cyc(Mask(head)', s) = Cyc(Mask(head), s) - 1
<1>1. /\ Mask(head) \in Slot /\ Mask(tail) \in Slot
      /\ Mask(tail') = Mask(tail) /\ Mask(head') = Succ(Mask(head))
  BY MaskInSlot, CounterStep, ModulusPositive DEF Dequeue, TypeOK, Counter
<1> DEFINE hd == Mask(head)
           tl == Mask(tail)
<1>2. Used = Cyc(hd, tl) /\ Used' = Cyc(Succ(hd), tl)
  BY <1>1 DEF Used
<1>3. Queued = {s \in Slot : Cyc(hd, s) < Used}
      /\ Queued' = {s \in Slot : Cyc(Succ(hd), s) < Used'}
  BY <1>1 DEF Queued
<1>4. hd \in Slot /\ tl \in Slot /\ Succ(hd) \in Slot /\ hd # tl
  BY <1>1, SuccSlot DEF QueueEmpty
<1>m. Mask(head)' = Succ(hd)
  BY <1>1
<1> HIDE DEF hd, tl
<1>5. Used' = Used - 1 /\ Used \in 1 .. Size - 1
  BY <1>2, <1>4, CycNextFrom, CycRange, CycInjective, CycSelf, SizeAssumption
<1>6. Cyc(Succ(hd), hd) = Size - 1
  BY <1>4, SizeAssumption DEF Cyc, Succ, Slot
<1>7. \A s \in Slot : s # hd => Cyc(Succ(hd), s) = Cyc(hd, s) - 1
  BY <1>4, CycNextFrom
<1>8. \A s \in Slot : Cyc(Succ(hd), s) < Used - 1 <=> Cyc(hd, s) < Used /\ s # hd
  BY <1>4, <1>5, <1>6, <1>7, CycRange, SizeAssumption
<1>9. Queued' = Queued \ {hd}
  BY <1>3, <1>5, <1>8
<1>10. hd \in Queued
  BY <1>3, <1>4, <1>5, CycSelf
<1>11. \A s \in Queued' : Cyc(Succ(hd), s) = Cyc(hd, s) - 1
  BY <1>3, <1>7, <1>9
<1> QED BY <1>m, <1>5, <1>9, <1>10, <1>11 DEF hd

-----------------------------------------------------------------------------
(* The inductive invariant.                                                *)

ContentInv == AllWhole /\ InOrder /\ NewestInHand

(* A step that leaves the queue and the producer's claim alone. *)
LEMMA ContentKept ==
  ASSUME ContentInv, Queued' = Queued, Mask(head)' = Mask(head), fifo' = fifo,
         frame' = frame, Filling' <=> Filling, Filling => claim' = claim,
         Enqueueing' => Enqueueing
  PROVE  ContentInv' /\ Complete' = Complete
<1>1. Complete' = Complete
  BY DEF Complete
<1>2. AllWhole'
  BY <1>1 DEF ContentInv, AllWhole, Whole
<1>3. InOrder'
  BY <1>1 DEF ContentInv, InOrder
<1>4. NewestInHand'
  BY <1>1 DEF ContentInv, NewestInHand
<1> QED BY <1>1, <1>2, <1>3, <1>4 DEF ContentInv

(* Taking the oldest packet. *)
LEMMA ContentAfterDequeue ==
  ASSUME TypeOK, ContentInv, Dequeue, ~QueueEmpty, tail' = tail, fifo' = fifo,
         frame' = frame, claim' = claim, pc' = pc
  PROVE  ContentInv' /\ Complete' = Complete \ {Mask(head)}
<1>1. /\ Queued' = Queued \ {Mask(head)}
      /\ \A s \in Queued' : Cyc(Mask(head)', s) = Cyc(Mask(head), s) - 1
      /\ \A s \in Slot : Cyc(Mask(head), s) \in 0 .. Size - 1
  <2>1. Mask(head) \in Slot
    BY MaskInSlot, ModulusPositive DEF TypeOK, Counter
  <2> QED BY <2>1, QueuedAfterDequeue, CycRange, SizeAssumption
<1>2. Complete' = Complete \ {Mask(head)} /\ Complete' \subseteq Queued'
      /\ Queued' \subseteq Slot
  BY <1>1 DEF Complete, Filling, Queued
<1>3. AllWhole'
  BY <1>2 DEF ContentInv, AllWhole, Whole
<1>4. InOrder'
  <2>1. \A s \in Complete' : fifo[s].body <= frame
    BY <1>2 DEF ContentInv, InOrder
  <2>2. \A s, t \in Complete' :
          Cyc(Mask(head)', s) < Cyc(Mask(head)', t) => fifo[s].body < fifo[t].body
    BY <1>1, <1>2 DEF ContentInv, InOrder
  <2> QED BY <2>1, <2>2 DEF InOrder
<1>5. NewestInHand'
  BY <1>2 DEF ContentInv, NewestInHand, Enqueueing
<1> QED BY <1>2, <1>3, <1>4, <1>5 DEF ContentInv

(* An empty queue has nothing to get wrong. *)
LEMMA ContentAfterReset ==
  ASSUME queue_init PROVE ContentInv' /\ Queued' = {} /\ Used' = 0
<1>1. Mask(head)' = 0 /\ Mask(tail)' = 0
  BY MaskOfSlot, SizeAssumption DEF queue_init, Slot
<1>2. Used' = 0
  BY <1>1 DEF Used, Cyc
<1>3. Queued' = {}
  BY <1>1, <1>2, CycRange, SizeAssumption DEF Queued, Slot
<1> QED BY <1>2, <1>3 DEF ContentInv, AllWhole, InOrder, NewestInHand, Complete

(* A packet taken moves the masked head. *)
LEMMA HeadMoves == ASSUME TypeOK, Dequeue PROVE head' # head
<1>1. head \in Counter /\ Mask(head) \in Slot
  BY MaskInSlot, ModulusPositive DEF TypeOK, Counter
<1>2. Mask(head') = Succ(Mask(head))
  BY <1>1, CounterStep DEF Dequeue
<1>3. Succ(Mask(head)) # Mask(head)
  BY <1>1, SizeAssumption DEF Succ, Slot
<1> QED BY <1>2, <1>3

LEMMA QueueInit == Init => SoundInv
<1> SUFFICES ASSUME Init PROVE SoundInv
  OBVIOUS
<1>1. Mask(head) = 0 /\ Mask(tail) = 0
  BY MaskOfSlot, SizeAssumption DEF Init, Slot
<1>2. Used = 0
  BY <1>1 DEF Used, Cyc
<1>3. Queued = {}
  BY <1>1, <1>2, CycRange, SizeAssumption DEF Queued, Slot
<1>4. ProducerInv /\ FrameInHand
  BY DEF Init, ProducerInv, FrameInHand, Enqueueing, Filling
<1>5. AllWhole /\ InOrder /\ NewestInHand
  BY <1>3 DEF AllWhole, InOrder, NewestInHand, Complete
<1> QED BY <1>4, <1>5, TypeInit DEF SoundInv

(* The steps of enqueue(): each keeps the invariant and leaves every       *)
(* finished slot queued as it is.                                          *)
LEMMA EnqueueStep ==
  ASSUME SoundInv, Enqueue
  PROVE  /\ ProducerInv' /\ ContentInv'
         /\ \A s \in Complete : s \in Complete' /\ fifo'[s] = fifo[s]
<1> USE DEF counters, locals, usb, clock, Filling, Enqueueing
<1>0. /\ Mask(head) \in Slot /\ Mask(tail) \in Slot
      /\ head \in Nat /\ tail \in Nat
      /\ frame \in Nat /\ Used \in 0 .. Size - 1
  <2>1. head \in Nat /\ tail \in Nat /\ frame \in Nat
    BY ModulusPositive, BoundAssumption DEF SoundInv, TypeOK, Counter
  <2>2. Mask(head) \in Slot /\ Mask(tail) \in Slot
    BY <2>1, MaskInSlot
  <2>3. Used \in 0 .. Size - 1
    BY <2>2, CycRange DEF Used
  <2> QED BY <2>1, <2>2, <2>3
<1>c. ContentInv
  BY DEF SoundInv, ContentInv
<1>1. CASE ReadHead
  <2>1. Queued' = Queued /\ Used' = Used /\ Mask(head)' = Mask(head) /\ Complete' = Complete
    BY <1>1 DEF ReadHead, Queued, Used, Complete, Mask
  <2>2. ProducerInv'
    BY <1>0, <1>1, <2>1 DEF ReadHead, ProducerInv, Used
  <2>3. AllWhole'
    BY <1>1, <2>1 DEF ReadHead, SoundInv, AllWhole, Whole
  <2>4. \A s \in Complete : fifo[s].body \in Nat /\ fifo[s].body <= frame
    BY DEF SoundInv, TypeOK, Packets, InOrder, Complete, Queued
  <2>5. InOrder' /\ NewestInHand'
    BY <1>0, <1>1, <2>1, <2>4 DEF ReadHead, SoundInv, InOrder, NewestInHand
  <2> QED BY <1>1, <2>1, <2>2, <2>3, <2>5 DEF ReadHead, ContentInv
<1>2. CASE EnqueueFull
  <2>1. Queued' = Queued /\ Mask(head)' = Mask(head)
    BY <1>2 DEF EnqueueFull, Queued, Used, Mask
  <2>2. ContentInv' /\ Complete' = Complete
    BY <1>2, <1>c, <2>1, ContentKept DEF EnqueueFull, Done
  <2>3. ProducerInv'
    BY <1>2 DEF EnqueueFull, ProducerInv, Done
  <2> QED BY <1>2, <2>2, <2>3 DEF EnqueueFull
<1>3. CASE EnqueueFree
  <2>1. Queued' = Queued /\ Used' = Used /\ Mask(head)' = Mask(head) /\ Mask(tail)' = Mask(tail)
    BY <1>3 DEF EnqueueFree, Queued, Used, Mask
  <2>2. ContentInv' /\ Complete' = Complete
    BY <1>3, <1>c, <2>1, ContentKept DEF EnqueueFree
  <2>3. Succ(Mask(tail)) # h /\ h \in Slot /\ Used <= Cyc(h, Mask(tail))
    BY <1>0, <1>3, SuccMod DEF EnqueueFree, QueueFull, SoundInv, ProducerInv, TypeOK
  <2>4. Used < Size - 1
    BY <1>0, <2>3, CycNotFull, CycRange, SizeAssumption
  <2>5. ProducerInv'
    BY <1>3, <2>1, <2>4 DEF EnqueueFree, SoundInv, ProducerInv
  <2> QED BY <1>3, <2>2, <2>5 DEF EnqueueFree
<1>4. CASE LoadTail
  <2>1. Queued' = Queued /\ Used' = Used /\ Mask(head)' = Mask(head) /\ Mask(tail)' = Mask(tail)
    BY <1>4 DEF LoadTail, Queued, Used, Mask
  <2>2. ContentInv' /\ Complete' = Complete
    BY <1>4, <1>c, <2>1, ContentKept DEF LoadTail
  <2>3. ProducerInv'
    BY <1>4, <2>1 DEF LoadTail, SoundInv, ProducerInv
  <2> QED BY <1>4, <2>2, <2>3 DEF LoadTail
<1>5. CASE StoreTail
  <2>1. /\ Queued' = Queued \cup {Mask(tail)}
        /\ Mask(tail)' = Succ(Mask(tail))
        /\ claim = Mask(tail) /\ claim' = claim
    BY <1>5, QueuedAfterStore DEF StoreTail, SoundInv, ProducerInv
  <2>2. claim \notin Queued
    <3>1. ~(Cyc(Mask(head), Mask(tail)) < Used)
      BY <1>0 DEF Used
    <3> QED BY <2>1, <3>1 DEF Queued
  <2>3. Complete' = Complete
    BY <1>5, <2>1, <2>2 DEF StoreTail, Complete
  <2>4. Mask(head)' = Mask(head) /\ fifo' = fifo /\ frame' = frame
    BY <1>5 DEF StoreTail, Mask
  <2>5. ContentInv'
    BY <1>5, <1>c, <2>3, <2>4 DEF StoreTail, ContentInv, AllWhole, Whole, InOrder, NewestInHand
  <2>6. ProducerInv'
    BY <1>5, <2>1, <2>4 DEF StoreTail, SoundInv, ProducerInv
  <2> QED BY <2>3, <2>4, <2>5, <2>6
<1>6. CASE Fill
  <2>1. Queued' = Queued /\ Used' = Used /\ Mask(head)' = Mask(head) /\ Mask(tail)' = Mask(tail)
    BY <1>6 DEF Fill, Queued, Used, Mask
  <2>2. Complete' = Complete /\ frame' = frame /\ claim' = claim
    BY <1>6, <2>1 DEF Fill, Complete
  <2>3. \A s \in Complete : fifo'[s] = fifo[s]
    BY <1>6 DEF Fill, Complete, Queued, SoundInv, TypeOK
  <2>4. ContentInv'
    BY <1>6, <1>c, <2>1, <2>2, <2>3 DEF Fill, ContentInv, AllWhole, Whole, InOrder, NewestInHand
  <2>5. fifo'[claim].body = frame
    BY <1>6 DEF Fill, SoundInv, TypeOK, Packets
  <2>6. ProducerInv'
    BY <1>6, <2>1, <2>2, <2>5 DEF Fill, SoundInv, ProducerInv
  <2> QED BY <2>2, <2>3, <2>4, <2>6
<1>7. CASE Stamp
  <2>1. Queued' = Queued /\ Used' = Used /\ Mask(head)' = Mask(head) /\ Mask(tail)' = Mask(tail)
    BY <1>7 DEF Stamp, Queued, Used, Mask
  <2>2. /\ Complete \subseteq Complete'
        /\ Complete' \subseteq Complete \cup {claim}
        /\ frame' = frame /\ claim' = claim /\ pc' \in {"idle", "serve"}
    BY <1>7, <2>1 DEF Stamp, Complete, Done
  <2>3. \A s \in Complete : fifo'[s] = fifo[s] /\ s # claim
    BY <1>7 DEF Stamp, Complete, Queued, SoundInv, TypeOK
  <2>4. /\ fifo'[claim].stamp = frame /\ frame > 0
        /\ Used > 0 => fifo'[claim].body = frame
    BY <1>7 DEF Stamp, SoundInv, FrameInHand, ProducerInv, TypeOK, Packets
  <2>e. claim \in Queued => Used > 0
    BY <1>0, CycRange, SizeAssumption DEF Queued
  <2>f. Complete' \subseteq Queued
    BY <2>1 DEF Complete
  <2>5. AllWhole'
    BY <1>c, <2>2, <2>3, <2>4, <2>e, <2>f DEF ContentInv, AllWhole, Whole
  <2>6. \A s \in Complete : fifo[s].body < frame
    BY <1>7 DEF Stamp, SoundInv, NewestInHand
  <2>7. claim \in Queued => \A s \in Queued : ~(Cyc(Mask(head), claim) < Cyc(Mask(head), s))
    <3>1. claim \in Slot /\ (claim \in Queued => Mask(tail) = Succ(claim))
      BY <1>0, <1>7, <2>e DEF Stamp, SoundInv, ProducerInv, TypeOK
    <3>2. ASSUME claim \in Queued PROVE Used = Cyc(Mask(head), claim) + 1
      <4>1. Cyc(Mask(head), claim) < Used /\ Used = Cyc(Mask(head), Succ(claim))
        BY <3>1, <3>2 DEF Queued, Used
      <4> QED BY <1>0, <3>1, <4>1, CycNextTo, CycRange, SizeAssumption
    <3> QED BY <1>0, <3>1, <3>2, CycRange, SizeAssumption DEF Queued
  <2>8. InOrder'
    <3>1. \A s \in Complete' : fifo'[s].body <= frame
      BY <1>0, <1>c, <2>2, <2>3, <2>4, <2>6, <2>e, <2>f DEF ContentInv, InOrder
    <3>2. \A s, t \in Complete' :
            Cyc(Mask(head), s) < Cyc(Mask(head), t) => fifo'[s].body < fifo'[t].body
      BY <1>c, <2>2, <2>3, <2>4, <2>6, <2>7, <2>e, <2>f DEF ContentInv, InOrder
    <3> QED BY <2>1, <2>2, <3>1, <3>2 DEF InOrder
  <2>9. ProducerInv' /\ NewestInHand'
    BY <2>2 DEF ProducerInv, NewestInHand
  <2> QED BY <2>2, <2>3, <2>5, <2>8, <2>9 DEF ContentInv
<1> QED BY <1>1, <1>2, <1>3, <1>4, <1>5, <1>6, <1>7 DEF Enqueue

(* The consumer's steps outside interrupts, the clock and the host.        *)
LEMMA ServeStep ==
  ASSUME SoundInv, ServeUsb \/ Tick \/ HostRead
  PROVE  /\ ProducerInv' /\ ContentInv'
         /\ \A s \in Complete :
              \/ s \in Complete' /\ fifo'[s] = fifo[s]
              \/ s = Mask(head) /\ head' # head /\ out' = fifo[s]
              \/ queue_init
<1> USE DEF counters, locals, usb, clock, Filling, Enqueueing
<1>c. ContentInv
  BY DEF SoundInv, ContentInv
<1>1. CASE /\ UNCHANGED <<counters, fifo, locals, frame>>
           /\ pc' = pc \/ (~Enqueueing /\ ~Enqueueing')
  <2>1. Queued' = Queued /\ Used' = Used /\ Mask(head)' = Mask(head) /\ Mask(tail)' = Mask(tail)
    BY <1>1 DEF Queued, Used, Mask
  <2>2. ContentInv' /\ Complete' = Complete
    BY <1>1, <1>c, <2>1, ContentKept
  <2>3. ProducerInv'
    BY <1>1, <2>1 DEF SoundInv, ProducerInv
  <2> QED BY <1>1, <2>2, <2>3
<1>2. CASE DequeueSend
  <2>1. ContentInv' /\ Complete' = Complete \ {Mask(head)}
    BY <1>2, <1>c, ContentAfterDequeue DEF DequeueSend, SoundInv
  <2>2. ProducerInv'
    BY <1>2 DEF DequeueSend, ProducerInv
  <2>3. out' = fifo[Mask(head)] /\ fifo' = fifo
    BY <1>2 DEF DequeueSend, Dequeue
  <2>4. head' # head
    BY <1>2, HeadMoves DEF DequeueSend, SoundInv
  <2> QED BY <2>1, <2>2, <2>3, <2>4
<1>3. CASE PolledIsr /\ queue_init
  <2>1. ContentInv'
    BY <1>3, ContentAfterReset
  <2>2. ProducerInv'
    BY <1>3 DEF PolledIsr, ProducerInv
  <2> QED BY <1>3, <2>1, <2>2
<1>4. CASE HandleUsb
  BY <1>4, <1>1 DEF HandleUsb
<1>5. CASE SendKeepAlive
  BY <1>5, <1>1 DEF SendKeepAlive
<1>6. CASE SendNothing
  BY <1>6, <1>1 DEF SendNothing
<1>7. CASE PolledIsr /\ ~queue_init
  BY <1>7, <1>1 DEF PolledIsr
<1>8. CASE Tick
  BY <1>8, <1>1 DEF Tick
<1>9. CASE HostRead
  BY <1>9, <1>1 DEF HostRead
<1> QED BY <1>2, <1>3, <1>4, <1>5, <1>6, <1>7, <1>8, <1>9 DEF ServeUsb

(* UBERTOOTH_POLL from interrupt context, at any point of enqueue().       *)
LEMMA PollStep ==
  ASSUME SoundInv, PollIsr
  PROVE  /\ ProducerInv' /\ ContentInv'
         /\ \A s \in Complete :
              \/ s \in Complete' /\ fifo'[s] = fifo[s]
              \/ s = Mask(head) /\ head' # head /\ out' = fifo[s]
<1> USE DEF counters, locals, usb, clock, Filling, Enqueueing
<1>c. ContentInv
  BY DEF SoundInv, ContentInv
<1>1. ContentInv' /\ Complete' = Complete \ {Mask(head)}
  BY <1>c, ContentAfterDequeue DEF PollIsr, SoundInv
<1>2. Used' = Used - 1 /\ Mask(tail)' = Mask(tail)
  BY QueuedAfterDequeue DEF PollIsr, SoundInv, Mask
<1>3. Used \in 0 .. Size - 1 /\ (\A s \in Slot : Cyc(s, Mask(tail)) \in 0 .. Size - 1)
  <2>1. Mask(head) \in Slot /\ Mask(tail) \in Slot
    BY MaskInSlot, ModulusPositive DEF SoundInv, TypeOK, Counter
  <2> QED BY <2>1, CycRange DEF Used
<1>4. ProducerInv'
  <2>2. pc' = "tail" => Used' <= Cyc(h', Mask(tail)')
    BY <1>2, <1>3, SizeAssumption DEF PollIsr, SoundInv, ProducerInv, TypeOK
  <2>3. pc' \in {"load", "store"} => claim' = Mask(tail)' /\ Used' < Size - 1
    BY <1>2, <1>3, SizeAssumption DEF PollIsr, SoundInv, ProducerInv
  <2>4. pc' = "store" => reg' = tail'
    BY DEF PollIsr, SoundInv, ProducerInv
  <2>5. Used # 0
    <3>1. Mask(head) \in Slot /\ Mask(tail) \in Slot /\ Mask(head) # Mask(tail)
      BY MaskInSlot, ModulusPositive DEF PollIsr, QueueEmpty, SoundInv, TypeOK, Counter
    <3> QED BY <3>1, CycSelf, CycInjective DEF Used
  <2>6. Filling' => /\ Mask(tail)' = Succ(claim)'
                    /\ pc' = "stamp" => fifo'[claim'].body = frame'
    BY <1>2, <2>5 DEF PollIsr, SoundInv, ProducerInv, Succ
  <2> QED BY <2>2, <2>3, <2>4, <2>6 DEF ProducerInv
<1>5. head' # head
  BY HeadMoves DEF PollIsr, SoundInv
<1> QED BY <1>1, <1>4, <1>5 DEF PollIsr, Dequeue

(* UBERTOOTH_BTLE_SNIFFING from interrupt context makes the queue sound,   *)
(* whatever it was, unless it falls into ++tail.                           *)
LEMMA ResetStep ==
  ASSUME TypeOK, TypeOK', FrameInHand', ResetIsr, ~raced'
  PROVE  SoundInv'
<1>1. ContentInv' /\ Used' = 0
  BY ContentAfterReset DEF ResetIsr
<1>2. Cyc(h, Mask(tail))' \in 0 .. Size - 1
  <2>1. h' \in Slot /\ Mask(tail)' \in Slot
    BY MaskInSlot, ModulusPositive DEF TypeOK, Counter, Mask
  <2> QED BY <2>1, CycRange DEF Cyc
<1>3. pc' \notin {"load", "store"}
  BY DEF ResetIsr
<1>4. ProducerInv'
  BY <1>1, <1>2, <1>3 DEF ProducerInv
<1> QED BY <1>1, <1>4 DEF SoundInv, ContentInv

LEMMA FrameStep ==
  ASSUME TypeOK, FrameInHand, [Next]_vars PROVE FrameInHand'
<1> USE DEF FrameInHand, Enqueueing, counters, locals, usb, clock
<1>1. CASE Enqueue
  BY <1>1, BoundAssumption
     DEF TypeOK, Enqueue, ReadHead, EnqueueFull, EnqueueFree, LoadTail, StoreTail, Fill, Stamp, Done
<1>2. CASE ServeUsb
  BY <1>2 DEF ServeUsb, HandleUsb, DequeueSend, SendKeepAlive, SendNothing, PolledIsr
<1>3. CASE PollIsr \/ ResetIsr \/ Tick \/ HostRead \/ UNCHANGED vars
  BY <1>3 DEF PollIsr, ResetIsr, Tick, HostRead, vars
<1> QED BY <1>1, <1>2, <1>3 DEF Next, Main

(* From a sound queue every step leads to a sound queue, an interrupt      *)
(* inside ++tail excepted, and a finished packet stays, is delivered or    *)
(* goes with all the others.                                               *)
LEMMA SoundStep ==
  ASSUME SoundInv, [Next]_vars, TypeOK', FrameInHand'
  PROVE  /\ raced' \/ SoundInv'
         /\ \A s \in Complete :
              \/ s \in Complete' /\ fifo'[s] = fifo[s]
              \/ s = Mask(head) /\ head' # head /\ out' = fifo[s]
              \/ queue_init
<1>1. ASSUME ProducerInv', ContentInv' PROVE SoundInv'
  BY <1>1 DEF SoundInv, ContentInv
<1>2. CASE Enqueue
  BY <1>1, <1>2, EnqueueStep
<1>3. CASE ServeUsb \/ Tick \/ HostRead
  BY <1>1, <1>3, ServeStep
<1>4. CASE PollIsr
  BY <1>1, <1>4, PollStep
<1>5. CASE ResetIsr
  BY <1>5, ResetStep DEF ResetIsr, SoundInv
<1>6. CASE UNCHANGED vars
  <2>1. Queued' = Queued /\ Mask(head)' = Mask(head) /\ Used' = Used /\ Mask(tail)' = Mask(tail)
    BY <1>6 DEF vars, Queued, Used, Mask
  <2>2. ContentInv' /\ Complete' = Complete
    BY <1>6, <2>1, ContentKept DEF vars, SoundInv, ContentInv, Filling, Enqueueing
  <2>3. ProducerInv'
    BY <1>6, <2>1 DEF vars, SoundInv, ProducerInv, Filling, Succ
  <2> QED BY <1>1, <1>6, <2>2, <2>3 DEF vars
<1> QED BY <1>2, <1>3, <1>4, <1>5, <1>6 DEF Next, Main

LEMMA QueueStep ==
  ASSUME QueueInv, [Next]_vars PROVE QueueInv'
<1>1. TypeOK' /\ FrameInHand'
  BY TypeStep, FrameStep DEF QueueInv
<1>2. CASE raced
  <2>1. CASE ResetIsr
    BY <1>1, <2>1, ResetStep DEF QueueInv
  <2>2. CASE ~ResetIsr
    <3>1. raced' = raced
      BY <2>2 DEF Next, Main, Enqueue, ServeUsb, ReadHead, EnqueueFull, EnqueueFree, LoadTail,
           StoreTail, Fill, Stamp, HandleUsb, DequeueSend, SendKeepAlive, SendNothing,
           PolledIsr, PollIsr, Tick, HostRead, vars
    <3> QED BY <1>1, <1>2, <3>1 DEF QueueInv
  <2> QED BY <2>1, <2>2
<1>3. CASE ~raced
  BY <1>1, <1>3, SoundStep DEF QueueInv
<1> QED BY <1>2, <1>3

LEMMA QueueInvariant == Spec => []QueueInv
<1>1. Init => QueueInv
  BY QueueInit DEF QueueInv, SoundInv
<1>2. QueueInv /\ [Next]_vars => QueueInv'
  BY QueueStep
<1> QED BY <1>1, <1>2, PTL DEF Spec

(* What the consumer can take is, apart from the slot being filled, one    *)
(* capture written completely, whenever the interrupt comes: the only      *)
(* unsafe instant is a queue_init() inside ++tail.                         *)
THEOREM QueuedPacketsWhole == Spec => []QueuedWhole
<1>1. QueueInv => QueuedWhole
  BY DEF QueueInv, SoundInv, QueuedWhole
<1> QED BY <1>1, QueueInvariant, PTL

(* Under the same condition packets leave usb_enqueue() in the order of    *)
(* capture, for every ring size and wherever the counters wrap.            *)
THEOREM QueuedPacketsOrdered == Spec => []QueuedInOrder
<1>1. QueueInv => QueuedInOrder
  BY DEF QueueInv, SoundInv, QueuedInOrder
<1> QED BY <1>1, QueueInvariant, PTL

(* enqueue() never overwrites a packet the host has not got yet, and the   *)
(* consumers never skip one.                                               *)
THEOREM CompleteNeverLost == Spec => CompleteUntouched
<1>1. ASSUME QueueInv, [Next]_vars, TypeOK', FrameInHand'
      PROVE  [\A s \in Complete :
                \/ raced
                \/ s \in Complete' /\ fifo'[s] = fifo[s]
                \/ s = Mask(head) /\ head' # head /\ out' = fifo[s]
                \/ queue_init]_vars
  BY <1>1, SoundStep DEF QueueInv
<1>2. QueueInv => TypeOK /\ FrameInHand
  BY DEF QueueInv
<1> QED BY <1>1, <1>2, QueueInvariant, PTL DEF Spec, CompleteUntouched

-----------------------------------------------------------------------------
(* Polled, the ring buffer implements PacketFifo.                          *)

LEMMA PolledStep ==
  ASSUME ~UsbIrq, SoundInv, PolledInv, [Next]_vars
  PROVE  PolledInv'
<1> USE DEF counters, locals, usb, clock, Filling
<1>1. CASE Enqueue
  <2>1. ~raced'
    BY <1>1 DEF Enqueue, ReadHead, EnqueueFull, EnqueueFree, LoadTail, StoreTail, Fill, Stamp,
                PolledInv
  <2>2. pc' = "tail" => h' = Mask(head')
    BY <1>1 DEF Enqueue, ReadHead, EnqueueFull, EnqueueFree, LoadTail, StoreTail, Fill, Stamp,
                Done
  <2>3. CASE StoreTail
    <3>1. Used' = Used + 1 /\ Used \in Nat
      <4>1. Used < Size - 1 /\ reg = tail
        BY <2>3 DEF StoreTail, SoundInv, ProducerInv
      <4>2. Mask(head) \in Slot /\ Mask(tail) \in Slot
        BY MaskInSlot, ModulusPositive DEF SoundInv, TypeOK, Counter
      <4> QED BY <2>3, <4>1, <4>2, QueuedAfterStore, CycRange, SizeAssumption DEF SoundInv, Used
    <3> QED BY <2>1, <2>2, <3>1 DEF PolledInv
  <2>4. CASE Fill
    <3>1. Used' = Used /\ Filling
      BY <2>4 DEF Fill, Used
    <3> QED BY <2>1, <2>2, <3>1 DEF PolledInv
  <2>5. CASE ~(StoreTail \/ Fill)
    <3>1. ~Filling'
      BY <1>1, <2>5 DEF Enqueue, ReadHead, EnqueueFull, EnqueueFree, LoadTail, Stamp, Done
    <3> QED BY <2>1, <2>2, <3>1 DEF PolledInv
  <2> QED BY <2>3, <2>4, <2>5
<1>2. CASE ServeUsb
  <2>1. raced' = raced /\ pc' \in {"usb", "idle"}
    BY <1>2 DEF ServeUsb, HandleUsb, DequeueSend, SendKeepAlive, SendNothing, PolledIsr
  <2> QED BY <2>1 DEF PolledInv
<1>3. CASE Tick \/ HostRead \/ UNCHANGED vars
  <2>1. raced' = raced /\ pc' = pc /\ h' = h /\ Mask(head)' = Mask(head) /\ Used' = Used
    BY <1>3 DEF Tick, HostRead, vars, Mask, Used
  <2> QED BY <2>1 DEF PolledInv
<1>4. ~PollIsr /\ ~ResetIsr
  BY DEF PollIsr, ResetIsr
<1> QED BY <1>1, <1>2, <1>3, <1>4 DEF Next, Main

(* The finished packets, as they are queued. *)
Contents == [k \in 1 .. Finished |-> fifo[At(k - 1)]]

LEMMA AtSlot ==
  ASSUME TypeOK
  PROVE  /\ At(0) = Mask(head)
         /\ \A k \in 0 .. Size - 1 : At(k) \in Slot /\ Cyc(Mask(head), At(k)) = k
<1>1. Mask(head) \in Slot
  BY MaskInSlot, ModulusPositive DEF TypeOK, Counter
<1> QED BY <1>1, SizeAssumption DEF At, Cyc, Slot

LEMMA FinishedRange ==
  ASSUME SoundInv, PolledInv
  PROVE  Used \in 0 .. Size - 1 /\ Finished \in 0 .. Size - 1
<1>1. Mask(head) \in Slot /\ Mask(tail) \in Slot
  BY MaskInSlot, ModulusPositive DEF SoundInv, TypeOK, Counter
<1>2. Used \in 0 .. Size - 1
  BY <1>1, CycRange DEF Used
<1> QED BY <1>2, SizeAssumption DEF Finished, PolledInv

LEMMA ContentsType ==
  ASSUME SoundInv, PolledInv
  PROVE  Contents \in Seq(Packets) /\ Len(Contents) = Finished
<1>1. Finished \in Nat
  BY FinishedRange, SizeAssumption
<1>2. \A k \in 1 .. Finished : fifo[At(k - 1)] \in Packets
  BY FinishedRange, AtSlot, SizeAssumption DEF SoundInv, TypeOK
<1> QED BY <1>1, <1>2 DEF Contents

LEMMA ContentsTypeNext ==
  SoundInv' /\ PolledInv' => (Contents \in Seq(Packets) /\ Len(Contents) = Finished)'
<1>1. SoundInv /\ PolledInv => Contents \in Seq(Packets) /\ Len(Contents) = Finished
  BY ContentsType
<1> QED BY <1>1, PTL

(* The slot being written is the one behind them. *)
LEMMA ClaimBehind ==
  ASSUME SoundInv, PolledInv, Filling
  PROVE  /\ claim = At(Finished) /\ Finished < Size - 1
         /\ \A k \in 1 .. Finished : At(k - 1) # claim
<1>1. Mask(head) \in Slot /\ Mask(tail) \in Slot /\ claim \in Slot
  BY MaskInSlot, ModulusPositive DEF SoundInv, TypeOK, Counter
<1>2. Mask(tail) = Succ(claim) /\ Used > 0 /\ Finished = Used - 1
  BY DEF SoundInv, ProducerInv, PolledInv, Finished
<1>3. Used = Cyc(Mask(head), Succ(claim))
  BY <1>2 DEF Used
<1> DEFINE hd == Mask(head)
<1>4. hd \in Slot /\ Cyc(hd, Succ(claim)) > 0
  BY <1>1, <1>2, <1>3
<1>5. Cyc(hd, claim) = Cyc(hd, Succ(claim)) - 1
  <2> HIDE DEF hd
  <2> QED BY <1>1, <1>4, SizeAssumption DEF Cyc, Succ, Slot
<1>6. Cyc(Mask(head), claim) = Finished /\ Finished \in 0 .. Size - 2
  BY <1>1, <1>2, <1>3, <1>5, CycRange, FinishedRange, SizeAssumption
<1>7. claim = At(Finished)
  BY <1>1, <1>6, AtSlot, CycInjective, SizeAssumption DEF SoundInv
<1>8. \A k \in 1 .. Finished : Cyc(Mask(head), At(k - 1)) = k - 1
  BY <1>6, AtSlot, SizeAssumption DEF SoundInv
<1>9. \A k \in 1 .. Finished : At(k - 1) # claim
  BY <1>6, <1>8
<1> QED BY <1>6, <1>7, <1>9, SizeAssumption

LEMMA ContentsSame ==
  ASSUME Finished' = Finished, Mask(head)' = Mask(head),
         \A k \in 1 .. Finished : fifo'[At(k - 1)] = fifo[At(k - 1)]
  PROVE  Contents' = Contents
<1>1. \A k \in 1 .. Finished : At(k - 1)' = At(k - 1)
  BY DEF At
<1> QED BY <1>1 DEF Contents

LEMMA FifoEnqueue ==
  ASSUME ~UsbIrq, SoundInv, PolledInv, SoundInv', PolledInv', Enqueue
  PROVE  Fifo!Next \/ UNCHANGED Fifo!vars
<1> USE DEF counters, locals, usb, clock
<1>0. Contents \in Seq(Packets) /\ Len(Contents) = Finished /\ Finished \in 0 .. Size - 1
  BY ContentsType, FinishedRange
<1>1. CASE ReadHead
  <2>1. Contents' = Contents
    BY <1>1, ContentsSame DEF ReadHead, Finished, Filling, Used
  <2> QED BY <1>1, <2>1 DEF ReadHead, Fifo!Next, Fifo!Offer, Contents, Enqueueing
<1>2. CASE EnqueueFull
  <2>1. Contents' = Contents /\ ~Enqueueing'
    BY <1>2, ContentsSame DEF EnqueueFull, Finished, Filling, Used, Done, Enqueueing
  <2>2. Finished = Size - 1
    <3>1. Mask(head) \in Slot /\ Mask(tail) \in Slot
      BY MaskInSlot, ModulusPositive DEF SoundInv, TypeOK, Counter
    <3>2. Succ(Mask(tail)) = Mask(head)
      BY <1>2, <3>1, SuccMod DEF EnqueueFull, QueueFull, PolledInv
    <3>3. Cyc(Mask(head), Mask(tail)) = Size - 1
      BY <3>1, <3>2, SizeAssumption DEF Cyc, Succ, Slot
    <3> QED BY <1>2, <3>3 DEF EnqueueFull, Finished, Filling, Used
  <2> QED BY <1>0, <1>2, <2>1, <2>2 DEF EnqueueFull, Fifo!Next, Fifo!Refuse, Contents, Enqueueing
<1>3. CASE EnqueueFree \/ LoadTail
  <2>1. Contents' = Contents
    BY <1>3, ContentsSame DEF EnqueueFree, LoadTail, Finished, Filling, Used
  <2> QED BY <1>3, <2>1 DEF EnqueueFree, LoadTail, Fifo!vars, Contents, Enqueueing
<1>4. CASE StoreTail
  <2>1. Used' = Used + 1 /\ Used \in Nat /\ Mask(head)' = Mask(head)
    <3>1. Used < Size - 1 /\ reg = tail
      BY <1>4 DEF StoreTail, SoundInv, ProducerInv
    <3> QED BY <1>4, <3>1, QueuedAfterStore, FinishedRange, SizeAssumption
            DEF SoundInv, StoreTail, Mask
  <2>2. Finished' = Finished
    BY <1>4, <2>1 DEF StoreTail, Finished, Filling
  <2>3. Contents' = Contents
    BY <1>4, <2>1, <2>2, ContentsSame DEF StoreTail
  <2> QED BY <1>4, <2>3 DEF StoreTail, Fifo!vars, Contents, Enqueueing
<1>5. CASE Fill
  <2>1. Filling /\ fifo \in [Slot -> Packets] /\ fifo' = [fifo EXCEPT ![claim].body = frame]
        /\ Finished' = Finished /\ Mask(head)' = Mask(head)
    BY <1>5 DEF Fill, Filling, SoundInv, TypeOK, Finished, Used
  <2>2. \A k \in 1 .. Finished : At(k - 1) \in Slot /\ At(k - 1) # claim
    BY <1>0, <2>1, ClaimBehind, AtSlot, SizeAssumption DEF SoundInv
  <2>3. \A k \in 1 .. Finished : fifo'[At(k - 1)] = fifo[At(k - 1)]
    BY <2>1, <2>2
  <2>4. Contents' = Contents
    BY <2>1, <2>3, ContentsSame
  <2> QED BY <1>5, <2>4 DEF Fill, Fifo!vars, Contents, Enqueueing
<1>6. CASE Stamp
  <2>1. Filling /\ fifo \in [Slot -> Packets] /\ claim \in Slot
        /\ fifo' = [fifo EXCEPT ![claim].stamp = frame, ![claim].overflow = overflow]
        /\ Mask(head)' = Mask(head) /\ Used' = Used /\ ~Filling' /\ ~Enqueueing'
    BY <1>6 DEF Stamp, Filling, SoundInv, TypeOK, Used, Enqueueing, Done
  <2>2. Finished' = Finished + 1 /\ Finished < Size - 1 /\ claim = At(Finished)
    BY <2>1, ClaimBehind, FinishedRange, SizeAssumption DEF Finished
  <2>3. fifo[claim].body = frame
    BY <1>6, <2>1 DEF Stamp, SoundInv, ProducerInv, PolledInv
  <2>4. fifo'[claim] = Packet(frame, overflow)
    BY <2>1, <2>3 DEF Packets, Packet
  <2>5. \A k \in 1 .. Finished : At(k - 1) \in Slot /\ At(k - 1) # claim
    BY <1>0, <2>1, ClaimBehind, AtSlot, SizeAssumption DEF SoundInv
  <2>6. \A k \in 1 .. Finished : fifo'[At(k - 1)] = fifo[At(k - 1)]
    BY <2>1, <2>5
  <2>7. \A k \in Int : At(k)' = At(k)
    BY <2>1 DEF At
  <2>8. Contents' = Append(Contents, Packet(frame, overflow))
    <3>1. /\ DOMAIN Contents' = 1 .. Finished + 1
          /\ \A k \in 1 .. Finished : Contents'[k] = Contents[k]
          /\ Contents'[Finished + 1] = Packet(frame, overflow)
      BY <1>0, <2>2, <2>4, <2>6, <2>7 DEF Contents
    <3>2. Contents' \in Seq(Packets) /\ Len(Contents') = Finished + 1
      BY <2>2, ContentsTypeNext
    <3>3. Packet(frame, overflow) \in Packets
      BY <2>1, <2>4, <3>2, <1>0, <3>1
    <3> DEFINE longer == Append(Contents, Packet(frame, overflow))
    <3>4. /\ longer \in Seq(Packets) /\ Len(longer) = Finished + 1
          /\ \A k \in 1 .. Finished : longer[k] = Contents[k]
          /\ longer[Finished + 1] = Packet(frame, overflow)
      BY <1>0, <3>3, AppendProperties
    <3> HIDE DEF longer
    <3>5. \A k \in 1 .. Finished + 1 : Contents'[k] = longer[k]
      BY <1>0, <3>1, <3>4
    <3>6. Contents' = longer
      BY <3>2, <3>4, <3>5, SeqEqual
    <3> QED BY <3>6, Zenon DEF longer
  <2>9. Len(Contents) < Size - 1
    BY <1>0, <2>2
  <2>10. Enqueueing /\ Enqueueing' = FALSE /\ overflow' = FALSE /\ UNCHANGED <<out, frame>>
    BY <1>6, <2>1 DEF Stamp, Enqueueing
  <2>11. Fifo!Packet(frame, overflow) = Packet(frame, overflow)
    BY DEF Fifo!Packet, Packet
  <2>12. Contents' = Append(Contents, Fifo!Packet(frame, overflow))
    BY <2>8, <2>11
  <2>13. Fifo!Accept
    BY <2>9, <2>10, <2>12, Zenon DEF Fifo!Accept, Contents
  <2> QED BY <2>13 DEF Fifo!Next
<1> QED BY <1>1, <1>2, <1>3, <1>4, <1>5, <1>6 DEF Enqueue

LEMMA FifoServe ==
  ASSUME ~UsbIrq, SoundInv, PolledInv, SoundInv', PolledInv', ServeUsb
  PROVE  Fifo!Next \/ UNCHANGED Fifo!vars
<1> USE DEF counters, locals, usb, clock
<1>0. /\ Contents \in Seq(Packets) /\ Len(Contents) = Finished /\ Finished \in 0 .. Size - 1
      /\ Contents' \in Seq(Packets) /\ Len(Contents') = Finished'
  BY ContentsType, ContentsTypeNext, FinishedRange
<1>1. CASE HandleUsb \/ SendKeepAlive \/ SendNothing
  <2>1. Contents' = Contents
    BY <1>1, ContentsSame DEF HandleUsb, SendKeepAlive, SendNothing, Finished, Filling, Used
  <2> QED BY <1>1, <2>1
          DEF HandleUsb, SendKeepAlive, SendNothing, Fifo!vars, Contents, Enqueueing
<1>2. CASE DequeueSend
  <2>1. /\ Used' = Used - 1 /\ ~Filling /\ ~Filling' /\ fifo' = fifo
        /\ pc' = pc /\ pc = "usb" /\ out' = fifo[Mask(head)] /\ Mask(head) \in Queued
    BY <1>2, QueuedAfterDequeue DEF DequeueSend, Filling, SoundInv, Dequeue
  <2>2. Finished' = Finished - 1 /\ Finished > 0
    BY <2>1, <1>0, FinishedRange, SizeAssumption DEF Finished
  <2>3. Mask(head) \in Slot /\ Mask(head)' = Succ(Mask(head))
    BY <1>2, MaskInSlot, CounterStep, ModulusPositive
       DEF DequeueSend, Dequeue, SoundInv, TypeOK, Counter
  <2>4. \A k \in 0 .. Size - 2 : At(k)' = At(k + 1)
    BY <2>3, SizeAssumption DEF At, Succ, Slot
  <2>5. \A k \in 1 .. Finished - 1 : Contents'[k] = Contents[k + 1]
    <3>1. \A k \in 1 .. Finished - 1 : At(k - 1)' = At(k)
      BY <1>0, <2>4, SizeAssumption
    <3> QED BY <1>0, <2>1, <2>2, <3>1 DEF Contents
  <2>6. Contents' = Tail(Contents)
    BY <1>0, <2>2, <2>5
  <2>7. Head(Contents) = fifo[Mask(head)] /\ Contents # << >>
    BY <1>0, <2>2, AtSlot DEF Contents, SoundInv
  <2> QED BY <1>2, <2>1, <2>6, <2>7
          DEF DequeueSend, Fifo!Next, Fifo!Deliver, Contents, Enqueueing
<1>3. CASE PolledIsr
  <2>1. pc = "usb" /\ pc' = "idle" /\ UNCHANGED <<overflow, out, frame>>
    BY <1>3 DEF PolledIsr
  <2>2. CASE UNCHANGED <<counters, fifo>>
    <3>1. Contents' = Contents
      BY <2>1, <2>2, ContentsSame DEF Finished, Filling, Used
    <3> QED BY <2>1, <3>1 DEF Fifo!vars, Contents, Enqueueing
  <2>3. CASE queue_init
    <3>1. Finished' = 0
      BY <2>1, <2>3, ContentAfterReset DEF Finished, Filling
    <3>2. Contents' = << >>
      BY <1>0, <3>1
    <3> QED BY <2>1, <3>2 DEF Fifo!Next, Fifo!Reset, Contents, Enqueueing
  <2> QED BY <1>3, <2>2, <2>3 DEF PolledIsr
<1> QED BY <1>1, <1>2, <1>3 DEF ServeUsb

LEMMA FifoStep ==
  ASSUME ~UsbIrq, SoundInv, PolledInv, SoundInv', PolledInv', [Next]_vars
  PROVE  [Fifo!Next]_(Fifo!vars)
<1>1. CASE Tick \/ HostRead \/ UNCHANGED vars
  <2>1. UNCHANGED <<head, tail, fifo, overflow, out, frame, pc>>
    BY <1>1 DEF Tick, HostRead, vars, counters
  <2>2. Contents' = Contents
    BY <2>1, ContentsSame DEF Finished, Filling, Used
  <2> QED BY <2>1, <2>2 DEF Fifo!vars, Contents, Enqueueing
<1>2. ~PollIsr /\ ~ResetIsr
  BY DEF PollIsr, ResetIsr
<1> QED BY <1>1, <1>2, FifoEnqueue, FifoServe DEF Next, Main

LEMMA FifoInit ==
  ASSUME Init PROVE SoundInv /\ PolledInv /\ Fifo!Init
<1>1. SoundInv
  BY QueueInit
<1>2. PolledInv
  BY DEF Init, PolledInv, Filling
<1>3. Finished = 0
  BY MaskOfSlot, SizeAssumption DEF Init, Finished, Filling, Used, Cyc, Slot
<1>4. Contents = << >>
  BY <1>1, <1>2, <1>3, ContentsType
<1> QED BY <1>1, <1>2, <1>4
        DEF Init, Fifo!Init, Contents, Enqueueing, Fifo!Zeroed, Zeroed, Fifo!Packet, Packet

(* Polled, usb_enqueue(), dequeue() and queue_init() implement the bounded *)
(* first-in first-out queue that reports what it refuses, for every ring   *)
(* size and wherever the counters wrap.                                    *)
THEOREM PolledIsFifo ==
  ASSUME ~UsbIrq PROVE Spec => FifoSpec
<1>1. Init => QueueInv /\ SoundInv /\ PolledInv /\ Fifo!Init
  BY FifoInit, QueueInit DEF QueueInv, SoundInv
<1>2. QueueInv /\ [Next]_vars => QueueInv'
  BY QueueStep
<1>3. QueueInv /\ PolledInv /\ [Next]_vars => PolledInv'
  BY PolledStep DEF QueueInv, PolledInv
<1>4. QueueInv /\ PolledInv /\ [Next]_vars /\ QueueInv' /\ PolledInv' => [Fifo!Next]_(Fifo!vars)
  BY FifoStep DEF QueueInv, PolledInv
<1> QED BY <1>1, <1>2, <1>3, <1>4, PTL DEF Spec, FifoSpec, Fifo!Spec

(* Polled, no packet is torn on its way to USB: what is published is also  *)
(* finished whenever handle_usb() runs (dequeue_send()).  From the         *)
(* interrupt it may not be, as the run queue_torn shows.                   *)
THEOREM PolledDeliversWhole ==
  ASSUME ~UsbIrq PROVE Spec => []DeliveredWhole
<1>1. Init => QueueInv /\ PolledInv /\ DeliveredWhole
  <2>1. Init => out = Zeroed
    BY DEF Init
  <2> QED BY <2>1, FifoInit, QueueInit DEF QueueInv, SoundInv, DeliveredWhole
<1>2. QueueInv /\ [Next]_vars => QueueInv'
  BY QueueStep
<1>3. QueueInv /\ PolledInv /\ [Next]_vars => PolledInv'
  BY PolledStep DEF QueueInv, PolledInv
<1>4. QueueInv /\ PolledInv /\ DeliveredWhole /\ [Next]_vars => DeliveredWhole'
  <2> SUFFICES ASSUME SoundInv, DeliveredWhole, [Next]_vars PROVE DeliveredWhole'
    BY DEF QueueInv, PolledInv
  <2>1. CASE DequeueSend
    <3>1. pc = "usb" /\ ~QueueEmpty /\ out' = fifo[Mask(head)]
      BY <2>1 DEF DequeueSend, Dequeue
    <3>2. Mask(head) \in Complete
      <4>1. Dequeue /\ tail' = tail
        BY <2>1 DEF DequeueSend
      <4>2. Mask(head) \in Queued
        BY <3>1, <4>1, QueuedAfterDequeue DEF SoundInv
      <4> QED BY <3>1, <4>2 DEF Complete, Filling
    <3>3. Whole(out')
      BY <3>1, <3>2 DEF SoundInv, AllWhole
    <3> QED BY <3>3 DEF DeliveredWhole, Whole
  <2>2. CASE ~DequeueSend
    <3>1. out' = out
      BY <2>2 DEF Next, Main, Enqueue, ReadHead, EnqueueFull, EnqueueFree, LoadTail, StoreTail, Fill,
                  Stamp, ServeUsb, HandleUsb, SendKeepAlive, SendNothing, PolledIsr, PollIsr, ResetIsr,
                  Tick, HostRead, vars, usb
    <3> QED BY <3>1 DEF DeliveredWhole, Whole, Zeroed, Packet
  <2> QED BY <2>1, <2>2
<1> QED BY <1>1, <1>2, <1>3, <1>4, PTL DEF Spec
=============================================================================
