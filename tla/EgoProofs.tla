------------------------------ MODULE EgoProofs ------------------------------
(***************************************************************************)
(* Proofs about ego_main(): what is transmitted, and that the follower     *)
(* keeps step with a skateboard that sends every 11 ms, for every place at *)
(* which CLK100NS begins again, for every run of lost packets and however  *)
(* long it runs.                                                           *)
(***************************************************************************)
EXTENDS Ego, ModFacts

TypeOK ==
  /\ requested_mode \in {"MODE_IDLE", "MODE_EGO"} /\ mode \in {"MODE_IDLE", "MODE_EGO"}
  /\ running \in BOOLEAN /\ busy \in BOOLEAN /\ onair \in BOOLEAN /\ locked \in BOOLEAN
  /\ rx \in BOOLEAN /\ tx \in BOOLEAN /\ paen \in BOOLEAN
  /\ packet_observed \in BOOLEAN /\ timer_active \in BOOLEAN
  /\ state \in {"INIT", "START_RX", "CAP", "SLEEP", "START_JAMMING", "JAMMING"}
  /\ channel_index \in 0 .. 3 /\ board \in 0 .. 3
  /\ time \in Nat /\ sleep_start \in Nat /\ anchor \in Nat /\ sleep_duration \in Nat

(* The handlers run in their mode, and a packet is received in CAP.        *)
RunsInMode ==
  /\ running => mode = "MODE_EGO"
  /\ busy => running /\ state = "CAP" /\ ego_mode # "EGO_JAM" /\ ~onair
  /\ onair => time % Period = 0

(* The moment e ms ago, as CLK100NS showed it.                             *)
Ago(e) == (time - e) % Wrap

(* Who transmits, and since when.                                          *)
JamsInSlot ==
  /\ tx => running /\ state = "JAMMING" /\ paen
  /\ state \in {"START_JAMMING", "JAMMING"} => ~rx
  /\ state = "START_JAMMING" /\ packet_observed => anchor = Ago(0)
  /\ state = "JAMMING" => sleep_start = anchor /\ sleep_duration = 2
  /\ state = "JAMMING" /\ packet_observed => \E e \in 0 .. 2 : anchor = Ago(e)

Slot == time \div 11
Phase == time % 11
SleepsFor(e, d) == sleep_start = Ago(e) /\ sleep_duration = d
ListensTo(slot) == channel_index = (board + slot) % 4

(* The follower's handlers against the skateboard's slots: a packet begins *)
(* in phase 0, and the receiver is on from phase 7 to the packet, or to    *)
(* phase 3 of the next slot when none comes.                               *)
Step ==
  \/ state = "CAP" /\ busy /\ rx /\ Phase = 0 /\ ListensTo(Slot)
  \/ /\ state = "SLEEP" /\ ~busy /\ ListensTo(Slot)
     /\ \E a \in {1, 3} : Phase \in a .. 7 /\ SleepsFor(Phase - a, 7 - a)
  \/ state = "START_RX" /\ ~busy /\ Phase = 7 /\ SleepsFor(0, 7) /\ ListensTo(Slot + 1)
  \/ /\ state = "CAP" /\ ~busy /\ rx
     /\ Phase \in 7 .. 10 /\ SleepsFor(Phase - 7, 7) /\ ListensTo(Slot + 1)
  \/ /\ state = "CAP" /\ ~busy /\ rx
     /\ Phase \in 0 .. 3 /\ SleepsFor(Phase + 4, 7) /\ ListensTo(Slot)

InStep ==
  running /\ ego_mode = "EGO_FOLLOW" =>
    /\ state # "INIT" => channel = channels[channel_index]
    /\ locked => Step

EgoInv == TypeOK /\ RunsInMode /\ JamsInSlot /\ InStep

-----------------------------------------------------------------------------
(* Lemmas: of the clock, and of the channels.                              *)

(* The difference of two readings of a clock that begins again at w is the *)
(* time between them, as the code computes it and modulo w.                *)
LEMMA ClockDifference ==
  ASSUME NEW w \in Nat \ {0}, NEW t \in Nat, NEW e \in 0 .. w - 1
  PROVE  /\ (IF t % w < (t - e) % w THEN (t % w) + w - ((t - e) % w) ELSE (t % w) - ((t - e) % w)) = e
         /\ ((t % w) - ((t - e) % w)) % w = e
<1> DEFINE a == t % w
           b == (t - e) % w
<1>1. a \in 0 .. w - 1 /\ b \in 0 .. w - 1
  BY ModRangeInt
<1>2. (a - e) % w = b
  <2>1. t \in Int /\ e \in Int
    OBVIOUS
  <2> QED BY <2>1, ModSub
<1> HIDE DEF a, b
<1>3. CASE a >= e
  <2>1. a - e \in 0 .. w - 1
    BY <1>1, <1>3
  <2>2. a - e = b
    BY <2>1, <1>2, ModOfSmall
  <2>3. a - b = e /\ e % w = e
    BY <2>2, <1>1, ModOfSmall
  <2> QED BY <2>3, <1>1 DEF a, b
<1>4. CASE a < e
  <2>1. a - e + w \in 0 .. w - 1 /\ a - e \in Int
    BY <1>1, <1>4
  <2>2. ((a - e) + (1 * w)) % w = (a - e) % w
    <3> DEFINE d == a - e
    <3>1. d \in Int /\ 1 \in Int
      BY <2>1
    <3> HIDE DEF d
    <3>2. (d + (1 * w)) % w = d % w
      BY <3>1, ModShift
    <3> QED BY <3>2 DEF d
  <2>3. a - e + w = b
    <3>1. (a - e) + (1 * w) = a - e + w
      BY <2>1
    <3> QED BY <2>1, <2>2, <3>1, <1>2, ModOfSmall
  <2>4. a < b /\ a + w - b = e /\ a - b \in Int /\ (a - b) + (1 * w) = e
    BY <2>3, <1>1
  <2>5. e % w = (a - b) % w /\ e % w = e
    BY <2>4, ModShift, ModOfSmall
  <2> QED BY <2>4, <2>5 DEF a, b
<1> QED BY <1>1, <1>3, <1>4

LEMMA AgoElapsed ==
  ASSUME EgoAssumption, Period = 11, TypeOK, NEW e \in 0 .. 21, sleep_start = Ago(e)
  PROVE  Elapsed(now) = e
<1>1. Wrap \in Nat \ {0} /\ e \in 0 .. Wrap - 1 /\ time \in Nat
  BY DEF EgoAssumption, TypeOK
<1> QED BY <1>1, ClockDifference DEF Elapsed, now, Ago

LEMMA ChannelsDiffer ==
  ASSUME NEW i \in 0 .. 3, NEW j \in 0 .. 3, channels[i] = channels[j]
  PROVE  i = j
<1> DEFINE four == <<2408, 2418, 2423, 2469>>
<1>1. \A k \in 0 .. 3 : channels[k] = four[k + 1]
  BY DEF channels
<1>2. four[1] = 2408 /\ four[2] = 2418 /\ four[3] = 2423 /\ four[4] = 2469
  OBVIOUS
<1> HIDE DEF four
<1>3. channels[0] = 2408 /\ channels[1] = 2418 /\ channels[2] = 2423 /\ channels[3] = 2469
  BY <1>1, <1>2
<1> QED BY <1>3

(* The next slot begins with phase 0.                                      *)
LEMMA NextMs ==
  ASSUME NEW t \in Nat
  PROVE  IF t % 11 = 10 THEN (t + 1) % 11 = 0 /\ (t + 1) \div 11 = (t \div 11) + 1
         ELSE (t + 1) % 11 = (t % 11) + 1 /\ (t + 1) \div 11 = t \div 11
  OBVIOUS

LEMMA NextListensTo ==
  ASSUME NEW i \in Nat, NEW b \in Nat, NEW s \in Nat, i = (b + s) % 4
  PROVE  (i + 1) % 4 = (b + (s + 1)) % 4
<1>1. (((b + s) % 4) + 1) % 4 = (b + s + 1) % 4
  BY ModAdd
<1> QED BY <1>1

-----------------------------------------------------------------------------
(* The invariant.                                                          *)

LEMMA InitInv == EgoAssumption /\ Init => EgoInv
<1> SUFFICES ASSUME EgoAssumption, Init PROVE EgoInv
  OBVIOUS
<1>1. TypeOK
  <2>1. /\ running \in BOOLEAN /\ busy \in BOOLEAN /\ onair \in BOOLEAN /\ locked \in BOOLEAN
        /\ rx \in BOOLEAN /\ tx \in BOOLEAN /\ paen \in BOOLEAN
        /\ packet_observed \in BOOLEAN /\ timer_active \in BOOLEAN
    BY Zenon DEF Init
  <2> QED BY <2>1 DEF Init, TypeOK
<1>2. RunsInMode /\ InStep
  BY DEF Init, RunsInMode, InStep
<1>3. JamsInSlot
  BY DEF Init, JamsInSlot
<1> QED BY <1>1, <1>2, <1>3 DEF EgoInv

(* What changes keeps its type.                                            *)
LEMMA TypeStep == EgoAssumption /\ TypeOK /\ [Next]_vars => TypeOK'
<1> SUFFICES ASSUME EgoAssumption, TypeOK, [Next]_vars PROVE TypeOK'
  OBVIOUS
<1> USE DEF TypeOK, modes, sleep, radio, world
<1>0. Wrap \in Nat \ {0} /\ Period \in Nat /\ now \in Nat /\ (time + 1) % Wrap \in Nat
  BY ModRange DEF EgoAssumption, now
<1>1. (channel_index + 1) % 4 \in 0 .. 3
  BY ModRange
<1>2. CASE init_state
  BY <1>2 DEF init_state
<1>3. CASE start_rf_state
  BY <1>3 DEF start_rf_state
<1>4. CASE do_rx
  BY <1>4 DEF do_rx
<1>5. CASE cap_timeout
  BY <1>5, <1>0 DEF cap_timeout, sleep_ms, RfOff
<1>6. CASE sleep_state
  BY <1>6, <1>0, <1>1 DEF sleep_state, sleep_ms, NextChannel, Window
<1>7. CASE jam_cap_state
  <2>1. packet_observed' \in BOOLEAN /\ locked' \in BOOLEAN
    BY <1>7, Zenon DEF jam_cap_state
  <2>2. anchor' \in Nat /\ sleep_start' \in Nat /\ sleep_duration' \in Nat
    BY <1>7, <1>0 DEF jam_cap_state, sleep_ms
  <2> QED BY <1>7, <2>1, <2>2 DEF jam_cap_state, RfOff
<1>8. CASE start_jamming_state
  BY <1>8 DEF start_jamming_state, sleep_ms_anchor
<1>9. CASE jamming_state
  BY <1>9, <1>1 DEF jamming_state, sleep_ms_anchor, NextChannel
<1>10. CASE jam_sleep_state
  BY <1>10 DEF jam_sleep_state, sleep_ms_anchor
<1>11. CASE Received
  <2>1. rx' \in BOOLEAN /\ tx' \in BOOLEAN /\ timer_active' \in BOOLEAN /\ busy' \in BOOLEAN
    BY <1>11, Zenon DEF Received, RfOff
  <2>3. paen' = paen
    BY <1>11 DEF Received, RfOff
  <2>2. state' \in {state, "SLEEP"} /\ sleep_start' \in Nat /\ sleep_duration' \in Nat
    BY <1>11, <1>0 DEF Received
  <2> QED BY <1>11, <2>1, <2>2, <2>3 DEF Received
<1>12. CASE ego_main
  <2>1. /\ running' \in BOOLEAN /\ locked' \in BOOLEAN
        /\ timer_active' \in BOOLEAN /\ packet_observed' \in BOOLEAN
    BY <1>12, Zenon DEF ego_main, Locals
  <2>2. requested_mode' \in {"MODE_IDLE", "MODE_EGO"}
    BY <1>12 DEF ego_main
  <2> QED BY <1>12, <2>1, <2>2 DEF ego_main, Locals
<1>13. CASE ego_deinit
  <2>1. /\ rx' \in BOOLEAN /\ tx' \in BOOLEAN /\ paen' \in BOOLEAN /\ running' \in BOOLEAN
        /\ timer_active' \in BOOLEAN /\ packet_observed' \in BOOLEAN
    BY <1>13, Zenon DEF ego_deinit, RadioStopped, RfOff, Locals
  <2> QED BY <1>13, <2>1 DEF ego_deinit, Locals
<1>14. CASE cc2400_idle
  BY <1>14 DEF cc2400_idle
<1>15. CASE EGO
  BY <1>15 DEF EGO
<1>16. CASE STOP
  BY <1>16 DEF STOP
<1>17. CASE Tick
  <2>1. onair' \in BOOLEAN
    BY <1>17, Zenon DEF Tick
  <2> QED BY <1>17, <2>1 DEF Tick
<1>18. CASE UNCHANGED vars
  BY <1>18 DEF vars
<1> QED
  BY <1>2, <1>3, <1>4, <1>5, <1>6, <1>7, <1>8, <1>9, <1>10, <1>11, <1>12, <1>13, <1>14, <1>15,
     <1>16, <1>17, <1>18 DEF Next, Handler

LEMMA RunsStep == EgoAssumption /\ EgoInv /\ [Next]_vars => RunsInMode'
<1> SUFFICES ASSUME EgoAssumption, EgoInv, [Next]_vars PROVE RunsInMode'
  OBVIOUS
<1> USE DEF EgoInv, TypeOK, RunsInMode, modes, sleep, radio, world, Handling
<1>1. CASE Handler
  <2>1. onair' => onair /\ time' = time
    BY <1>1 DEF Handler, init_state, start_rf_state, do_rx, cap_timeout, sleep_state,
                jam_cap_state, start_jamming_state, jamming_state, jam_sleep_state
  <2>2. UNCHANGED <<mode, running, ego_mode, time>>
    BY <1>1 DEF Handler, init_state, start_rf_state, do_rx, cap_timeout, sleep_state,
                jam_cap_state, start_jamming_state, jamming_state, jam_sleep_state
  <2>3. busy' => do_rx
    BY <1>1 DEF Handler, init_state, start_rf_state, do_rx, cap_timeout, sleep_state,
                jam_cap_state, start_jamming_state, jamming_state, jam_sleep_state
  <2> QED BY <2>1, <2>2, <2>3 DEF do_rx
<1>2. CASE Received
  BY <1>2 DEF Received
<1>3. CASE ego_main
  BY <1>3 DEF ego_main, Locals
<1>4. CASE ego_deinit
  BY <1>4 DEF ego_deinit, Locals
<1>5. CASE cc2400_idle \/ EGO \/ STOP
  BY <1>5 DEF cc2400_idle, EGO, STOP
<1>6. CASE Tick
  BY <1>6 DEF Tick
<1>7. CASE UNCHANGED vars
  BY <1>7 DEF vars
<1> QED BY <1>1, <1>2, <1>3, <1>4, <1>5, <1>6, <1>7 DEF Next
LEMMA JamsStep == EgoAssumption /\ Period = 11 /\ EgoInv /\ [Next]_vars => JamsInSlot'
<1> SUFFICES ASSUME EgoAssumption, Period = 11, EgoInv, [Next]_vars PROVE JamsInSlot'
  OBVIOUS
<1> USE DEF EgoInv, RunsInMode, modes, sleep, radio, world, Handling
<1>0. TypeOK /\ (Ago(0))' = time' % Wrap
  <2>1. time' \in Nat
    BY TypeStep DEF TypeOK
  <2> QED BY <2>1 DEF Ago
<1>1. CASE start_jamming_state
  <2>1. tx' = TRUE /\ paen' = TRUE /\ running' /\ state' = "JAMMING" /\ ~rx'
    BY <1>1 DEF start_jamming_state, JamsInSlot
  <2>2. sleep_start' = anchor' /\ sleep_duration' = 2
    BY <1>1 DEF start_jamming_state, sleep_ms_anchor
  <2>3. packet_observed' => anchor' = (Ago(0))'
    BY <1>1, <1>0 DEF start_jamming_state, JamsInSlot, Ago
  <2> QED BY <2>1, <2>2, <2>3 DEF JamsInSlot
<1>2. CASE jam_cap_state
  <2>1. state' = "START_JAMMING" /\ ~rx' /\ ~tx'
    BY <1>2 DEF jam_cap_state, RfOff
  <2>2. packet_observed' => sync_received /\ time' = time
    BY <1>2 DEF jam_cap_state
  <2>3. packet_observed' => anchor' = time' % Wrap
    BY <1>2, <2>2 DEF jam_cap_state, now
  <2> QED BY <2>1, <2>3, <1>0 DEF JamsInSlot
<1>3. CASE jamming_state \/ cap_timeout \/ ego_deinit
  <2>1. state' \notin {"START_JAMMING", "JAMMING"} /\ ~tx'
    <3>1. ~tx'
      BY <1>3, Zenon DEF jamming_state, cap_timeout, RfOff, ego_deinit, RadioStopped
    <3>2. state' \notin {"START_JAMMING", "JAMMING"}
      BY <1>3 DEF jamming_state, cap_timeout, ego_deinit, Locals
    <3> QED BY <3>1, <3>2
  <2> QED BY <2>1 DEF JamsInSlot
<1>4. CASE Received
  BY <1>4 DEF Received, JamsInSlot, RfOff
<1>5. CASE init_state \/ start_rf_state \/ do_rx \/ sleep_state \/ jam_sleep_state \/ ego_main
  <2>1. state' \notin {"START_JAMMING", "JAMMING"} /\ tx' = tx
    BY <1>5 DEF init_state, start_rf_state, do_rx, sleep_state, jam_sleep_state, ego_main, Locals
  <2> QED BY <2>1, <1>5 DEF JamsInSlot, init_state, start_rf_state, do_rx, sleep_state,
                            jam_sleep_state, ego_main
<1>6. CASE EGO \/ STOP \/ UNCHANGED vars
  BY <1>6 DEF EGO, STOP, vars, JamsInSlot, Ago
<1>7. CASE Tick
  <2>1. CASE state = "JAMMING" /\ packet_observed
    <3>1. PICK e \in 0 .. 2 : anchor = Ago(e)
      BY <2>1 DEF JamsInSlot
    <3>2. ~(Elapsed(now) >= 2) /\ sleep_start = Ago(e)
      BY <1>7, <2>1, <3>1 DEF Tick, Idle, sleep_elapsed, JamsInSlot
    <3>3. Elapsed(now) = e
      BY <3>2, <1>0, AgoElapsed
    <3>4. e + 1 \in 0 .. 2 /\ (time + 1) - (e + 1) = time - e
      BY <3>2, <3>3 DEF TypeOK
    <3>5. anchor' = (Ago(e + 1))'
      BY <3>1, <3>4, <1>7 DEF Tick, Ago
    <3>6. UNCHANGED <<tx, running, state, paen, rx, sleep_start, sleep_duration, anchor>>
      BY <1>7 DEF Tick
    <3>7. \E f \in 0 .. 2 : anchor' = (Ago(f))'
      BY <3>4, <3>5
    <3> QED BY <2>1, <3>6, <3>7 DEF JamsInSlot
  <2>2. CASE ~(state = "JAMMING" /\ packet_observed)
    <3>1. state # "START_JAMMING"
      BY <1>7 DEF Tick, Idle
    <3> QED BY <3>1, <2>2, <1>7 DEF Tick, JamsInSlot
  <2> QED BY <2>1, <2>2
<1>8. CASE cc2400_idle
  <2>1. ~tx' /\ ~rx'
    BY <1>8, Zenon DEF cc2400_idle
  <2> QED BY <1>8, <2>1 DEF cc2400_idle, JamsInSlot, Ago
<1> QED BY <1>1, <1>2, <1>3, <1>4, <1>5, <1>6, <1>7, <1>8 DEF Next, Handler
LEMMA InStepStep == EgoAssumption /\ Period = 11 /\ EgoInv /\ [Next]_vars => InStep'
<1> SUFFICES ASSUME EgoAssumption, Period = 11, EgoInv, [Next]_vars,
                    running', ego_mode' = "EGO_FOLLOW"
             PROVE  /\ state' # "INIT" => channel' = channels[channel_index']
                    /\ locked' => Step'
  BY DEF InStep
<1> USE DEF EgoInv, RunsInMode, modes, sleep, world, Handling
<1>0. TypeOK /\ TypeOK' /\ Phase \in 0 .. 10 /\ Slot \in Nat
  BY TypeStep, ModRange DEF TypeOK, Phase, Slot
<1>t. UNCHANGED time => UNCHANGED <<Slot, Phase>>
  BY DEF Slot, Phase
<1>m. time' = time + 1 =>
        IF Phase = 10 THEN Phase' = 0 /\ Slot' = Slot + 1 ELSE Phase' = Phase + 1 /\ Slot' = Slot
  BY <1>0, NextMs DEF Slot, Phase, TypeOK
<1>a. ASSUME time' = time + 1, UNCHANGED sleep, NEW e \in Int, NEW d, SleepsFor(e, d)
      PROVE  sleep_start' = (time' - (e + 1)) % Wrap /\ sleep_duration' = d
  <2>1. (time + 1) - (e + 1) = time - e
    BY <1>0 DEF TypeOK
  <2> QED BY <1>a, <2>1 DEF SleepsFor, Ago
<1>1. CASE do_rx
  <2>1. running /\ ego_mode = "EGO_FOLLOW" /\ state = "CAP" /\ onair /\ rx /\ channel = Sending
    BY <1>1 DEF do_rx, sync_received
  <2>2. Phase = 0 /\ channel = channels[channel_index] /\ Sending = channels[(board + Slot) % 4]
    BY <2>1 DEF InStep, Phase, Sending, Slot
  <2>3. channel_index = (board + Slot) % 4
    <3>1. (board + Slot) % 4 \in 0 .. 3 /\ channel_index \in 0 .. 3
      BY <1>0, ModRange DEF TypeOK
    <3> QED BY <3>1, <2>1, <2>2, ChannelsDiffer
  <2> QED BY <1>1, <2>1, <2>2, <2>3, <1>t DEF do_rx, Step, ListensTo, radio
<1>2. CASE Received
  <2>1. running /\ ego_mode = "EGO_FOLLOW" /\ busy /\ state = "CAP" /\ time' = time + 1
    BY <1>2 DEF Received
  <2>2. (locked => Phase = 0 /\ ListensTo(Slot)) /\ channel = channels[channel_index]
    BY <2>1 DEF InStep, Step
  <2>3. state' = "SLEEP" /\ ~busy' /\ sleep_start' = (Ago(0))' /\ sleep_duration' = 6
    BY <1>2, <2>1, <1>0 DEF Received, Ago, TypeOK
  <2>4. locked' => Phase' = 1 /\ Slot' = Slot /\ (ListensTo(Slot))'
    BY <1>2, <2>1, <2>2, <1>m DEF Received, ListensTo
  <2>5. locked' => Phase' \in 1 .. 7 /\ (SleepsFor(Phase - 1, 7 - 1))'
    BY <2>3, <2>4 DEF SleepsFor
  <2> QED BY <1>2, <2>2, <2>3, <2>4, <2>5 DEF Received, Step
<1>3. CASE cap_timeout
  <2>1. locked => Elapsed(now) >= 7
    BY <1>3 DEF cap_timeout, InStep, Step, SleepsFor, sleep_elapsed
  <2>2. ASSUME locked PROVE Phase = 3 /\ ListensTo(Slot)
    <3>1. \/ Phase \in 7 .. 10 /\ sleep_start = Ago(Phase - 7)
          \/ Phase \in 0 .. 3 /\ sleep_start = Ago(Phase + 4) /\ ListensTo(Slot)
      BY <2>2, <1>3 DEF cap_timeout, InStep, Step, SleepsFor
    <3>2. CASE Phase \in 7 .. 10 /\ sleep_start = Ago(Phase - 7)
      <4>1. Phase - 7 \in 0 .. 21 /\ Phase - 7 < 7
        BY <3>2
      <4>2. Elapsed(now) = Phase - 7
        BY <4>1, <3>2, <1>0, AgoElapsed
      <4> QED BY <4>1, <4>2, <2>1, <2>2
    <3>3. CASE Phase \in 0 .. 3 /\ sleep_start = Ago(Phase + 4) /\ ListensTo(Slot)
      <4>1. Phase + 4 \in 0 .. 21
        BY <3>3
      <4>2. Elapsed(now) = Phase + 4
        BY <4>1, <3>3, <1>0, AgoElapsed
      <4> QED BY <4>2, <3>3, <2>1, <2>2
    <3> QED BY <3>1, <3>2, <3>3
  <2>3. /\ state' = "SLEEP" /\ ~busy' /\ UNCHANGED <<time, board, channel_index, channel, locked>>
        /\ sleep_start' = time % Wrap /\ sleep_duration' = 4
    BY <1>3 DEF cap_timeout, sleep_ms, now
  <2>4. (Ago(0))' = time % Wrap
    BY <2>3, <1>0 DEF Ago, TypeOK
  <2>5. locked' => Phase' = 3 /\ (ListensTo(Slot))'
    BY <2>2, <2>3, <1>t DEF ListensTo
  <2>6. locked' => Phase' \in 3 .. 7 /\ (SleepsFor(Phase - 3, 7 - 3))'
    BY <2>3, <2>4, <2>5 DEF SleepsFor
  <2>7. channel' = channels[channel_index']
    BY <1>3, <2>3 DEF cap_timeout, InStep
  <2> QED BY <2>3, <2>5, <2>6, <2>7 DEF Step
<1>4. CASE sleep_state
  <2>1. ASSUME locked PROVE Phase = 7 /\ ListensTo(Slot)
    <3>1. PICK a \in {1, 3} : Phase \in a .. 7 /\ SleepsFor(Phase - a, 7 - a) /\ ListensTo(Slot)
      BY <2>1, <1>4 DEF sleep_state, InStep, Step
    <3>2. Phase - a \in 0 .. 21
      BY <3>1
    <3>3. Elapsed(now) = Phase - a
      BY <3>1, <3>2, <1>0, AgoElapsed DEF SleepsFor
    <3>4. Elapsed(now) >= 7 - a
      BY <3>1, <1>4 DEF sleep_state, sleep_elapsed, SleepsFor
    <3> QED BY <3>1, <3>3, <3>4
  <2>2. /\ state' = "START_RX" /\ ~busy' /\ UNCHANGED <<time, board, locked>>
        /\ channel_index' = (channel_index + 1) % 4 /\ channel' = channels[channel_index']
        /\ sleep_start' = time % Wrap /\ sleep_duration' = 7
    BY <1>4 DEF sleep_state, sleep_ms, now, Window, NextChannel
  <2>3. (Ago(0))' = time % Wrap
    BY <2>2, <1>0 DEF Ago, TypeOK
  <2>4. locked' => Phase' = 7 /\ (ListensTo(Slot + 1))'
    BY <2>1, <2>2, <1>t, <1>0, NextListensTo DEF ListensTo, TypeOK
  <2> QED BY <2>2, <2>3, <2>4 DEF Step, SleepsFor
<1>5. CASE init_state
  <2>1. ~locked'
    BY <1>5 DEF init_state, InStep, Step
  <2> QED BY <2>1, <1>5 DEF init_state
<1>6. CASE start_rf_state
  <2>1. channel' = channels[channel_index'] /\ state' = "CAP" /\ ~busy' /\ rx'
    BY <1>6 DEF start_rf_state, InStep
  <2>2. UNCHANGED <<time, board, channel_index, locked, sleep_start, sleep_duration>>
    BY <1>6 DEF start_rf_state
  <2>3. locked => Phase = 7 /\ SleepsFor(0, 7) /\ ListensTo(Slot + 1)
    BY <1>6 DEF start_rf_state, InStep, Step
  <2>4. locked' => Phase' \in 7 .. 10 /\ (SleepsFor(Phase - 7, 7))' /\ (ListensTo(Slot + 1))'
    BY <2>2, <2>3, <1>t DEF SleepsFor, ListensTo, Ago
  <2> QED BY <2>1, <2>4 DEF Step
<1>7. CASE start_jamming_state \/ jamming_state
  <2>1. ~locked' /\ state' # "INIT"
    <3>1. /\ running /\ ego_mode = "EGO_FOLLOW" /\ state \in {"START_JAMMING", "JAMMING"}
          /\ state' # "INIT" /\ locked' = locked
      BY <1>7 DEF start_jamming_state, jamming_state
    <3> QED BY <3>1 DEF InStep, Step
  <2> QED BY <2>1, <1>7 DEF start_jamming_state, jamming_state, NextChannel, InStep
<1>8. CASE jam_cap_state \/ jam_sleep_state \/ ego_deinit \/ cc2400_idle \/ EGO
  BY <1>8 DEF jam_cap_state, jam_sleep_state, ego_deinit, cc2400_idle, EGO
<1>9. CASE ego_main
  BY <1>9 DEF ego_main, Locals
<1>10. CASE STOP \/ UNCHANGED vars
  <2>1. /\ UNCHANGED <<running, ego_mode, state, channel_index, channel, locked, busy, rx, time>>
        /\ UNCHANGED <<board, sleep_start, sleep_duration>>
    BY <1>10 DEF STOP, vars, radio
  <2> QED BY <2>1, <1>t DEF InStep, Step, SleepsFor, ListensTo, Ago
<1>11. CASE Tick
  <2>1. /\ running /\ ego_mode = "EGO_FOLLOW" /\ ~busy /\ Idle /\ time' = time + 1
        /\ UNCHANGED <<state, channel_index, channel, locked, busy, rx, board>>
        /\ UNCHANGED <<sleep_start, sleep_duration>>
    BY <1>11 DEF Tick, radio
  <2>2. CASE ~locked
    BY <2>1, <2>2 DEF InStep
  <2>3. CASE locked /\ state = "SLEEP"
    <3>1. PICK a \in {1, 3} : Phase \in a .. 7 /\ SleepsFor(Phase - a, 7 - a) /\ ListensTo(Slot)
      BY <2>1, <2>3 DEF InStep, Step
    <3>2. Phase - a \in 0 .. 21
      BY <3>1
    <3>3. Elapsed(now) = Phase - a
      BY <3>1, <3>2, <1>0, AgoElapsed DEF SleepsFor
    <3>4. Phase + 1 \in a .. 7 /\ Phase # 10
      BY <3>1, <3>3, <2>1, <2>3 DEF Idle, sleep_elapsed, SleepsFor
    <3>5. Phase' = Phase + 1 /\ Slot' = Slot /\ Phase' - a = (Phase - a) + 1
      BY <3>2, <3>4, <2>1, <1>m, <1>0
    <3>6. (SleepsFor(Phase - a, 7 - a))'
      BY <3>1, <3>2, <3>5, <2>1, <1>a DEF SleepsFor, Ago
    <3>7. (\E b \in {1, 3} : Phase \in b .. 7 /\ SleepsFor(Phase - b, 7 - b))'
      BY <3>4, <3>5, <3>6
    <3>8. (ListensTo(Slot))'
      BY <3>1, <3>5, <2>1 DEF ListensTo
    <3> QED BY <2>1, <2>3, <3>7, <3>8 DEF Step, InStep
  <2>4. CASE locked /\ state = "CAP"
    <3>1. ~(Elapsed(now) >= 7) /\ rx
      BY <2>1, <2>4 DEF Idle, sleep_elapsed, InStep, Step, SleepsFor
    <3>2. CASE Phase \in 7 .. 10 /\ SleepsFor(Phase - 7, 7) /\ ListensTo(Slot + 1)
      <4>1. Phase - 7 + 1 = Phase - 6 /\ Phase - 7 \in Int
        BY <3>2
      <4>2. sleep_start' = (time' - (Phase - 6)) % Wrap /\ sleep_duration' = 7
        BY <3>2, <4>1, <2>1, <1>a
      <4>3. CASE Phase = 10
        <5>1. Phase' = 0 /\ Slot' = Slot + 1 /\ Phase - 6 = Phase' + 4
          BY <4>3, <2>1, <1>m
        <5>2. (SleepsFor(Phase + 4, 7))' /\ (ListensTo(Slot))'
          BY <5>1, <4>2, <3>2, <2>1 DEF SleepsFor, Ago, ListensTo
        <5> QED BY <5>1, <5>2, <3>1, <2>1, <2>4 DEF Step, InStep
      <4>4. CASE Phase # 10
        <5>1. Phase' \in 7 .. 10 /\ Slot' = Slot /\ Phase - 6 = Phase' - 7
          BY <4>4, <3>2, <2>1, <1>m
        <5>2. (SleepsFor(Phase - 7, 7))' /\ (ListensTo(Slot + 1))'
          BY <5>1, <4>2, <3>2, <2>1 DEF SleepsFor, Ago, ListensTo
        <5> QED BY <5>1, <5>2, <3>1, <2>1, <2>4 DEF Step, InStep
      <4> QED BY <4>3, <4>4
    <3>3. CASE Phase \in 0 .. 3 /\ SleepsFor(Phase + 4, 7) /\ ListensTo(Slot)
      <4>1. Phase + 4 \in 0 .. 21 /\ Phase + 4 \in Int
        BY <3>3
      <4>2. Elapsed(now) = Phase + 4
        BY <4>1, <3>3, <1>0, AgoElapsed DEF SleepsFor
      <4>3. Phase' \in 0 .. 3 /\ Slot' = Slot /\ Phase' + 4 = (Phase + 4) + 1
        BY <4>2, <3>1, <3>3, <2>1, <1>m
      <4>4. (SleepsFor(Phase + 4, 7))' /\ (ListensTo(Slot))'
        BY <4>1, <4>3, <3>3, <2>1, <1>a DEF SleepsFor, Ago, ListensTo
      <4> QED BY <4>3, <4>4, <3>1, <2>1, <2>4 DEF Step, InStep
    <3> QED BY <3>2, <3>3, <2>1, <2>4 DEF InStep, Step
  <2> QED BY <2>1, <2>2, <2>3, <2>4 DEF Idle, InStep, Step
<1> QED BY <1>1, <1>2, <1>3, <1>4, <1>5, <1>6, <1>7, <1>8, <1>9, <1>10, <1>11 DEF Next, Handler

LEMMA Invariance == EgoAssumption /\ Period = 11 /\ Spec => []EgoInv
<1> SUFFICES ASSUME EgoAssumption, Period = 11 PROVE Spec => []EgoInv
  OBVIOUS
<1>1. Init => EgoInv
  BY InitInv
<1>2. EgoInv /\ [Next]_vars => EgoInv'
  BY TypeStep, RunsStep, JamsStep, InStepStep DEF EgoInv
<1> QED BY <1>1, <1>2, PTL DEF Spec

(* KeepsUp, of the skateboard that ego.c is written for: whichever packets *)
(* are lost, for as long as cap_state() and sleep_state() run, the receiver *)
(* is on the right channel when the next one begins.                       *)
THEOREM FollowerKeepsUp == EgoAssumption /\ Period = 11 /\ Spec => []KeepsUp
<1> SUFFICES ASSUME EgoAssumption, Period = 11 PROVE Spec => []KeepsUp
  OBVIOUS
<1>1. EgoInv => KeepsUp
  <2> SUFFICES ASSUME EgoInv, running, ego_mode = "EGO_FOLLOW", locked, onair
               PROVE  rx /\ state = "CAP" /\ channel = Sending
    BY DEF KeepsUp
  <2>1. Phase = 0 /\ Step
    BY DEF EgoInv, RunsInMode, InStep, Phase
  <2>2. rx /\ state = "CAP" /\ ListensTo(Slot)
    BY <2>1 DEF Step
  <2> QED BY <2>2 DEF EgoInv, InStep, ListensTo, Sending, Slot
<1> QED BY <1>1, Invariance, PTL

(* The transmitter is on in JAMMING, with the receiver off, and after a    *)
(* packet for 2 ms from its beginning, on either side of the moment at     *)
(* which CLK100NS begins again.                                            *)
LEMMA JammerInSlot == EgoAssumption /\ Period = 11 /\ EgoInv => TransmitsInSlot
<1> SUFFICES ASSUME EgoAssumption, Period = 11, EgoInv, tx PROVE
      running /\ state = "JAMMING" /\ ~rx /\ paen /\ (packet_observed => (now - anchor) % Wrap <= 2)
  BY DEF TransmitsInSlot
<1>1. running /\ state = "JAMMING" /\ ~rx /\ paen
  BY DEF EgoInv, JamsInSlot
<1>2. ASSUME packet_observed PROVE (now - anchor) % Wrap <= 2
  <2>1. PICK e \in 0 .. 2 : anchor = Ago(e)
    BY <1>1, <1>2 DEF EgoInv, JamsInSlot
  <2>2. Wrap \in Nat \ {0} /\ e \in 0 .. Wrap - 1 /\ time \in Nat
    BY DEF EgoAssumption, EgoInv, TypeOK
  <2>3. (now - anchor) % Wrap = e
    BY <2>1, <2>2, ClockDifference DEF now, Ago
  <2> QED BY <2>3
<1> QED BY <1>1, <1>2

(* What the run of the radio checks of the E-GO modes: the follower is in  *)
(* step with the skateboard, the jammer in its slot.                       *)
THEOREM KeptInStep == EgoAssumption /\ Period = 11 /\ Spec => []EgoInStep
<1> SUFFICES ASSUME EgoAssumption, Period = 11 PROVE Spec => []EgoInStep
  OBVIOUS
<1>1. EgoInv => TransmitsInSlot
  BY JammerInSlot
<1> QED BY <1>1, FollowerKeepsUp, Invariance, PTL DEF EgoInStep
=============================================================================
