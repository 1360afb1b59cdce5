--------------------------- MODULE LeFollowProofs ---------------------------
(***************************************************************************)
(* That a low energy connection is followed, for any connection and any    *)
(* values of the constants: LeInv is inductive, and the runs' invariants   *)
(* follow from it.                                                         *)
(*                                                                         *)
(* LeInv is a conjunction, each part of it proved from those before it:    *)
(* the types; AirInv, of the connection alone; ListenInv, of the loop and  *)
(* its link; LinkInv, the hops' increment; and FollowInv, the countdown.   *)
(* What FollowInv says of a link that is followed has three cases: Kept,   *)
(* the countdown ends with the last unit before the next event, but for    *)
(* what a change of the interval puts it ahead; Applying, the first event  *)
(* of a new interval has begun and its packet, which restarts the          *)
(* countdown, is awaited; Unapplied, that packet was missed (and the link  *)
(* is lost with the next event).                                           *)
(***************************************************************************)
EXTENDS LeFollow, ModFacts

(* The constants. *)
LEMMA Constants ==
  /\ DataChannels \in Nat /\ DataChannels > 1 /\ AdvChannels \in Nat /\ AdvChannels > 0
  /\ DataChannels \in AdvChannel /\ Requested \subseteq AdvChannel
  /\ Width \in Nat /\ Width > 1 /\ Width > MaxAhead + 1
  /\ MaxOffset \in Nat /\ MaxAhead \in Nat /\ InstantLimit \in Nat /\ MaxAhead < InstantLimit
  /\ JamCount \in Nat /\ ByteModulus \in Nat \ {0}
  /\ 0 \in DataChannel /\ 0 \in Count
  BY ChannelAssumption, IntervalAssumption, WidthAssumption DEF AdvChannel, DataChannel, Count

LEMMA IntervalFacts ==
  \A i \in Intervals : i \in Nat /\ i > MaxOffset + 2 /\ i < Width /\ i \in Count
  BY IntervalAssumption, WidthAssumption DEF Count

LEMMA NextChannel ==
  ASSUME NEW c \in DataChannel, NEW inc \in Increments
  PROVE  NextIdx(c, inc) \in DataChannel /\ NextIdx(c, inc) # c
<1>1. c + inc \in Int /\ DataChannels \in Nat \ {0} /\ c \in Int
  BY Constants DEF DataChannel, Increments
<1>2. NextIdx(c, inc) \in DataChannel
  BY <1>1, ModRangeInt DEF NextIdx, DataChannel
<1>3. ASSUME NextIdx(c, inc) = c PROVE FALSE
  <2>1. c % DataChannels = c
    BY <1>1, ModOfSmall DEF DataChannel
  <2> DEFINE b == c + inc
  <2>2. b \in Int /\ b - c < DataChannels /\ c - b < DataChannels /\ b # c
    BY <1>1 DEF DataChannel, Increments
  <2>3. b % DataChannels = c % DataChannels
    BY <1>3, <2>1 DEF NextIdx
  <2> HIDE DEF b
  <2> QED BY <1>1, <2>2, <2>3, ModDistinct
<1> QED BY <1>2, <1>3

LEMMA NextChannelIndex ==
  ASSUME NEW c \in DataChannel \cup AdvChannel, NEW inc \in DataChannel
  PROVE  NextIdx(c, inc) \in DataChannel
<1>1. c + inc \in Int /\ DataChannels \in Nat \ {0}
  BY Constants DEF DataChannel, AdvChannel
<1> QED BY <1>1, ModRangeInt DEF NextIdx, DataChannel

LEMMA CountRange ==
  \A n \in Int : n % Width \in Count
<1>1. Width \in Nat \ {0}
  BY Constants
<1> QED BY <1>1, ModRangeInt DEF Count

LEMMA NoUpdateType == NoUpdate \in Updates
  BY DEF Updates

LEMMA SilentType == Silent \in Connections
  BY Constants, NoUpdateType DEF Silent, Connections, DataChannel, Increments, NoEvent

-----------------------------------------------------------------------------
(* Types.                                                                  *)

Host ==
  /\ requested_mode \in {"idle", "follow"} /\ hop_mode \in {"none", "btle"}
  /\ jam_mode \in {"none", "once", "continuous"} /\ meddling \in Nat
  /\ requested_channel \in Requested \cup {NoChannel}

Radio ==
  /\ saved_request \in Requested \cup {NoChannel}
  /\ channel \in DataChannel \cup AdvChannel
  /\ channel_idx \in DataChannel /\ channel_increment \in DataChannel
  /\ do_hop \in BOOLEAN /\ receiving \in BOOLEAN

Link ==
  /\ link_state \in {"INACTIVE", "LISTENING", "CONN_PENDING", "CONNECTED"}
  /\ aa \in {"adv", "mine"} /\ le_jam_count \in Nat /\ age \in {"fresh", "recent", "old"}
  /\ interval_timer \in Count /\ conn_interval \in Count /\ conn_count \in Count
  /\ update \in Updates

World ==
  /\ air \in Connections /\ onair \in {"none", "adv", "connect", "data", "update"}
  /\ due \in BOOLEAN

Past ==
  /\ heard \in BOOLEAN /\ late \in BOOLEAN /\ blind \in BOOLEAN /\ meddled \in BOOLEAN
  /\ cut \in BOOLEAN /\ leftover \in BOOLEAN

Places == {"off", "head", "wait", "packet", "flush", "resume", "cleanup"}

LEMMA TypeParts == TypeOK <=> pc \in Places /\ Host /\ Radio /\ Link /\ World /\ Past
  BY DEF TypeOK, Places, Host, Radio, Link, World, Past

LEMMA TypePartsNext ==
  TypeOK' <=> pc' \in Places /\ Host' /\ Radio' /\ Link' /\ World' /\ Past'
  BY DEF TypeOK, Places, Host, Radio, Link, World, Past

(* What is left alone keeps its type. *)
LEMMA TypeFrame ==
  ASSUME TypeOK
  PROVE  /\ UNCHANGED requests => Host'
         /\ UNCHANGED <<saved_request, hopping, receiving>> => Radio'
         /\ UNCHANGED <<link_state, aa, interval, le_jam_count, age>> => Link'
         /\ UNCHANGED world => World'
         /\ UNCHANGED history => Past'
<1> USE TypeParts
<1>1. UNCHANGED requests => Host'
  BY DEF Host, requests
<1>2. UNCHANGED <<saved_request, hopping, receiving>> => Radio'
  BY DEF Radio, hopping
<1>3. UNCHANGED <<link_state, aa, interval, le_jam_count, age>> => Link'
  BY DEF Link, interval
<1>4. UNCHANGED world => World'
  BY DEF World, world
<1>5. UNCHANGED history => Past'
  BY DEF Past, history
<1> QED BY <1>1, <1>2, <1>3, <1>4, <1>5

LEMMA TypeInit == Init => TypeOK
<1> SUFFICES ASSUME Init PROVE TypeOK
  OBVIOUS
<1>1. Host
  BY DEF Init, Host
<1>2. Radio
  BY Constants DEF Init, Radio
<1>3. Link
  BY Constants, NoUpdateType DEF Init, Link
<1>4. World
  BY SilentType DEF Init, World
<1>5. Past
  BY DEF Init, Past
<1> QED BY <1>1, <1>2, <1>3, <1>4, <1>5, TypeParts DEF Init, Places

LEMMA ResetType ==
  ASSUME reset_le
  PROVE  /\ aa' \in {"adv", "mine"} /\ age' \in {"fresh", "recent", "old"}
         /\ channel_idx' \in DataChannel /\ channel_increment' \in DataChannel
         /\ interval_timer' \in Count /\ conn_interval' \in Count /\ conn_count' \in Count
         /\ update' \in Updates /\ do_hop' \in BOOLEAN
  BY Constants, NoUpdateType DEF reset_le

(* What an event that begins does to the connection. *)
LEMMA EventFacts ==
  ASSUME TypeOK, EventBegins
  PROVE  /\ ~due /\ onair = "none" /\ air.next = 1 /\ due' = TRUE /\ heard' = FALSE
         /\ UNCHANGED <<pc, receiver, late, cut, meddled, leftover>>
         /\ Followable /\ (pc = "off" \/ (pc = "wait" /\ ~do_hop))
         /\ \E change \in Updates :
              LET event  == air.event + 1
                  starts == air.change # NoUpdate /\ air.change.instant = event % Width
                  length == IF starts THEN air.change.interval ELSE air.interval
                  rest   == IF starts THEN NoUpdate ELSE air.change
                  last   == rest # NoUpdate /\ rest.instant = (event + 1) % Width
              IN  /\ change = rest \/ (~air.changed /\ change \in Announcements(event))
                  /\ air' = [air EXCEPT !.idx = NextIdx(@, air.inc), !.event = event,
                              !.anchor = TRUE,
                              !.next = length + IF last THEN rest.offset ELSE 0,
                              !.interval = length, !.switched = starts, !.change = change,
                              !.changed = @ \/ change # rest]
                  /\ onair' = IF change = rest THEN "data" ELSE "update"
                  /\ blind' = (blind \/ (air.switched /\ ~heard) \/ (starts /\ late)
                                 \/ (change # rest /\ Misread(change.instant, event)))
<1> DEFINE event  == air.event + 1
           starts == air.change # NoUpdate /\ air.change.instant = event % Width
           length == IF starts THEN air.change.interval ELSE air.interval
           rest   == IF starts THEN NoUpdate ELSE air.change
           last   == rest # NoUpdate /\ rest.instant = (event + 1) % Width
           New(c) == [air EXCEPT !.idx = NextIdx(@, air.inc), !.event = event, !.anchor = TRUE,
                                 !.next = length + IF last THEN rest.offset ELSE 0,
                                 !.interval = length, !.switched = starts, !.change = c,
                                 !.changed = @ \/ c # rest]
<1>1. PICK change \in {rest} \cup (IF air.changed THEN {} ELSE Announcements(event)) :
        /\ air' = New(change)
        /\ onair' = IF change = rest THEN "data" ELSE "update"
  BY Zenon DEF EventBegins
<1>2. blind' = (blind \/ (air.switched /\ ~heard) \/ (starts /\ late)
                   \/ (air'.change # rest /\ Misread(air'.change.instant, event)))
  BY Zenon DEF EventBegins
<1>3. air \in Connections
  BY DEF TypeOK
<1>4. air'.change = change
  BY <1>1, <1>3 DEF Connections
<1>5. change \in Updates
  <2>1. rest \in Updates
    BY <1>3, NoUpdateType DEF Connections
  <2>2. Announcements(event) \subseteq Updates
    <3> SUFFICES ASSUME NEW d \in 2 .. MaxAhead, NEW i \in Intervals, NEW o \in 0 .. MaxOffset
                 PROVE  [instant |-> (event + d) % Width, interval |-> i, offset |-> o] \in Updates
      BY DEF Announcements
    <3>1. event + d \in Int
      BY <1>3, Constants DEF Connections, NoEvent
    <3> QED BY <3>1, CountRange DEF Updates
  <2> QED BY <2>1, <2>2
<1>6. change = rest \/ (~air.changed /\ change \in Announcements(event))
  OBVIOUS
<1>7. /\ ~due /\ onair = "none" /\ air.next = 1 /\ due' = TRUE /\ heard' = FALSE
      /\ UNCHANGED <<pc, receiver, late, cut, meddled, leftover>>
      /\ Followable /\ (pc = "off" \/ (pc = "wait" /\ ~do_hop))
  BY DEF EventBegins, UnitPasses
<1> QED BY <1>1, <1>2, <1>4, <1>5, <1>6, <1>7, Zenon

LEMMA EventType ==
  ASSUME TypeOK, EventBegins
  PROVE  air' \in Connections /\ onair' \in {"data", "update"} /\ blind' \in BOOLEAN
<1> DEFINE event  == air.event + 1
           starts == air.change # NoUpdate /\ air.change.instant = event % Width
           length == IF starts THEN air.change.interval ELSE air.interval
           rest   == IF starts THEN NoUpdate ELSE air.change
           last   == rest # NoUpdate /\ rest.instant = (event + 1) % Width
           next   == length + IF last THEN rest.offset ELSE 0
<1>1. PICK change \in Updates :
        /\ air' = [air EXCEPT !.idx = NextIdx(@, air.inc), !.event = event, !.anchor = TRUE,
                              !.next = next, !.interval = length, !.switched = starts,
                              !.change = change, !.changed = @ \/ change # rest]
        /\ onair' = IF change = rest THEN "data" ELSE "update"
        /\ blind' = (blind \/ (air.switched /\ ~heard) \/ (starts /\ late)
                        \/ (change # rest /\ Misread(change.instant, event)))
  BY EventFacts, Zenon
<1>2. air \in Connections
  BY DEF TypeOK
<1>3. event \in Nat
  BY <1>2 DEF Connections, NoEvent
<1>4. length \in Intervals \cup {1}
  BY <1>2 DEF Connections, Updates
<1>5. next \in Nat \ {0}
  <2>1. length \in Nat \ {0}
    BY <1>4, IntervalFacts, Constants
  <2>2. last => rest.offset \in Nat
    BY <1>2, Constants DEF Connections, Updates
  <2> HIDE DEF length, last, rest
  <2> QED BY <2>1, <2>2
<1>6. NextIdx(air.idx, air.inc) \in DataChannel
  BY <1>2, NextChannel DEF Connections
<1>7. starts \in BOOLEAN /\ (air.changed \/ change # rest) \in BOOLEAN
  BY <1>2 DEF Connections
<1> HIDE DEF event, starts, length, rest, last, next
<1>8. air' \in Connections
  BY <1>1, <1>2, <1>3, <1>4, <1>5, <1>6, <1>7 DEF Connections
<1>9. blind' \in BOOLEAN
  BY <1>1, Zenon
<1> QED BY <1>1, <1>8, <1>9

(* Time, and the connection on the air. *)
LEMMA TypeAir ==
  ASSUME TypeOK, Air \/ ConnectionEnds \/ Silence \/ Miss
  PROVE  TypeOK'
<1>0. pc \in Places /\ Host /\ Radio /\ Link /\ World /\ Past
  BY TypeParts
<1>1. pc' = pc /\ UNCHANGED receiver
  BY DEF Air, Idle, Connect, EventGoesOn, EventBegins, UnitPasses, ConnectionEnds, Silence,
         Miss
<1>2. age' \in {"fresh", "recent", "old"}
  BY <1>0 DEF Air, Idle, Connect, EventGoesOn, EventBegins, UnitPasses, ConnectionEnds, Silence,
              Miss, Aged, Link
<1>3. Host' /\ Radio' /\ Link'
  BY <1>0, <1>1, <1>2 DEF Host, Radio, Link, receiver, requests, hopping, interval
<1>4. World' /\ Past'
  <2>1. CASE Idle
    <3>1. /\ air' = Silent /\ onair' \in {"none", "adv"} /\ due' = TRUE
          /\ heard' = FALSE /\ late' = FALSE /\ blind' = FALSE /\ cut' = FALSE
          /\ UNCHANGED <<meddled, leftover>>
      BY <2>1 DEF Idle, UnitPasses, NoConnection
    <3> QED BY <1>0, <3>1, SilentType DEF World, Past
  <2>2. CASE Connect
    <3>1. PICK inc \in Increments, i \in Intervals : \E wait \in 1 .. i :
            air' = [Silent EXCEPT !.on = TRUE, !.inc = inc, !.interval = i, !.next = wait]
            /\ cut' = (i >= ByteModulus)
      BY <2>2, Zenon DEF Connect
    <3>2. PICK wait \in 1 .. i :
            air' = [Silent EXCEPT !.on = TRUE, !.inc = inc, !.interval = i, !.next = wait]
            /\ cut' = (i >= ByteModulus)
      BY <3>1
    <3>3. wait \in Nat \ {0}
      BY IntervalFacts
    <3>4. air' \in Connections
      BY <3>2, <3>3, SilentType DEF Connections
    <3>5. cut' \in BOOLEAN
      BY <3>2
    <3> QED BY <1>0, <2>2, <3>4, <3>5 DEF Connect, UnitPasses, World, Past
  <2>3. CASE EventGoesOn
    <3>1. air' = [air EXCEPT !.next = @ - 1, !.anchor = FALSE] /\ air.next > 1
      BY <2>3 DEF EventGoesOn
    <3>2. air \in Connections /\ air.next - 1 \in Nat \ {0}
      BY <1>0, <3>1 DEF World, Connections
    <3>4. air' \in Connections
      BY <3>1, <3>2 DEF Connections
    <3>3. onair' \in {"none", "data"} /\ due' = TRUE
          /\ UNCHANGED <<heard, late, blind, cut, meddled, leftover>>
      BY <2>3 DEF EventGoesOn, UnitPasses
    <3> QED BY <1>0, <3>3, <3>4 DEF World, Past
  <2>4. CASE EventBegins
    <3>1. /\ air' \in Connections /\ onair' \in {"data", "update"} /\ blind' \in BOOLEAN
          /\ heard' = FALSE /\ due' = TRUE /\ UNCHANGED <<late, cut, meddled, leftover>>
      BY <2>4, EventFacts, EventType
    <3> QED BY <1>0, <3>1 DEF World, Past
  <2>5. CASE ConnectionEnds
    BY <1>0, <2>5, SilentType DEF ConnectionEnds, NoConnection, World, Past
  <2>6. CASE Silence
    BY <1>0, <2>6 DEF Silence, World, Past, world, history
  <2>7. CASE Miss
    <3>1. onair' = "none" /\ UNCHANGED <<air, due, heard, late, meddled, cut, leftover>>
      BY <2>7 DEF Miss
    <3>2. blind' \in BOOLEAN
      BY <2>7 DEF Miss
    <3> QED BY <1>0, <3>1, <3>2 DEF World, Past
  <2> QED BY <2>1, <2>2, <2>3, <2>4, <2>5, <2>6, <2>7 DEF Air
<1> QED BY <1>0, <1>1, <1>3, <1>4, TypePartsNext

(* The interrupts. *)
LEMMA TypeInterrupts ==
  ASSUME TypeOK, TIMER0_IRQHandler \/ Sniff \/ SetChannel \/ Stop \/ JamMode
  PROVE  TypeOK'
<1>0. pc \in Places /\ Host /\ Radio /\ Link /\ World /\ Past
  BY TypeParts
<1>1. CASE TIMER0_IRQHandler
  <2>1. interval_timer' \in Count /\ conn_count' \in Count
    <3>1. (interval_timer - 1) % Width \in Count /\ (conn_count + 1) % Width \in Count
      BY <1>0, CountRange, Constants DEF Link, Count
    <3> QED BY <1>0, <1>1, <3>1 DEF TIMER0_IRQHandler, Link, Reload
  <2>2. do_hop' \in BOOLEAN
    <3>1. do_hop' \in CASE Counts           -> {do_hop \/ (interval_timer - 1) % Width = 0}
                       [] hop_mode = "none" -> {do_hop, TRUE}
                       [] OTHER             -> {do_hop}
      BY <1>1, Zenon DEF TIMER0_IRQHandler
    <3>2. do_hop \in BOOLEAN
      BY <1>0 DEF Radio
    <3> QED BY <3>1, <3>2
  <2>3. age' \in {"fresh", "recent", "old"}
    BY <1>0, <1>1 DEF TIMER0_IRQHandler, Aged, Link
  <2>4. /\ due' = FALSE
        /\ UNCHANGED <<pc, requests, saved_request, channel, channel_idx, channel_increment,
                       link_state, aa, conn_interval, update, le_jam_count, receiving, air,
                       onair, history>>
    BY <1>1 DEF TIMER0_IRQHandler
  <2> QED BY <1>0, <2>1, <2>2, <2>3, <2>4, TypePartsNext, TypeFrame DEF Radio, Link, World
<1>2. CASE Sniff \/ Stop \/ JamMode
  <2>1. UNCHANGED <<pc, saved_request, channel, channel_idx, channel_increment, receiving,
                    link_state, aa, interval, le_jam_count, age, world, heard, late, blind,
                    cut, leftover>>
    BY <1>2 DEF Sniff, Stop, JamMode, hopping, history
  <2>2. Host'
    BY <1>0, <1>2 DEF Sniff, Stop, JamMode, Meddle, Host
  <2>3. do_hop' \in BOOLEAN
    BY <1>0, <1>2 DEF Sniff, Stop, JamMode, Radio, hopping
  <2>4. meddled' \in BOOLEAN
    BY <1>0, <1>2 DEF Sniff, Stop, JamMode, Past, history
  <2> QED BY <1>0, <2>1, <2>2, <2>3, <2>4, TypePartsNext, TypeFrame DEF Radio, Past
<1>3. CASE SetChannel
  <2>1. UNCHANGED <<pc, requested_mode, jam_mode, saved_request, do_hop, channel_idx,
                    channel_increment, link_state, aa, interval, le_jam_count, receiving, age,
                    world, heard, late, blind, cut, leftover>>
    BY <1>3 DEF SetChannel
  <2>2. PICK c \in Requested :
          IF pc = "off"
            THEN /\ channel' = c /\ requested_channel' = NoChannel
                 /\ meddled' = FALSE /\ UNCHANGED meddling
            ELSE /\ requested_channel' = c /\ UNCHANGED channel
                 /\ meddled' = TRUE /\ Meddle
    BY <1>3 DEF SetChannel
  <2>3. Host'
    BY <1>0, <1>3, <2>1, <2>2 DEF Host, SetChannel, Meddle
  <2>4. Radio' /\ meddled' \in BOOLEAN
    BY <1>0, <2>1, <2>2, Constants DEF Radio
  <2> QED BY <1>0, <2>1, <2>3, <2>4, TypePartsNext, TypeFrame DEF Past
<1> QED BY <1>1, <1>2, <1>3

(* The steps of bt_le_sync() that take no packet. *)
LEMMA TypeLoop ==
  ASSUME TypeOK,
         Start \/ Head \/ Leave \/ WaitHop \/ Hear \/ Garbled \/ Drop \/ Keep \/ Resume
  PROVE  TypeOK'
<1>0. pc \in Places /\ Host /\ Radio /\ Link /\ World /\ Past
  BY TypeParts
<1> USE DEF Goto
<1>1. CASE Start
  <2>1. Radio' /\ Link'
    BY <1>0, <1>1, ResetType DEF Start, Radio, Link
  <2>2. Host' /\ World'
    BY <1>1, TypeFrame DEF Start
  <2>3. leftover' \in BOOLEAN
    BY <1>1, Zenon DEF Start
  <2>4. Past' /\ pc' = "head"
    BY <1>0, <1>1, <2>3 DEF Start, Past
  <2> QED BY <2>1, <2>2, <2>4, TypePartsNext DEF Places
<1>2. CASE Head
  <2>1. Host'
    BY <1>0, <1>2 DEF Head, Host
  <2>2. Radio'
    BY <1>0, <1>2 DEF Head, Radio, Host, hopping
  <2>3. Link' /\ World' /\ Past' /\ pc' = "wait"
    BY <1>2, TypeFrame DEF Head
  <2> QED BY <2>1, <2>2, <2>3, TypePartsNext DEF Places
<1>3. CASE Leave
  <2>1. Radio' /\ Link'
    BY <1>0, <1>3, ResetType DEF Leave, Radio, Link
  <2>2. World' /\ Past'
    BY <1>0, <1>3, SilentType DEF Leave, Abandon, NoConnection, World, Past
  <2>3. Host' /\ pc' = "off"
    BY <1>3, TypeFrame DEF Leave
  <2> QED BY <2>1, <2>2, <2>3, TypePartsNext DEF Places
<1>4. CASE WaitHop \/ Hear \/ Keep
  <2>1. pc' \in Places /\ UNCHANGED <<receiver, age, world, history>>
    BY <1>4 DEF WaitHop, Hear, Keep, Places
  <2> QED BY <2>1, TypeFrame, TypePartsNext DEF receiver
<1>5. CASE Garbled
  <2>1. /\ onair' = "none" /\ pc' = "flush"
        /\ UNCHANGED <<receiver, age, air, due, heard, late, meddled, cut, leftover>>
    BY <1>5 DEF Garbled
  <2>2. blind' \in BOOLEAN
    BY <1>5 DEF Garbled
  <2>3. World' /\ Past'
    BY <1>0, <2>1, <2>2 DEF World, Past
  <2> QED BY <2>1, <2>3, TypeFrame, TypePartsNext DEF receiver, Places
<1>6. CASE Drop
  <2>1. World' /\ Past'
    BY <1>0, <1>6, SilentType DEF Drop, Abandon, NoConnection, World, Past
  <2>2. Link'
    BY <1>0, <1>6, ResetType DEF Drop, Link
  <2>3. Host' /\ pc' \in Places
    BY <1>0, <1>6 DEF Drop, Host, Places
  <2>4. Radio'
    BY <1>0, <1>6, ResetType, Constants DEF Drop, Radio
  <2> QED BY <2>1, <2>2, <2>3, <2>4, TypePartsNext
<1>7. CASE Resume
  <2>1. Host' /\ World' /\ Past' /\ pc' = "head"
    BY <1>7, TypeFrame DEF Resume
  <2>2. Link'
    BY <1>0, <1>7 DEF Resume, Link, interval
  <2>3. NextIdx(channel_idx, channel_increment) \in DataChannel
    BY <1>0, NextChannelIndex DEF Radio
  <2>4. receiving' \in BOOLEAN
    BY <1>7, Zenon DEF Resume
  <2>5. Radio'
    BY <1>0, <1>7, <2>3, <2>4 DEF Resume, Radio
  <2> QED BY <2>1, <2>2, <2>5, TypePartsNext DEF Places
<1> QED BY <1>1, <1>2, <1>3, <1>4, <1>5, <1>6, <1>7

(* connection_follow_cb() *)
LEMMA TypeTake ==
  ASSUME TypeOK, Take
  PROVE  TypeOK'
<1>0. /\ pc \in Places /\ Host /\ Radio /\ Link /\ World /\ Past
      /\ air \in Connections
  BY TypeParts DEF World
<1>1. /\ pc' = "flush" /\ onair' = "none" /\ age' = "fresh"
      /\ UNCHANGED <<requests, saved_request, channel, receiving, air, cut, leftover>>
  BY DEF Take, TakeAdvertisement, TakeConnect, TakeFirst, TakeData, PacketTaken, Goto
<1>2. Host'
  BY <1>1, TypeFrame
<1>3. CASE TakeAdvertisement
  <2>1. UNCHANGED <<do_hop, channel_idx, channel_increment, link_state, aa, interval,
                    le_jam_count, due, heard, late, blind, meddled>>
    BY <1>3 DEF TakeAdvertisement
  <2> QED BY <1>0, <1>1, <1>2, <2>1, TypePartsNext
          DEF Places, Radio, Link, World, Past, interval
<1>4. CASE TakeConnect
  <2>1. air.interval % ByteModulus \in Count
    <3>1. air.interval \in Nat /\ air.interval < Width
      BY <1>0, IntervalFacts, Constants DEF Connections
    <3>2. air.interval % ByteModulus \in Nat /\ air.interval % ByteModulus <= air.interval
      BY <3>1, Constants, ModSmaller
    <3> QED BY <3>1, <3>2, Constants DEF Count
  <2>2. meddled' \in BOOLEAN
    BY <1>4, Zenon DEF TakeConnect
  <2>3. Radio'
    BY <1>0, <1>1, <1>4, Constants DEF TakeConnect, Radio, Connections, Increments, DataChannel
  <2>4. Link'
    BY <1>0, <1>1, <1>4, <2>1 DEF TakeConnect, Link
  <2>5. World' /\ Past'
    BY <1>0, <1>1, <1>4, <2>2 DEF TakeConnect, World, Past
  <2> QED BY <1>1, <1>2, <2>3, <2>4, <2>5, TypePartsNext DEF Places
<1>5. CASE TakeFirst
  <2>1. Restarted(conn_interval) \in Count
    BY <1>0, CountRange DEF Restarted, Link, Count
  <2>2. late' \in BOOLEAN /\ blind' \in BOOLEAN
    BY <1>5, Zenon DEF TakeFirst
  <2>3. Radio'
    BY <1>0, <1>1, <1>5 DEF TakeFirst, Radio
  <2>4. Link'
    BY <1>0, <1>1, <1>5, <2>1, Constants, NoUpdateType DEF TakeFirst, Link
  <2>5. World' /\ Past'
    BY <1>0, <1>1, <1>5, <2>2 DEF TakeFirst, World, Past
  <2> QED BY <1>1, <1>2, <2>3, <2>4, <2>5, TypePartsNext DEF Places
<1>6. CASE TakeData
  <2>1. UpdateDue => update.interval \in Count /\ Restarted(update.interval) \in Count
    <3>1. UpdateDue => update.interval \in Intervals
      BY <1>0 DEF UpdateDue, Link, Updates
    <3> QED BY <3>1, IntervalFacts, CountRange DEF Restarted
  <2>2. interval_timer' \in Count /\ conn_interval' \in Count /\ due' \in BOOLEAN
    BY <1>0, <1>6, <2>1 DEF TakeData, Link, World
  <2>3. update' \in Updates
    BY <1>0, <1>6, NoUpdateType DEF TakeData, Announced, Link, Connections
  <2>4. heard' \in BOOLEAN
    BY <1>6, Zenon DEF TakeData
  <2>5. UNCHANGED <<do_hop, channel_idx, channel_increment, link_state, aa, conn_count,
                    le_jam_count, late, blind, meddled>>
    BY <1>6 DEF TakeData
  <2>6. Radio' /\ Link'
    BY <1>0, <1>1, <2>2, <2>3, <2>5 DEF Radio, Link
  <2>7. World' /\ Past'
    BY <1>0, <1>1, <2>2, <2>4, <2>5 DEF World, Past
  <2> QED BY <1>1, <1>2, <2>6, <2>7, TypePartsNext DEF Places
<1> QED BY <1>3, <1>4, <1>5, <1>6 DEF Take

LEMMA TypeStep == TypeOK /\ [Next]_vars => TypeOK'
<1> SUFFICES ASSUME TypeOK, [Next]_vars PROVE TypeOK'
  OBVIOUS
<1>1. CASE UNCHANGED vars
  BY <1>1, TypeParts, TypePartsNext, TypeFrame
     DEF vars, requests, hopping, interval, world, history
<1> QED BY <1>1, TypeAir, TypeInterrupts, TypeLoop, TypeTake DEF Next, Main

-----------------------------------------------------------------------------
(* The connection.                                                         *)

(* An announced change is none of the next event.                          *)
LEMMA AnnouncedLater ==
  ASSUME NEW event \in Int, NEW d \in 1 .. MaxAhead, (event + d) % Width = (event + 1) % Width
  PROVE  d = 1
<1>1. Width \in Nat \ {0} /\ event + d \in Int /\ event + 1 \in Int
  BY Constants
<1>2. (event + d) - (event + 1) < Width /\ (event + 1) - (event + d) < Width
  BY Constants
<1> DEFINE a == event + d
           b == event + 1
<1>3. a = b
  <2> HIDE DEF a, b
  <2>1. a \in Int /\ b \in Int /\ a % Width = b % Width /\ a - b < Width /\ b - a < Width
    BY <1>1, <1>2 DEF a, b
  <2> QED BY <1>1, <2>1, ModDistinct
<1> QED BY <1>3

(* The event that begins is the first of a new interval, or one that       *)
(* announces nothing, or one that announces a change.                      *)
Starting ==
  /\ Last /\ air'.change = NoUpdate /\ air.changed /\ onair' = "data"
  /\ air'.interval = air.change.interval /\ air'.next = air'.interval
  /\ air'.switched = TRUE
  /\ ~blind' => ~late

GoingOn ==
  /\ ~Last /\ air'.change = air.change /\ onair' = "data"
  /\ air'.interval = air.interval
  /\ air'.next = air.interval + IF Last' THEN air.change.offset ELSE 0
  /\ air'.switched = FALSE

Announcing ==
  /\ ~Last /\ Last' = FALSE /\ air.change = NoUpdate /\ ~air.changed /\ onair' = "update"
  /\ air'.interval = air.interval /\ air'.next = air.interval
  /\ \E d \in 2 .. MaxAhead : air'.change.instant = (air'.event + d) % Width
  /\ air'.change # NoUpdate
  /\ air'.change.interval \in Intervals \ {air.interval}
  /\ air'.switched = FALSE /\ air'.changed = TRUE
  /\ ~blind' => ~Misread(air'.change.instant, air'.event)

LEMMA EventShape ==
  ASSUME TypeOK, AirInv, EventBegins
  PROVE  /\ air.on /\ air'.on /\ air.interval \in Intervals
         /\ air'.inc = air.inc /\ air'.idx = NextIdx(air.idx, air.inc)
         /\ air'.event = air.event + 1 /\ air'.event \in Nat /\ air'.anchor
         /\ ~blind' => ~blind /\ ~(air.switched /\ ~heard)
         /\ air.changed => air'.changed
         /\ air'.changed => air.changed \/ Announcing
         /\ Starting \/ GoingOn \/ Announcing
<1> DEFINE event  == air.event + 1
           starts == air.change # NoUpdate /\ air.change.instant = event % Width
           length == IF starts THEN air.change.interval ELSE air.interval
           rest   == IF starts THEN NoUpdate ELSE air.change
           last   == rest # NoUpdate /\ rest.instant = (event + 1) % Width
           next   == length + IF last THEN rest.offset ELSE 0
<1>1. PICK change \in Updates :
        /\ change = rest \/ (~air.changed /\ change \in Announcements(event))
        /\ air' = [air EXCEPT !.idx = NextIdx(@, air.inc), !.event = event, !.anchor = TRUE,
                              !.next = next, !.interval = length, !.switched = starts,
                              !.change = change, !.changed = @ \/ change # rest]
        /\ onair' = IF change = rest THEN "data" ELSE "update"
        /\ blind' = (blind \/ (air.switched /\ ~heard) \/ (starts /\ late)
                        \/ (change # rest /\ Misread(change.instant, event)))
  BY EventFacts, Zenon
<1>2. air \in Connections /\ air.on
  BY EventFacts DEF TypeOK, Followable, Joined
<1>3. event \in Nat
  BY <1>2 DEF Connections, NoEvent
<1>4. /\ air.interval \in Intervals /\ (~air.changed => air.change = NoUpdate)
  BY <1>2 DEF AirInv
<1>5. starts <=> Last
  BY DEF Last
<1>6. /\ air'.on /\ air'.inc = air.inc /\ air'.idx = NextIdx(air.idx, air.inc)
      /\ air'.event = event /\ air'.anchor = TRUE /\ air'.next = next
      /\ air'.interval = length /\ air'.switched = starts /\ air'.change = change
      /\ air'.changed = (air.changed \/ change # rest)
  <2> HIDE DEF event, starts, length, rest, next
  <2> QED BY <1>1, <1>2 DEF Connections
<1>7. ~blind' => /\ ~blind /\ ~(air.switched /\ ~heard) /\ ~(starts /\ late)
                 /\ ~(change # rest /\ Misread(change.instant, event))
  BY <1>1, Zenon
<1>8. CASE change = rest /\ starts
  <2>2. air.change # NoUpdate /\ air.changed
    BY <1>2, <1>4, <1>8 DEF Connections
  <2>3. air.change.interval \in Intervals /\ air.change.interval \in Nat
    BY <1>2, <2>2, IntervalFacts DEF Connections, Updates
  <2>4. rest = NoUpdate /\ length = air.change.interval /\ next = length
    BY <1>8, <2>3
  <2>5. starts = TRUE
    BY <1>8, Zenon
  <2>6. air'.switched = TRUE /\ onair' = "data" /\ air'.change = NoUpdate
    BY <1>1, <1>6, <1>8, <2>4, <2>5
  <2>7. ~blind' => ~late
    BY <1>7, <1>8
  <2>1. Starting
    BY <1>5, <1>6, <1>8, <2>2, <2>4, <2>6, <2>7 DEF Starting
  <2> QED BY <1>2, <1>3, <1>4, <1>6, <1>7, <1>8, <2>1
<1>9. CASE change = rest /\ ~starts
  <2>1. Last' <=> last
    BY <1>6, <1>9 DEF Last
  <2>2. GoingOn
    BY <1>1, <1>5, <1>6, <1>9, <2>1 DEF GoingOn
  <2> QED BY <1>2, <1>3, <1>4, <1>6, <1>7, <1>9, <2>2
<1>10. CASE change # rest
  <2>1. ~air.changed /\ change \in Announcements(event) /\ air.change = NoUpdate
    BY <1>1, <1>4, <1>10
  <2>2. PICK d \in 2 .. MaxAhead, i \in Intervals \ {air.interval}, o \in 0 .. MaxOffset :
          change = [instant |-> (event + d) % Width, interval |-> i, offset |-> o]
    BY <2>1 DEF Announcements
  <2>3. ~starts /\ length = air.interval /\ rest = NoUpdate /\ ~last /\ next = air.interval
    BY <2>1, <1>4, IntervalFacts
  <2>4. change.interval # 0 /\ change # NoUpdate
    BY <2>2, IntervalFacts, Constants DEF NoUpdate
  <2>5. Last' = FALSE
    <3>1. change.instant # (event + 1) % Width
      <4>1. event \in Int /\ d \in 1 .. MaxAhead /\ d # 1
        BY <1>3, Constants
      <4> QED BY <2>2, <4>1, AnnouncedLater
    <3> QED BY <1>6, <3>1 DEF Last
  <2>6. Announcing
    <3>1. air'.change.instant = (air'.event + d) % Width
      BY <1>6, <2>2
    <3>2. ~blind' => ~Misread(air'.change.instant, air'.event)
      BY <1>6, <1>7, <1>10
    <3>4. air'.changed = TRUE
      BY <1>6, <1>10, Zenon
    <3>3. air'.change.interval \in Intervals \ {air.interval} /\ air'.changed = TRUE
      BY <1>6, <2>2, <3>4
    <3> QED BY <1>1, <1>5, <1>6, <1>10, <2>1, <2>2, <2>3, <2>4, <2>5, <3>1, <3>2, <3>3
            DEF Announcing
  <2> QED BY <1>2, <1>3, <1>4, <1>6, <1>7, <1>10, <2>6
<1> QED BY <1>8, <1>9, <1>10

LEMMA AirFrame ==
  ASSUME AirInv, UNCHANGED <<air, cut>>, onair' \in {onair, "none"}
  PROVE  AirInv'
<1>1. Last' <=> Last
  BY DEF Last
<1> QED BY <1>1 DEF AirInv

LEMMA SilentAir ==
  ASSUME air' = Silent, onair' \in {"none", "adv"}
  PROVE  AirInv'
  BY DEF AirInv, Silent

(* The steps of the receiver that leave the connection alone. *)
LEMMA ReceiverLeavesAir ==
  ASSUME \/ TIMER0_IRQHandler \/ Sniff \/ SetChannel \/ Stop \/ JamMode
         \/ Start \/ Head \/ WaitHop \/ Hear \/ Garbled \/ Take \/ Keep \/ Resume
         \/ Silence \/ Miss \/ UNCHANGED vars
  PROVE  UNCHANGED <<air, cut>> /\ onair' \in {onair, "none"}
<1> USE DEF world, history
<1>1. CASE TIMER0_IRQHandler \/ Sniff \/ SetChannel \/ Stop \/ JamMode
  BY <1>1 DEF TIMER0_IRQHandler, Sniff, SetChannel, Stop, JamMode
<1>2. CASE Start \/ Head \/ WaitHop \/ Hear \/ Garbled \/ Keep \/ Resume \/ Silence \/ Miss
  BY <1>2 DEF Start, Head, WaitHop, Hear, Garbled, Keep, Resume, Silence, Miss
<1>3. CASE Take
  BY <1>3 DEF Take, TakeAdvertisement, TakeConnect, TakeFirst, TakeData, PacketTaken
<1>4. CASE UNCHANGED vars
  BY <1>4 DEF vars
<1> QED BY <1>1, <1>2, <1>3, <1>4

LEMMA AirStep ==
  ASSUME TypeOK, AirInv, [Next]_vars
  PROVE  AirInv'
<1>1. CASE \/ TIMER0_IRQHandler \/ Sniff \/ SetChannel \/ Stop \/ JamMode
           \/ Start \/ Head \/ WaitHop \/ Hear \/ Garbled \/ Take \/ Keep \/ Resume
           \/ Silence \/ Miss \/ UNCHANGED vars
  BY <1>1, ReceiverLeavesAir, AirFrame
<1>2. CASE Idle \/ ConnectionEnds \/ Leave \/ Drop
  <2>1. air' = Silent /\ onair' \in {"none", "adv"}
    BY <1>2 DEF Idle, ConnectionEnds, Leave, Drop, Abandon, NoConnection
  <2> QED BY <2>1, SilentAir
<1>3. CASE Connect
  <2>1. PICK inc \in Increments, i \in Intervals : \E wait \in 1 .. i :
          /\ air' = [Silent EXCEPT !.on = TRUE, !.inc = inc, !.interval = i, !.next = wait]
          /\ cut' = (i >= ByteModulus)
    BY <1>3, Zenon DEF Connect
  <2>2. PICK wait \in 1 .. i :
          /\ air' = [Silent EXCEPT !.on = TRUE, !.inc = inc, !.interval = i, !.next = wait]
          /\ cut' = (i >= ByteModulus)
    BY <2>1
  <2>3. /\ air'.on /\ air'.interval = i /\ air'.change = NoUpdate /\ ~air'.anchor
        /\ onair' = "connect"
    BY <1>3, <2>2 DEF Silent, Connect
  <2>5. ~cut' => ~(i >= ByteModulus)
    BY <2>2, Zenon
  <2>4. ~cut' => i < ByteModulus
    BY <2>5, IntervalFacts, Constants
  <2> QED BY <2>3, <2>4 DEF AirInv
<1>4. CASE EventGoesOn
  <2>1. air' = [air EXCEPT !.next = @ - 1, !.anchor = FALSE] /\ air \in Connections /\ air.on
        /\ onair' \in {"none", "data"} /\ cut' = cut
    BY <1>4 DEF EventGoesOn, TypeOK, Followable, Joined
  <2>2. /\ air'.on /\ air'.interval = air.interval /\ air'.change = air.change
        /\ air'.anchor = FALSE /\ air'.changed = air.changed /\ air'.event = air.event
    BY <2>1 DEF Connections
  <2> QED BY <2>1, <2>2 DEF AirInv
<1>5. CASE EventBegins
  <2>1. /\ air'.on /\ air'.event \in Nat /\ air'.anchor /\ air.on
        /\ Starting \/ GoingOn \/ Announcing
        /\ air.changed => air'.changed
        /\ (air.change # NoUpdate => air.change.interval \in Intervals \ {air.interval})
        /\ (air.changed \/ air.change = NoUpdate)
        /\ air.interval \in Intervals
    BY <1>5, EventShape DEF AirInv
  <2>2. CASE Starting
    <3>1. ~Last'
      BY <2>2 DEF Starting, Last
    <3>2. air'.interval \in Intervals /\ air'.interval \in Nat
      BY <2>1, <2>2, IntervalFacts DEF Starting, Last
    <3> QED BY <2>1, <2>2, <3>1, <3>2 DEF Starting, AirInv, NoEvent
  <2>3. CASE GoingOn
    BY <2>1, <2>3 DEF GoingOn, AirInv, NoEvent
  <2>4. CASE Announcing
    <3>1. ~Last' /\ air'.interval \in Nat /\ air.interval \in Intervals
      BY <2>1, <2>4, IntervalFacts DEF Announcing
    <3> QED BY <2>1, <2>4, <3>1 DEF Announcing, AirInv, NoEvent
  <2> QED BY <2>1, <2>2, <2>3, <2>4
<1> QED BY <1>1, <1>2, <1>3, <1>4, <1>5 DEF Next, Main, Air

-----------------------------------------------------------------------------
(* Listening.                                                              *)

LEMMA ListenFrame ==
  ASSUME ListenInv,
         UNCHANGED <<pc, link_state, aa, hop_mode, leftover, channel, receiving, le_jam_count>>,
         do_hop => do_hop', hop_mode = "btle" /\ link_state = "LISTENING" => do_hop' = do_hop,
         pc = "packet" => UNCHANGED <<onair, air>>
  PROVE  ListenInv'
<1>1. pc = "packet" /\ Matches => Matches'
  BY DEF Matches
<1> QED BY <1>1 DEF ListenInv

LEMMA ListenStep ==
  ASSUME TypeOK, ListenInv, [Next]_vars
  PROVE  ListenInv'
<1> USE DEF receiver, requests, hopping, interval, world, history, Goto
<1>0. TypeOK' /\ le_jam_count \in Nat
  BY TypeStep DEF TypeOK
<1>1. CASE Air \/ ConnectionEnds \/ Silence \/ Miss \/ UNCHANGED vars
  <2>1. UNCHANGED <<pc, link_state, aa, hop_mode, leftover, channel, receiving, le_jam_count,
                    do_hop>>
    BY <1>1 DEF Air, Idle, Connect, EventGoesOn, EventBegins, UnitPasses, ConnectionEnds,
                Silence, Miss, vars
  <2>2. pc = "packet" => UNCHANGED <<onair, air>>
    BY <1>1 DEF Air, Idle, Connect, EventGoesOn, EventBegins, UnitPasses, ConnectionEnds,
                Silence, Miss, vars, ListenInv
  <2> QED BY <2>1, <2>2, ListenFrame
<1>2. CASE TIMER0_IRQHandler
  <2>1. UNCHANGED <<pc, link_state, aa, hop_mode, leftover, channel, receiving, le_jam_count,
                    onair, air>>
    BY <1>2 DEF TIMER0_IRQHandler
  <2>2. do_hop' \in CASE Counts           -> {do_hop \/ (interval_timer - 1) % Width = 0}
                     [] hop_mode = "none" -> {do_hop, TRUE}
                     [] OTHER             -> {do_hop}
    BY <1>2, Zenon DEF TIMER0_IRQHandler
  <2>3. do_hop \in BOOLEAN
    BY DEF TypeOK
  <2>4. do_hop => do_hop'
    BY <2>2, <2>3
  <2>5. hop_mode = "btle" /\ link_state = "LISTENING" => do_hop' = do_hop
    BY <2>2 DEF Counts
  <2> QED BY <2>1, <2>4, <2>5, ListenFrame
<1>3. CASE Stop \/ JamMode
  <2>1. UNCHANGED <<pc, link_state, aa, hop_mode, leftover, channel, receiving, le_jam_count,
                    do_hop, onair, air>>
    BY <1>3 DEF Stop, JamMode
  <2> QED BY <2>1, ListenFrame
<1>4. CASE Sniff
  <2>1. UNCHANGED <<pc, link_state, aa, leftover, channel, receiving, le_jam_count, onair, air>>
        /\ do_hop' = FALSE
    BY <1>4 DEF Sniff
  <2>2. Matches => Matches'
    BY <2>1 DEF Matches
  <2> QED BY <2>1, <2>2 DEF ListenInv
<1>5. CASE SetChannel
  <2>1. /\ UNCHANGED <<pc, link_state, aa, leftover, receiving, le_jam_count, onair, air>>
        /\ hop_mode' = "none"
    BY <1>5 DEF SetChannel
  <2>2. pc # "off" => channel' = channel
    BY <1>5 DEF SetChannel
  <2>3. pc = "packet" /\ Matches => Matches'
    BY <2>1, <2>2 DEF Matches
  <2> QED BY <2>1, <2>2, <2>3 DEF ListenInv
<1>6. CASE Start
  <2>1. /\ pc' = "head" /\ link_state' = "LISTENING" /\ aa' = "adv" /\ do_hop' = FALSE
        /\ receiving' = TRUE /\ UNCHANGED <<channel, le_jam_count>>
        /\ leftover' = (le_jam_count > 0 \/ channel \notin AdvChannel)
    BY <1>6 DEF Start, reset_le
  <2>3. ~leftover' => ~(le_jam_count > 0) /\ channel \in AdvChannel
    BY <2>1, Zenon
  <2>2. ~leftover' => le_jam_count = 0 /\ channel \in AdvChannel
    BY <1>0, <2>3
  <2> QED BY <2>1, <2>2 DEF ListenInv
<1>7. CASE Head \/ WaitHop \/ Keep
  <2>1. UNCHANGED <<link_state, aa, hop_mode, leftover, channel, receiving, le_jam_count, do_hop>>
        /\ pc \in {"head", "wait", "flush"} /\ pc' \in {"wait", "flush", "resume"}
    BY <1>7 DEF Head, WaitHop, Keep
  <2> QED BY <2>1 DEF ListenInv
<1>8. CASE Hear
  <2>1. /\ UNCHANGED <<link_state, aa, hop_mode, leftover, channel, receiving, le_jam_count,
                       do_hop, onair, air>>
        /\ pc = "wait" /\ pc' = "packet" /\ Matches
    BY <1>8 DEF Hear
  <2>2. Matches' /\ onair' # "none"
    BY <2>1 DEF Matches
  <2> QED BY <2>1, <2>2 DEF ListenInv
<1>9. CASE Leave
  <2>1. pc' = "off" /\ link_state' = "INACTIVE" /\ aa' = "adv"
    BY <1>9 DEF Leave, reset_le
  <2> QED BY <2>1 DEF ListenInv
<1>10. CASE Garbled \/ TakeAdvertisement \/ TakeData
  <2>1. /\ UNCHANGED <<link_state, aa, hop_mode, leftover, channel, receiving, le_jam_count,
                       do_hop>>
        /\ pc = "packet" /\ pc' = "flush"
    BY <1>10 DEF Garbled, TakeAdvertisement, TakeData, PacketTaken
  <2> QED BY <2>1 DEF ListenInv
<1>11. CASE TakeConnect \/ TakeFirst
  <2>1. /\ link_state' \in {"CONN_PENDING", "CONNECTED"} /\ pc' = "flush"
        /\ link_state = "CONN_PENDING" => aa' = aa
        /\ link_state \in {"LISTENING", "CONN_PENDING"}
        /\ link_state = "LISTENING" => aa' = "mine"
    BY <1>11 DEF TakeConnect, TakeFirst, PacketTaken
  <2> QED BY <2>1 DEF ListenInv
<1>12. CASE Drop
  <2>1. \/ pc' = "cleanup" /\ link_state' = "INACTIVE"
        \/ /\ pc' = "resume" /\ link_state' = "LISTENING"
           /\ channel' \in {saved_request, DataChannels} \ {NoChannel}
    BY <1>12, Constants DEF Drop, NoChannel
  <2>2. aa' = "adv" /\ do_hop' = FALSE /\ le_jam_count' = 0
    BY <1>12 DEF Drop, reset_le
  <2>3. pc' = "resume" => channel' \in AdvChannel
    BY <2>1, Constants DEF TypeOK
  <2> QED BY <2>1, <2>2, <2>3 DEF ListenInv
<1>13. CASE Resume
  <2>1. /\ UNCHANGED <<link_state, aa, hop_mode, leftover>>
        /\ pc = "resume" /\ pc' = "head" /\ do_hop' = FALSE
        /\ ~(do_hop /\ hop_mode = "btle") => channel' = channel
    BY <1>13 DEF Resume
  <2>3. le_jam_count = 0 => receiving'
    BY <1>13, Zenon DEF Resume
  <2>2. le_jam_count = 0 => le_jam_count' = 0 /\ receiving'
    BY <1>13, <2>3 DEF Resume
  <2> QED BY <2>1, <2>2 DEF ListenInv
<1> QED
  BY <1>1, <1>2, <1>3, <1>4, <1>5, <1>6, <1>7, <1>8, <1>9, <1>10, <1>11, <1>12, <1>13
     DEF Next, Main, Take

-----------------------------------------------------------------------------
(* The link's hops.                                                        *)

Linked == link_state \in {"CONN_PENDING", "CONNECTED"}

LEMMA LinkFrame ==
  ASSUME LinkInv, Linked' => link_state' = link_state,
         air'.on => air.on /\ air'.inc = air.inc, meddled => meddled',
         UNCHANGED <<hop_mode, channel, channel_idx, channel_increment, cut>>,
         Linked /\ air.on /\ ~meddled /\ Pending => do_hop' = do_hop,
         pc' = "packet" => pc = "packet" \/ ~do_hop, blind => blind',
         Pending' /\ air'.on /\ ~blind' =>
           /\ conn_interval' = conn_interval /\ air'.interval = air.interval
           /\ air'.change # NoUpdate =>
                \/ onair' = "update"
                \/ air.change # NoUpdate /\ onair # "update"
  PROVE  LinkInv'
<1> SUFFICES ASSUME Linked', air'.on PROVE LinkInv'
  BY DEF LinkInv, Linked
<1>1. Linked /\ air.on /\ (Pending' <=> Pending)
  BY DEF Linked, Pending
<1>2. ~meddled' =>
        /\ hop_mode' = "btle" /\ channel_increment' = air'.inc
        /\ channel_idx' = IF Pending' /\ do_hop' THEN air'.inc ELSE NextIdx(channel', air'.inc)
        /\ Pending' /\ pc' = "packet" => ~do_hop'
  BY <1>1 DEF LinkInv, Linked, NextIdx
<1>3. Pending' /\ ~blind' =>
        /\ ~cut' => conn_interval' = air'.interval
        /\ air'.change # NoUpdate => onair' = "update"
  BY <1>1 DEF LinkInv, Linked
<1> QED BY <1>2, <1>3 DEF LinkInv, NextIdx

LEMMA LinkStep ==
  ASSUME TypeOK, AirInv, ListenInv, LinkInv, [Next]_vars
  PROVE  LinkInv'
<1> USE DEF receiver, requests, hopping, interval, world, history
<1>0. /\ aa = "mine" <=> Linked
      /\ Linked => pc # "off"
  BY DEF ListenInv, Linked
<1>1. CASE Idle \/ Connect \/ ConnectionEnds \/ Leave \/ Drop
  <2>1. CASE Connect
    <3>1. ~Linked /\ link_state' = link_state
      BY <1>0, <2>1 DEF Connect, UnitPasses
    <3> QED BY <3>1 DEF LinkInv, Linked
  <2>2. CASE Idle \/ ConnectionEnds \/ Leave \/ Drop
    <3>1. air' = Silent
      BY <2>2 DEF Idle, ConnectionEnds, Leave, Drop, Abandon, NoConnection
    <3> QED BY <3>1 DEF LinkInv, Silent
  <2> QED BY <1>1, <2>1, <2>2
<1>2. CASE EventGoesOn
  <2>1. air' = [air EXCEPT !.next = @ - 1, !.anchor = FALSE] /\ air \in Connections
        /\ onair = "none"
        /\ UNCHANGED <<pc, link_state, meddled, hop_mode, channel, channel_idx,
                       channel_increment, do_hop, conn_interval, cut, blind>>
    BY <1>2 DEF EventGoesOn, UnitPasses, TypeOK
  <2>2. /\ air'.on = air.on /\ air'.inc = air.inc /\ air'.interval = air.interval
        /\ air'.change = air.change
    BY <2>1 DEF Connections
  <2> QED BY <2>1, <2>2, LinkFrame DEF Linked
<1>3. CASE EventBegins
  <2>1. UNCHANGED <<pc, link_state, meddled, hop_mode, channel, channel_idx,
                    channel_increment, do_hop, conn_interval, cut>> /\ onair = "none"
    BY <1>3, EventFacts
  <2>2. /\ air.on /\ air'.inc = air.inc /\ (blind => blind')
        /\ Starting \/ GoingOn \/ Announcing
    BY <1>3, EventShape
  <2>3. ASSUME Pending', air'.on, ~blind'
        PROVE  /\ air'.interval = air.interval
               /\ air'.change # NoUpdate => onair' = "update"
    <3>1. Linked /\ Pending /\ ~blind
      BY <2>1, <2>2, <2>3 DEF Linked, Pending
    <3>2. air.change = NoUpdate
      BY <2>1, <2>2, <3>1 DEF LinkInv, Linked
    <3>3. ~Starting
      BY <3>2 DEF Starting, Last
    <3> QED BY <2>2, <3>2, <3>3 DEF GoingOn, Announcing
  <2> QED BY <2>1, <2>2, <2>3, LinkFrame DEF Linked
<1>4. CASE Miss \/ Garbled
  <2>1. UNCHANGED <<link_state, meddled, hop_mode, channel, channel_idx, channel_increment,
                    do_hop, conn_interval, cut, air>> /\ (pc' = "packet" => pc = "packet")
    BY <1>4 DEF Miss, Garbled, Goto
  <2>2. (blind => blind') /\ (onair = "update" => blind')
    BY <1>4 DEF Miss, Garbled
  <2> QED BY <2>1, <2>2, LinkFrame DEF Linked
<1>5. CASE TIMER0_IRQHandler
  <2>1. UNCHANGED <<pc, link_state, meddled, hop_mode, channel, channel_idx, channel_increment,
                    conn_interval, cut, air, onair, blind>>
    BY <1>5 DEF TIMER0_IRQHandler
  <2>2. do_hop' \in CASE Counts           -> {do_hop \/ (interval_timer - 1) % Width = 0}
                     [] hop_mode = "none" -> {do_hop, TRUE}
                     [] OTHER             -> {do_hop}
    BY <1>5, Zenon DEF TIMER0_IRQHandler
  <2>3. ASSUME Linked, air.on, ~meddled, Pending PROVE do_hop' = do_hop
    <3>1. hop_mode = "btle" /\ ~Counts
      BY <2>3 DEF LinkInv, Linked, Pending, Counts
    <3> QED BY <2>2, <3>1
  <2> QED BY <2>1, <2>3, LinkFrame DEF Linked
<1>6. CASE Sniff \/ SetChannel
  <2>1. UNCHANGED <<pc, link_state, conn_interval, cut, air, onair, blind>>
        /\ (pc # "off" => meddled')
    BY <1>6 DEF Sniff, SetChannel
  <2> QED BY <1>0, <2>1 DEF LinkInv, Linked, Pending
<1>7. CASE Silence \/ Stop \/ JamMode \/ Head \/ WaitHop \/ Keep \/ Hear \/ UNCHANGED vars
  <2>1. UNCHANGED <<link_state, meddled, hop_mode, channel, channel_idx, channel_increment,
                    do_hop, conn_interval, cut, air, onair, blind>>
    BY <1>7 DEF Silence, Stop, JamMode, Head, WaitHop, Keep, Hear, vars
  <2>2. pc' = "packet" => pc = "packet" \/ ~do_hop
    BY <1>7 DEF Silence, Stop, JamMode, Head, WaitHop, Keep, Hear, vars, Goto
  <2> QED BY <2>1, <2>2, LinkFrame DEF Linked
<1>8. CASE Start \/ TakeAdvertisement
  <2>1. link_state' = "LISTENING"
    BY <1>8 DEF Start, TakeAdvertisement
  <2> QED BY <2>1 DEF LinkInv
<1>9. CASE TakeConnect
  <2>1. /\ link_state' = "CONN_PENDING" /\ do_hop' = TRUE /\ pc' = "flush"
        /\ conn_interval' = air.interval % ByteModulus
        /\ channel_increment' = air.inc /\ channel_idx' = air.inc
        /\ onair = "connect" /\ UNCHANGED <<air, cut, blind, hop_mode>>
        /\ meddled' = (hop_mode = "none")
    BY <1>9 DEF TakeConnect, PacketTaken, Goto
  <2>2. ~meddled' => hop_mode' = "btle"
    BY <2>1 DEF TypeOK
  <2>3. air.on /\ ~cut => conn_interval' = air.interval
    <3>1. air.on /\ ~cut => air.interval \in 0 .. ByteModulus - 1
      BY <2>1, IntervalFacts, Constants DEF AirInv
    <3> QED BY <2>1, <3>1, Constants, ModOfSmall
  <2>4. air.on => air.change = NoUpdate
    BY <2>1 DEF AirInv
  <2> QED BY <2>1, <2>2, <2>3, <2>4 DEF LinkInv, Pending
<1>10. CASE TakeFirst
  <2>1. /\ link_state = "CONN_PENDING" /\ link_state' = "CONNECTED" /\ pc = "packet"
        /\ UNCHANGED <<do_hop, channel_idx, channel_increment, meddled, air, hop_mode, channel>>
    BY <1>10 DEF TakeFirst, PacketTaken
  <2> QED BY <2>1 DEF LinkInv, Pending, NextIdx
<1>11. CASE TakeData
  <2>1. /\ link_state = "CONNECTED" /\ link_state' = "CONNECTED"
        /\ UNCHANGED <<do_hop, channel_idx, channel_increment, meddled, air, hop_mode, channel>>
    BY <1>11 DEF TakeData, PacketTaken
  <2> QED BY <2>1 DEF LinkInv, Pending, NextIdx
<1>12. CASE Resume
  <2>1. /\ UNCHANGED <<link_state, meddled, hop_mode, channel_increment, conn_interval, cut, air,
                       onair, blind>>
        /\ do_hop' = FALSE
        /\ IF do_hop /\ hop_mode = "btle"
             THEN channel' = channel_idx /\ channel_idx' = NextIdx(channel_idx, channel_increment)
             ELSE UNCHANGED <<channel, channel_idx>>
    BY <1>12 DEF Resume
  <2>2. CASE Linked /\ air.on /\ ~meddled
    <3>1. channel_idx' = NextIdx(channel', air.inc)
      BY <2>1, <2>2 DEF LinkInv, Linked
    <3> QED BY <2>1, <2>2, <3>1 DEF LinkInv, Linked, Pending, NextIdx
  <2>3. CASE ~(Linked /\ air.on /\ ~meddled)
    BY <2>1, <2>3 DEF LinkInv, Linked, Pending
  <2> QED BY <2>2, <2>3
<1> QED
  BY <1>1, <1>2, <1>3, <1>4, <1>5, <1>6, <1>7, <1>8, <1>9, <1>10, <1>11, <1>12
     DEF Next, Main, Take, Air

-----------------------------------------------------------------------------
(* Following.                                                              *)

(* Width as the modulus of the counts.                                     *)
LEMMA CountsModWidth ==
  /\ \A a, b \in Int : ((a % Width) + b) % Width = (a + b) % Width
  /\ \A a, b \in Int : ((a % Width) - b) % Width = (a - b) % Width
  /\ \A a \in Count : a % Width = a
  /\ \A a, b \in Int : a % Width = b % Width /\ a - b < Width /\ b - a < Width => a = b
<1>1. Width \in Nat \ {0}
  BY Constants
<1> QED BY <1>1, ModAdd, ModSub, ModOfSmall, ModDistinct DEF Count

(* The instant's distance, as it was announced and as conn_count has it.   *)
LEMMA Distances ==
  ASSUME NEW event \in Int, NEW d \in 0 .. MaxAhead, NEW instant \in Count, NEW c \in Int,
         instant = (event + d) % Width
  PROVE  /\ (instant - event) % Width = d
         /\ (c + ((instant - c) % Width)) % Width = instant
         /\ (instant - c) % Width \in Count
<1>0. Width \in Nat \ {0} /\ d \in Count /\ instant \in Int /\ d \in Int
  BY Constants DEF Count
<1>1. (instant - event) % Width = d
  <2> DEFINE later == event + d
  <2>1. later \in Int /\ later - event = d /\ instant = later % Width
    BY <1>0
  <2> HIDE DEF later
  <2>2. ((later % Width) - event) % Width = (later - event) % Width
    BY <2>1, CountsModWidth
  <2>3. d % Width = d
    BY <1>0, CountsModWidth
  <2> QED BY <2>1, <2>2, <2>3
<1>2. (c + ((instant - c) % Width)) % Width = instant
  <2> DEFINE e == instant - c
  <2>1. e \in Int /\ e + c = instant
    BY <1>0
  <2> HIDE DEF e
  <2>2. ((e % Width) + c) % Width = (e + c) % Width
    BY <2>1, CountsModWidth
  <2>3. e % Width \in Int
    BY <1>0, <2>1, ModRangeInt
  <2>4. (e % Width) + c = c + (e % Width)
    BY <2>3
  <2> QED BY <2>1, <2>2, <2>4, CountsModWidth DEF e
<1>3. (instant - c) % Width \in Count
  BY <1>0, CountRange
<1> QED BY <1>1, <1>2, <1>3

(* A count's distance to a later one is no more than that. *)
LEMMA CountGrowth ==
  ASSUME NEW event \in Int, NEW d \in Nat
  PROVE  ((event + d) % Width) - (event % Width) <= d
<1> DEFINE r == event % Width
<1>0. Width \in Nat \ {0}
  BY Constants
<1>1. Width \in Nat \ {0} /\ r \in Nat
  BY <1>0, ModRangeInt
<1>2. (r + d) % Width = (event + d) % Width
  BY CountsModWidth
<1> HIDE DEF r
<1>3. r + d \in Nat
  BY <1>1
<1>4. (r + d) % Width <= r + d /\ (r + d) % Width \in Nat
  BY <1>1, <1>3, ModSmaller
<1>5. (event + d) % Width \in Nat
  BY <1>2, <1>4
<1>6. ((event + d) % Width) - r <= d
  BY <1>1, <1>2, <1>4
<1> QED BY <1>6 DEF r

(* What holds of the connection that is followed. *)
LEMMA FollowFacts ==
  ASSUME TypeOK, AirInv, LinkInv, Following
  PROVE  /\ hop_mode = "btle" /\ channel_increment = air.inc
         /\ channel_idx = NextIdx(channel, air.inc)
         /\ air.interval \in Intervals /\ air.idx \in DataChannel /\ air.inc \in Increments
         /\ air.next \in Nat \ {0} /\ air.event \in Int
         /\ air.change # NoUpdate =>
              /\ air.change.interval \in Intervals /\ air.change.interval # air.interval
              /\ air.change.offset \in 0 .. MaxOffset /\ air.change.instant \in Count
              /\ air.changed
         /\ NextIdx(air.idx, air.inc) # air.idx
<1>1. /\ air \in Connections /\ air.on /\ link_state = "CONNECTED" /\ ~meddled
      /\ air.interval \in Intervals
  BY DEF TypeOK, Following, Sound, AirInv
<1>2. /\ hop_mode = "btle" /\ channel_increment = air.inc
      /\ channel_idx = NextIdx(channel, air.inc)
  BY <1>1 DEF LinkInv, Pending
<1>3. /\ air.idx \in DataChannel /\ air.inc \in Increments
      /\ air.next \in Nat \ {0} /\ air.event \in Int
  BY <1>1 DEF Connections, NoEvent
<1>4. air.change # NoUpdate =>
              /\ air.change.interval \in Intervals /\ air.change.interval # air.interval
              /\ air.change.offset \in 0 .. MaxOffset /\ air.change.instant \in Count
              /\ air.changed
  BY <1>1 DEF Connections, Updates, AirInv
<1> QED BY <1>1, <1>2, <1>3, <1>4, NextChannel

LEMMA KeptFacts ==
  ASSUME TypeOK, AirInv, LinkInv, Following, Kept
  PROVE  /\ conn_interval \in Intervals
         /\ MaxAheadOfEvent \in 0 .. MaxOffset + 1
         /\ Hopped => ~air.anchor
<1>1. conn_interval \in Intervals
  BY FollowFacts DEF Kept, UpdateKnown
<1>2. MaxAheadOfEvent \in 0 .. MaxOffset + 1
  BY Constants DEF MaxAheadOfEvent
<1>3. ASSUME Hopped, air.anchor PROVE FALSE
  <2>1. PICK ahead \in 0 .. MaxAheadOfEvent : InStep(ahead)
    BY DEF Kept, Timed
  <2>2. UntilHop(ahead) <= 0 /\ ahead \in 0 .. MaxOffset + 1
    BY <1>2, <1>3, <2>1, Constants DEF InStep
  <2>3. air.next >= air.interval
    BY <1>3, FollowFacts, IntervalFacts DEF AirInv, Following, Sound, Last
  <2>4. air.interval > MaxOffset + 2 /\ air.interval \in Nat
    BY FollowFacts, IntervalFacts
  <2>5. due \in BOOLEAN /\ air.next \in Nat
    BY FollowFacts DEF TypeOK
  <2> QED BY <2>2, <2>3, <2>4, <2>5, Constants DEF UntilHop
<1> QED BY <1>1, <1>2, <1>3

LEMMA FollowFrame ==
  ASSUME FollowInv, Following' => Following,
         UNCHANGED <<air, due, channel, do_hop, interval_timer, conn_interval, conn_count, update,
                     late, heard>>,
         onair' = onair \/ (onair' = "none" /\ (onair = "update" => blind'))
  PROVE  FollowInv'
<1> SUFFICES ASSUME Following' PROVE FollowInv'
  BY DEF FollowInv
<1>1. ~blind' /\ (onair = "update" => onair' = "update")
  BY DEF Following, Sound
<1>2. (Last' <=> Last) /\ (Hopped' <=> Hopped) /\ MaxAheadOfEvent' = MaxAheadOfEvent
  BY DEF Last, Hopped, MaxAheadOfEvent
<1>3. Timed => Timed'
  BY <1>2 DEF Timed, InStep, UntilHop, NextIdx
<1>4. UpdateKnown => UpdateKnown'
  BY <1>1, <1>2 DEF UpdateKnown
<1>5. Counted => Counted'
  BY <1>2 DEF Counted, EventNumber
<1>6. InstantAhead => InstantAhead'
  BY <1>2 DEF InstantAhead
<1>7. Applying => Applying'
  BY <1>2 DEF Applying
<1>8. Unapplied => Unapplied'
  BY DEF Unapplied
<1> QED BY <1>3, <1>4, <1>5, <1>6, <1>7, <1>8 DEF FollowInv, Kept

(* The steps that do not concern the link that is followed, or end it. *)
LEMMA FollowQuiet ==
  ASSUME LeInv,
         \/ Silence \/ Miss \/ Idle \/ Connect \/ ConnectionEnds
         \/ Sniff \/ SetChannel \/ Stop \/ JamMode
         \/ Start \/ Head \/ Leave \/ WaitHop \/ Hear \/ Garbled \/ Drop \/ Keep
         \/ TakeAdvertisement \/ TakeConnect \/ UNCHANGED vars
  PROVE  FollowInv'
<1> USE DEF receiver, requests, hopping, interval, world, history, Goto
<1>1. CASE Silence \/ Stop \/ JamMode \/ Head \/ WaitHop \/ Hear \/ Keep \/ UNCHANGED vars
  <2>1. /\ UNCHANGED <<air, due, channel, do_hop, interval_timer, conn_interval, conn_count,
                       update, late, heard, onair, link_state, aa, blind, meddled, cut>>
        /\ pc' # "off" => pc # "off"
    BY <1>1 DEF Silence, Stop, JamMode, Head, WaitHop, Hear, Keep, vars
  <2>2. Following' => Following
    BY <2>1 DEF Following, Sound
  <2> QED BY <2>1, <2>2, FollowFrame DEF LeInv
<1>2. CASE Miss \/ Garbled
  <2>1. /\ UNCHANGED <<air, due, channel, do_hop, interval_timer, conn_interval, conn_count,
                       update, late, heard, link_state, aa, meddled, cut>>
        /\ pc' # "off" => pc # "off"
    BY <1>2 DEF Miss, Garbled
  <2>2. onair' = "none" /\ (blind => blind') /\ (onair = "update" => blind')
    BY <1>2 DEF Miss, Garbled
  <2>3. Following' => Following
    BY <2>1, <2>2 DEF Following, Sound
  <2> QED BY <2>1, <2>2, <2>3, FollowFrame DEF LeInv
<1>3. CASE Idle \/ ConnectionEnds \/ Leave \/ Drop
  <2>1. air' = Silent
    BY <1>3 DEF Idle, ConnectionEnds, Leave, Drop, Abandon, NoConnection
  <2> QED BY <2>1 DEF FollowInv, Following, Sound, Silent
<1>4. CASE Connect
  <2>1. aa' = "adv"
    BY <1>4 DEF Connect, UnitPasses
  <2> QED BY <2>1 DEF FollowInv, Following, Sound
<1>5. CASE Start \/ TakeAdvertisement \/ TakeConnect
  <2>1. link_state' # "CONNECTED"
    BY <1>5 DEF Start, TakeAdvertisement, TakeConnect
  <2> QED BY <2>1 DEF FollowInv, Following, Sound
<1>6. CASE Sniff \/ SetChannel
  <2>1. pc' = "off" \/ meddled'
    BY <1>6 DEF Sniff, SetChannel
  <2> QED BY <2>1 DEF FollowInv, Following, Sound
<1> QED BY <1>1, <1>2, <1>3, <1>4, <1>5, <1>6

LEMMA FollowGoesOn ==
  ASSUME LeInv, EventGoesOn
  PROVE  FollowInv'
<1> SUFFICES ASSUME Following' PROVE FollowInv'
  BY DEF FollowInv
<1>0. /\ air' = [air EXCEPT !.next = @ - 1, !.anchor = FALSE] /\ air \in Connections
      /\ ~due /\ due' = TRUE /\ onair = "none" /\ (pc = "off" \/ ~do_hop)
      /\ UNCHANGED <<pc, channel, do_hop, interval_timer, conn_interval, conn_count, update,
                     late, heard, link_state, aa, blind, meddled, cut>>
      /\ air.on
  BY DEF EventGoesOn, UnitPasses, receiver, hopping, interval, LeInv, TypeOK, Followable, Joined
<1>1. Following /\ ~do_hop
  BY <1>0 DEF Following, Sound
<1>2. /\ air'.next = air.next - 1 /\ air'.anchor = FALSE /\ air'.idx = air.idx
      /\ air'.inc = air.inc /\ air'.interval = air.interval /\ air'.event = air.event
      /\ air'.switched = air.switched /\ air'.change = air.change /\ air'.changed = air.changed
      /\ air.next \in Nat
  BY <1>0 DEF Connections
<1>3. (Last' <=> Last) /\ (Hopped' <=> Hopped) /\ MaxAheadOfEvent' = MaxAheadOfEvent
  BY <1>0, <1>2 DEF Last, Hopped, MaxAheadOfEvent
<1>4. CASE Kept
  <2>1. Timed'
    <3>1. PICK ahead \in 0 .. MaxAheadOfEvent : InStep(ahead)
      BY <1>4 DEF Kept, Timed
    <3>2. ahead \in Int
      BY <1>1, <1>4, KeptFacts, Constants DEF LeInv
    <3>3. UntilHop(ahead)' = UntilHop(ahead)
      BY <1>0, <1>2, <3>2 DEF UntilHop
    <3>4. InStep(ahead)'
      BY <1>0, <1>1, <1>2, <1>3, <3>1, <3>3 DEF InStep, NextIdx
    <3> QED BY <1>3, <3>4 DEF Timed
  <2>2. UpdateKnown' /\ Counted' /\ InstantAhead'
    BY <1>0, <1>2, <1>3, <1>4 DEF Kept, UpdateKnown, Counted, EventNumber, InstantAhead
  <2> QED BY <1>1, <1>2, <2>1, <2>2 DEF FollowInv, Kept, LeInv
<1>5. CASE Applying \/ Unapplied
  <2>1. Unapplied'
    BY <1>0, <1>2, <1>5 DEF Applying, Unapplied
  <2> QED BY <1>1, <1>2, <2>1 DEF FollowInv, LeInv
<1> QED BY <1>1, <1>4, <1>5 DEF FollowInv, LeInv

LEMMA FollowResume ==
  ASSUME LeInv, Resume
  PROVE  FollowInv'
<1> SUFFICES ASSUME Following' PROVE FollowInv'
  BY DEF FollowInv
<1>0. /\ UNCHANGED <<air, onair, due, hop_mode, interval_timer, conn_interval, conn_count, update,
                     late, heard, link_state, aa, blind, meddled, cut, channel_increment>>
      /\ pc = "resume" /\ do_hop' = FALSE
      /\ IF do_hop /\ hop_mode = "btle" THEN channel' = channel_idx ELSE channel' = channel
  BY DEF Resume, requests, interval, world, history
<1>1. Following
  BY <1>0 DEF Following, Sound
<1>2. CASE ~do_hop
  <2>1. do_hop' = do_hop
    BY <1>0, <1>2 DEF LeInv, TypeOK
  <2> QED BY <1>0, <1>1, <1>2, <2>1, FollowFrame DEF LeInv
<1>3. CASE do_hop
  <2>1. channel' = NextIdx(channel, air.inc)
    BY <1>0, <1>1, <1>3, FollowFacts DEF LeInv
  <2>2. CASE Kept
    <3>1. PICK ahead \in 0 .. MaxAheadOfEvent : InStep(ahead)
      BY <2>2 DEF Kept, Timed
    <3>2. channel = air.idx /\ Hopped
      BY <1>3, <3>1 DEF InStep, Hopped
    <3>3. channel' = NextIdx(air.idx, air.inc) /\ Hopped'
      BY <1>0, <1>1, <2>1, <3>2, FollowFacts DEF LeInv, Hopped
    <3>4. (Last' <=> Last) /\ MaxAheadOfEvent' = MaxAheadOfEvent
      BY <1>0 DEF Last, MaxAheadOfEvent
    <3>5. InStep(ahead)'
      BY <1>0, <3>1, <3>2, <3>3 DEF InStep, UntilHop, NextIdx
    <3>6. UpdateKnown' /\ Counted' /\ InstantAhead'
      BY <1>0, <2>2, <3>2, <3>3, <3>4 DEF Kept, UpdateKnown, Counted, EventNumber, InstantAhead
    <3>7. Timed'
      BY <3>4, <3>5 DEF Timed
    <3> QED BY <1>0, <1>1, <3>6, <3>7 DEF FollowInv, Kept, LeInv
  <2>3. CASE Unapplied
    BY <1>0, <1>1, <2>3 DEF FollowInv, Unapplied, LeInv
  <2>4. ~Applying
    BY <1>3 DEF Applying, Hopped
  <2> QED BY <1>1, <2>2, <2>3, <2>4 DEF FollowInv, LeInv
<1> QED BY <1>2, <1>3

(* The receiver has hopped when an event begins, and the units until its   *)
(* next hop are those of the interval that it knows.                       *)
LEMMA HoppedInTime ==
  ASSUME LeInv, EventBegins, Following'
  PROVE  /\ Following /\ Kept /\ Hopped /\ ~Hopped' /\ ~due /\ due' = TRUE /\ onair = "none"
         /\ UNCHANGED <<channel, do_hop, interval_timer, conn_interval, conn_count, update, late>>
         /\ Counted' /\ air'.event # NoEvent
         /\ \E ahead \in 0 .. MaxAheadOfEvent : interval_timer = conn_interval - ahead
<1>0. /\ ~due /\ due' = TRUE /\ onair = "none" /\ air.next = 1
      /\ UNCHANGED <<pc, channel, do_hop, interval_timer, conn_interval, conn_count, update,
                     late, link_state, aa, meddled, cut>>
      /\ (pc = "off" \/ ~do_hop)
  BY EventFacts DEF LeInv, receiver, hopping, interval
<1>1. /\ air.on /\ air'.idx = NextIdx(air.idx, air.inc) /\ air'.event = air.event + 1
      /\ air'.event \in Nat /\ ~blind /\ ~(air.switched /\ ~heard)
  BY EventShape DEF LeInv, Following, Sound
<1>2. Following /\ ~do_hop
  BY <1>0, <1>1 DEF Following, Sound
<1>3. Kept
  BY <1>1, <1>2 DEF LeInv, FollowInv, Applying, Unapplied
<1>4. PICK ahead \in 0 .. MaxAheadOfEvent : InStep(ahead)
  BY <1>3 DEF Kept, Timed
<1>5. ahead \in Nat /\ conn_interval \in Nat
  BY <1>2, <1>3, KeptFacts, IntervalFacts, Constants DEF LeInv
<1>6. UntilHop(ahead) = -ahead
  BY <1>0, <1>5 DEF UntilHop
<1>7. Hopped /\ channel = NextIdx(air.idx, air.inc)
  BY <1>2, <1>4, <1>5, <1>6 DEF InStep
<1>8. interval_timer = conn_interval - ahead
  BY <1>4, <1>5, <1>6, <1>7 DEF InStep
<1>9. ~Hopped'
  BY <1>0, <1>1, <1>2, <1>7 DEF Hopped
<1>10. Counted' /\ air'.event # NoEvent
  BY <1>0, <1>1, <1>3, <1>7, <1>9 DEF Kept, Counted, EventNumber, NoEvent
<1> QED BY <1>0, <1>2, <1>3, <1>4, <1>7, <1>8, <1>9, <1>10

(* What the countdown must be when an event has just begun. *)
LEMMA BegunInStep ==
  ASSUME TypeOK, TypeOK', NEW ahead \in Nat, ~Hopped', due' = TRUE, air'.next \in Int,
         interval_timer' = air'.next - ahead, air'.next - ahead > 0
  PROVE  InStep(ahead)'
<1>1. UntilHop(ahead)' = air'.next - ahead
  BY DEF UntilHop
<1> QED BY <1>1 DEF InStep

LEMMA FollowBegins ==
  ASSUME LeInv, EventBegins, TypeOK', AirInv'
  PROVE  FollowInv'
<1> SUFFICES ASSUME Following' PROVE FollowInv'
  BY DEF FollowInv
<1>0. /\ Following /\ Kept /\ Hopped /\ ~Hopped' /\ ~due /\ due' = TRUE /\ onair = "none"
      /\ UNCHANGED <<channel, do_hop, interval_timer, conn_interval, conn_count, update, late>>
      /\ Counted' /\ air'.event # NoEvent /\ heard' = FALSE
  BY HoppedInTime, EventFacts DEF LeInv
<1>1. PICK ahead \in 0 .. MaxAheadOfEvent : interval_timer = conn_interval - ahead
  BY HoppedInTime
<1>2. /\ conn_interval \in Nat /\ conn_interval > MaxOffset + 2 /\ ahead \in 0 .. MaxOffset + 1
      /\ ahead \in Nat /\ MaxOffset \in Nat /\ MaxAhead \in Nat
  BY <1>0, <1>1, KeptFacts, IntervalFacts, Constants DEF LeInv
<1>3. /\ air'.event = air.event + 1 /\ air'.anchor /\ (air.changed => air'.changed)
      /\ (air'.changed => air.changed \/ Announcing) /\ air.event \in Int
      /\ ~blind' /\ (Starting \/ GoingOn \/ Announcing)
  BY <1>0, EventShape, FollowFacts DEF LeInv, Following, Sound
<1>4. /\ air.interval \in Intervals /\ air.interval \in Nat
      /\ (air.change # NoUpdate =>
            /\ air.changed /\ air.change.offset \in 0 .. MaxOffset
            /\ air.change.interval # air.interval /\ air.change.instant \in Count)
  BY <1>0, FollowFacts, IntervalFacts DEF LeInv
<1>5. CASE Starting
  <2>1. CASE conn_interval = air.interval
    <3>1. update = air.change /\ ~late
      BY <1>0, <1>3, <1>4, <1>5, <2>1 DEF Starting, Last, Kept, UpdateKnown
    <3>2. ahead <= MaxOffset /\ interval_timer' > 1
      BY <1>0, <1>1, <1>2, <1>5, <2>1 DEF Starting, Last, MaxAheadOfEvent
    <3>3. conn_count' = air'.event % Width /\ ~late'
      BY <1>0, <3>1 DEF Counted, EventNumber
    <3>4. update'.instant = air'.event % Width /\ update'.interval = air'.interval
          /\ update' # NoUpdate
      BY <1>0, <1>3, <1>5, <3>1 DEF Starting, Last
    <3>5. Applying'
      BY <1>0, <1>3, <1>5, <3>2, <3>3, <3>4 DEF Applying, Starting
    <3> QED BY <1>0, <3>5 DEF FollowInv
  <2>2. CASE conn_interval # air.interval
    <3>1. conn_interval = air.change.interval /\ update = NoUpdate
      BY <1>0, <1>5, <2>2 DEF Starting, Last, Kept, UpdateKnown
    <3>2. air'.next = conn_interval /\ air'.interval = conn_interval /\ air'.change = NoUpdate
          /\ air'.changed
      BY <1>3, <1>5, <3>1 DEF Starting
    <3>3. InStep(ahead)'
      BY <1>0, <1>1, <1>2, <3>2, BegunInStep DEF LeInv
    <3>4. ahead \in 0 .. MaxAheadOfEvent'
      BY <1>2, <3>2 DEF MaxAheadOfEvent
    <3>5. UpdateKnown' /\ InstantAhead'
      BY <1>0, <3>1, <3>2 DEF UpdateKnown, InstantAhead
    <3> QED BY <1>0, <3>3, <3>4, <3>5 DEF FollowInv, Kept, Timed
  <2> QED BY <2>1, <2>2
<1>6. CASE GoingOn /\ air.change = NoUpdate
  <2>1. conn_interval = air.interval /\ update = NoUpdate
    BY <1>0, <1>6 DEF Kept, UpdateKnown
  <2>2. ~Last' /\ air'.change = NoUpdate /\ air'.interval = air.interval
        /\ air'.next = air.interval
    BY <1>4, <1>6 DEF GoingOn, Last
  <2>3. InStep(ahead)'
    BY <1>0, <1>1, <1>2, <1>4, <2>1, <2>2, BegunInStep DEF LeInv
  <2>4. ~Announcing
    BY <1>6 DEF GoingOn, Announcing
  <2>5. ahead \in 0 .. MaxAheadOfEvent'
    BY <1>1, <1>3, <1>6, <2>2, <2>4 DEF MaxAheadOfEvent
  <2>6. UpdateKnown' /\ InstantAhead'
    BY <1>0, <2>1, <2>2 DEF UpdateKnown, InstantAhead
  <2> QED BY <1>0, <2>3, <2>5, <2>6 DEF FollowInv, Kept, Timed
<1>7. CASE GoingOn /\ air.change # NoUpdate
  <2>1. /\ conn_interval = air.interval /\ ahead = 0
        /\ update = air.change \/ (update = NoUpdate /\ late)
    BY <1>0, <1>1, <1>7 DEF Kept, UpdateKnown, MaxAheadOfEvent, GoingOn
  <2>2. /\ air'.change = air.change /\ air'.interval = air.interval
        /\ air'.next = air.interval + IF Last' THEN air.change.offset ELSE 0
        /\ ~Last
    BY <1>7 DEF GoingOn
  <2>3. \E put_off \in 0 .. MaxAheadOfEvent' : air'.next = air.interval + put_off
    <3>1. CASE Last'
      <4>1. MaxAheadOfEvent' = MaxOffset /\ air.change.offset \in 0 .. MaxOffset
        BY <1>0, <1>4, <1>7, <2>1, <2>2, <3>1 DEF MaxAheadOfEvent
      <4> QED BY <2>2, <3>1, <4>1
    <3>2. CASE ~Last'
      <4>1. MaxAheadOfEvent' = 0
        BY <1>7, <2>2, <3>2 DEF MaxAheadOfEvent
      <4> QED BY <2>2, <3>2, <4>1
    <3> QED BY <3>1, <3>2
  <2>4. PICK put_off \in 0 .. MaxAheadOfEvent' : air'.next = air.interval + put_off
    BY <2>3
  <2>5. InStep(put_off)'
    <3>1. /\ air'.next \in Int /\ air'.next - put_off = air.interval /\ put_off \in Nat
          /\ interval_timer = air.interval /\ air.interval > 0
      BY <1>1, <1>2, <1>4, <2>1, <2>4
    <3> QED BY <1>0, <3>1, BegunInStep DEF LeInv
  <2>6. UpdateKnown'
    BY <1>0, <1>7, <2>1, <2>2 DEF UpdateKnown
  <2>7. InstantAhead'
    <3>1. PICK d \in 1 .. MaxAhead : \E m \in d .. Width - 1 :
            /\ air.change.instant = (air.event + d) % Width
            /\ air.change.instant = (conn_count + (m - 1)) % Width
      BY <1>0, <1>7 DEF Kept, InstantAhead
    <3>2. PICK m \in d .. Width - 1 : air.change.instant = (conn_count + (m - 1)) % Width
      BY <3>1
    <3>3. d # 1
      BY <1>7, <2>2, <3>1 DEF Last
    <3>4. /\ d - 1 \in 1 .. MaxAhead /\ m - 1 \in d - 1 .. Width - 1
          /\ air'.event + (d - 1) = air.event + d
      BY <1>2, <1>3, <3>3, Constants
    <3>5. /\ air'.change.instant = (air'.event + (d - 1)) % Width
          /\ air'.change.instant = (conn_count' + (m - 1)) % Width
      BY <1>0, <2>2, <3>1, <3>2, <3>4
    <3> QED BY <1>0, <3>4, <3>5 DEF InstantAhead
  <2> QED BY <1>0, <2>4, <2>5, <2>6, <2>7 DEF FollowInv, Kept, Timed
<1>8. CASE Announcing
  <2>1. conn_interval = air.interval /\ update = NoUpdate /\ ahead = 0
    BY <1>0, <1>1, <1>8 DEF Kept, UpdateKnown, Announcing, MaxAheadOfEvent
  <2>2. /\ ~Last' /\ air'.change # NoUpdate /\ air'.interval = air.interval
        /\ air'.next = air.interval /\ onair' = "update"
        /\ ~Misread(air'.change.instant, air'.event)
    BY <1>3, <1>8 DEF Announcing
  <2>3. InStep(0)'
    BY <1>0, <1>1, <1>2, <1>4, <2>1, <2>2, BegunInStep DEF LeInv
  <2>4. 0 \in 0 .. MaxAheadOfEvent'
    BY <2>2 DEF MaxAheadOfEvent
  <2>5. UpdateKnown'
    BY <1>0, <2>1, <2>2 DEF UpdateKnown
  <2>6. InstantAhead'
    <3>1. PICK d \in 2 .. MaxAhead : air'.change.instant = (air'.event + d) % Width
      BY <1>8 DEF Announcing
    <3> DEFINE instant == air'.change.instant
               event   == air'.event
               count   == conn_count
    <3>2. instant \in Count /\ event \in Int /\ count \in Int /\ d \in 0 .. MaxAhead
      <4>1. conn_count \in Count /\ air' \in Connections
        BY DEF LeInv, TypeOK
      <4>2. instant \in Count
        BY <2>2, <4>1 DEF Connections, Updates
      <4> QED BY <1>2, <1>3, <4>1, <4>2 DEF Count
    <3>3. instant = (event + d) % Width
      BY <3>1
    <3>4. ~((instant - count) % Width < (instant - event) % Width)
      BY <2>2 DEF Misread
    <3> HIDE DEF instant, event, count
    <3> DEFINE m == (instant - count) % Width
    <3>5. (instant - event) % Width = d /\ (count + m) % Width = instant /\ m \in Count
      <4>1. \A e, i, c \in Int : i \in Count /\ i = (e + d) % Width =>
              /\ (i - e) % Width = d
              /\ (c + ((i - c) % Width)) % Width = i
              /\ (i - c) % Width \in Count
        BY <3>2, Distances
      <4>2. instant \in Int
        BY <3>2, Constants DEF Count
      <4> QED BY <3>2, <3>3, <4>1, <4>2
    <3>6. ~(m < d)
      BY <3>4, <3>5
    <3> HIDE DEF m
    <3>7. d \in 1 .. MaxAhead /\ m \in d .. Width - 1
      BY <1>2, <3>5, <3>6, Constants DEF Count
    <3> QED BY <1>0, <3>3, <3>5, <3>7 DEF InstantAhead, instant, event, count
  <2> QED BY <1>0, <2>3, <2>4, <2>5, <2>6 DEF FollowInv, Kept, Timed
<1> QED BY <1>3, <1>5, <1>6, <1>7, <1>8

LEMMA FollowTimer ==
  ASSUME LeInv, TIMER0_IRQHandler
  PROVE  FollowInv'
<1> SUFFICES ASSUME Following' PROVE FollowInv'
  BY DEF FollowInv
<1>0. /\ due /\ due' = FALSE
      /\ UNCHANGED <<pc, air, onair, hop_mode, channel, conn_interval, update, late, heard,
                     link_state, aa, blind, meddled, cut>>
      /\ interval_timer' = IF ~Counts THEN interval_timer
                           ELSE IF (interval_timer - 1) % Width = 0 THEN conn_interval
                           ELSE (interval_timer - 1) % Width
      /\ conn_count' = IF Counts /\ (interval_timer - 1) % Width = 0
                         THEN (conn_count + 1) % Width ELSE conn_count
  BY DEF TIMER0_IRQHandler, requests, history, Reload
<1>1. Following /\ Counts
  <2>1. Following
    BY <1>0 DEF Following, Sound
  <2> QED BY <2>1, FollowFacts DEF LeInv, Counts, Following, Sound
<1>2. do_hop' \in {do_hop \/ (interval_timer - 1) % Width = 0}
  <2>1. do_hop' \in CASE Counts           -> {do_hop \/ (interval_timer - 1) % Width = 0}
                     [] hop_mode = "none" -> {do_hop, TRUE}
                     [] OTHER             -> {do_hop}
    BY Zenon DEF TIMER0_IRQHandler
  <2> QED BY <1>1, <2>1, FollowFacts DEF LeInv
<1>3. interval_timer \in Count /\ conn_count \in Count /\ do_hop \in BOOLEAN
  BY DEF LeInv, TypeOK
<1>4. (Last' <=> Last) /\ MaxAheadOfEvent' = MaxAheadOfEvent
  BY <1>0 DEF Last, MaxAheadOfEvent
(* A unit is counted that is not the last. *)
<1>5. ASSUME interval_timer > 1
      PROVE  /\ interval_timer' = interval_timer - 1 /\ conn_count' = conn_count
             /\ do_hop' = do_hop
  <2>1. interval_timer - 1 \in Count
    BY <1>3, <1>5, Constants DEF Count
  <2>2. (interval_timer - 1) % Width = interval_timer - 1
    BY <2>1, CountsModWidth
  <2>3. (interval_timer - 1) % Width # 0
    BY <1>3, <1>5, <2>2 DEF Count
  <2>4. do_hop' = do_hop
    BY <1>2, <1>3, <2>3
  <2> QED BY <1>0, <1>1, <2>2, <2>3, <2>4
<1>6. CASE Kept
  <2>1. PICK ahead \in 0 .. MaxAheadOfEvent : InStep(ahead)
    BY <1>6 DEF Kept, Timed
  <2>2. /\ conn_interval \in Nat /\ conn_interval > MaxOffset + 2 /\ conn_interval \in Count
        /\ ahead \in 0 .. MaxOffset + 1 /\ ahead \in Nat /\ MaxOffset \in Nat
        /\ air.next \in Nat \ {0}
    BY <1>1, <1>6, <2>1, KeptFacts, FollowFacts, IntervalFacts, Constants DEF LeInv
  <2>3. UntilHop(ahead) = air.next - ahead /\ UntilHop(ahead)' = air.next - 1 - ahead
    BY <1>0, <2>2 DEF UntilHop
  <2>4. CASE interval_timer > 1 /\ (Hopped => ~do_hop)
    <3>1. (Hopped' <=> Hopped) /\ do_hop' = do_hop /\ interval_timer' = interval_timer - 1
          /\ conn_count' = conn_count
      BY <1>0, <1>5, <2>4 DEF Hopped
    <3>2. InStep(ahead)'
      <4>1. CASE Hopped
        <5>1. /\ UntilHop(ahead) <= 0 /\ channel = NextIdx(air.idx, air.inc)
              /\ interval_timer = UntilHop(ahead) + conn_interval
          BY <2>1, <2>4, <4>1 DEF InStep
        <5>2. UntilHop(ahead)' <= 0 /\ interval_timer' = UntilHop(ahead)' + conn_interval
          BY <2>2, <2>3, <3>1, <5>1
        <5> QED BY <1>0, <2>4, <3>1, <4>1, <5>1, <5>2 DEF InStep, NextIdx
      <4>2. CASE ~Hopped
        <5>1. interval_timer = UntilHop(ahead)
          BY <2>1, <4>2 DEF InStep
        <5>2. UntilHop(ahead)' > 0 /\ interval_timer' = UntilHop(ahead)'
          BY <2>2, <2>3, <2>4, <3>1, <5>1
        <5> QED BY <3>1, <4>2, <5>2 DEF InStep
      <4> QED BY <4>1, <4>2
    <3>3. UpdateKnown' /\ Counted' /\ InstantAhead'
      BY <1>0, <1>4, <1>6, <3>1 DEF Kept, UpdateKnown, Counted, EventNumber, InstantAhead
    <3>4. Timed'
      BY <1>4, <3>2 DEF Timed
    <3> QED BY <1>0, <1>1, <3>3, <3>4 DEF FollowInv, Kept, LeInv
  <2>5. CASE Hopped
    <3>1. ~do_hop /\ UntilHop(ahead) <= 0 /\ interval_timer = UntilHop(ahead) + conn_interval
      BY <1>0, <2>1, <2>5 DEF InStep
    <3>2. interval_timer > 1
      BY <2>2, <2>3, <3>1
    <3> QED BY <2>4, <3>1, <3>2
  <2>6. CASE ~Hopped /\ ~(interval_timer > 1)
    <3>1. interval_timer = UntilHop(ahead) /\ UntilHop(ahead) > 0 /\ ~do_hop
          /\ channel = air.idx
      BY <2>1, <2>6 DEF InStep, Hopped
    <3>2. interval_timer = 1 /\ UntilHop(ahead)' = 0
      BY <2>2, <2>3, <2>6, <3>1
    <3>3. (interval_timer - 1) % Width = 0
      <4>1. interval_timer - 1 = 0
        BY <3>2
      <4> QED BY <4>1, CountsModWidth, Constants
    <3>4. interval_timer' = conn_interval /\ conn_count' = (conn_count + 1) % Width
          /\ do_hop' = TRUE
      <4>1. do_hop'
        BY <1>2, <3>3, Zenon
      <4> QED BY <1>0, <1>1, <1>2, <1>3, <3>3, <4>1
    <3>5. InStep(ahead)'
      <4>1. Hopped' /\ channel' = air'.idx /\ ~due'
        BY <1>0, <3>1, <3>4 DEF Hopped
      <4>2. interval_timer' = UntilHop(ahead)' + conn_interval'
        BY <1>0, <2>2, <3>2, <3>4
      <4> QED BY <3>2, <3>4, <4>1, <4>2 DEF InStep
    <3>6. Counted'
      <4>1. ~late => conn_count = air.event % Width
        BY <1>6, <2>6 DEF Kept, Counted, EventNumber
      <4>2. ((air.event % Width) + 1) % Width = (air.event + 1) % Width
        <5>1. air.event \in Int /\ 1 \in Int
          BY <1>1, FollowFacts DEF LeInv
        <5> QED BY <5>1, CountsModWidth
      <4> QED BY <1>0, <3>4, <4>1, <4>2 DEF Counted, EventNumber, Hopped
    <3>7. UpdateKnown'
      BY <1>0, <1>6, <2>6 DEF Kept, UpdateKnown
    <3>8. InstantAhead'
      <4>1. SUFFICES ASSUME air.change # NoUpdate PROVE InstantAhead'
        BY <1>0 DEF InstantAhead
      <4>2. PICK d \in 1 .. MaxAhead : \E m \in d .. Width - 1 :
              /\ air.change.instant = (air.event + d) % Width
              /\ air.change.instant = (conn_count + m) % Width
        BY <1>6, <2>6, <4>1 DEF Kept, InstantAhead
      <4>3. PICK m \in d .. Width - 1 : air.change.instant = (conn_count + m) % Width
        BY <4>2
      <4>4. (((conn_count + 1) % Width) + (m - 1)) % Width = (conn_count + m) % Width
        <5> DEFINE count == conn_count
        <5>1. count + 1 \in Int /\ m - 1 \in Int /\ (count + 1) + (m - 1) = count + m
          BY <1>3, <4>2, <4>3 DEF Count
        <5> HIDE DEF count
        <5>2. (((count + 1) % Width) + (m - 1)) % Width = ((count + 1) + (m - 1)) % Width
          BY <5>1, CountsModWidth
        <5> QED BY <5>1, <5>2 DEF count
      <4>5. Hopped'
        BY <3>4 DEF Hopped
      <4> QED BY <1>0, <3>4, <4>2, <4>3, <4>4, <4>5 DEF InstantAhead
    <3> QED BY <1>0, <1>1, <1>4, <3>5, <3>6, <3>7, <3>8 DEF FollowInv, Kept, Timed, LeInv
  <2> QED BY <2>4, <2>5, <2>6
<1>7. CASE Applying
  <2>1. interval_timer > 1 /\ ~do_hop /\ channel = air.idx
    BY <1>0, <1>7 DEF Applying, Hopped
  <2>2. /\ interval_timer' = interval_timer - 1 /\ conn_count' = conn_count /\ do_hop' = do_hop
    BY <1>5, <2>1
  <2>3. interval_timer' > 0
    BY <1>3, <2>1, <2>2 DEF Count
  <2>4. Applying'
    BY <1>0, <1>7, <2>1, <2>2, <2>3 DEF Applying, Hopped
  <2> QED BY <1>0, <1>1, <2>4 DEF FollowInv, LeInv
<1>8. CASE Unapplied
  BY <1>0, <1>1, <1>8 DEF FollowInv, Unapplied, LeInv
<1> QED BY <1>1, <1>6, <1>7, <1>8 DEF FollowInv, LeInv

(* The countdown that the first packet of an event starts. *)
LEMMA RestartedInStep ==
  ASSUME TypeOK, ~Hopped', due' = FALSE, air'.next = air'.interval,
         air'.interval \in Intervals, conn_interval' = air'.interval,
         interval_timer' = Restarted(air'.interval)
  PROVE  InStep(0)'
<1> DEFINE i == air'.interval
<1>1. i \in Nat /\ i > 2 /\ i - 1 \in Count
  BY IntervalFacts, Constants DEF Count
<1>2. (i - 1) % Width = i - 1
  BY <1>1, CountsModWidth
<1>3. UntilHop(0)' = i - 1
  BY <1>1 DEF UntilHop
<1>4. interval_timer' = i - 1
  BY <1>2 DEF Restarted
<1>5. UntilHop(0)' > 0
  BY <1>1, <1>3
<1> QED BY <1>3, <1>4, <1>5 DEF InStep

LEMMA FollowFirst ==
  ASSUME LeInv, TakeFirst
  PROVE  FollowInv'
<1> SUFFICES ASSUME Following' PROVE FollowInv'
  BY DEF FollowInv
<1>0. /\ pc = "packet" /\ link_state = "CONN_PENDING" /\ due' = FALSE
      /\ UNCHANGED <<air, aa, channel, cut, do_hop, channel_increment, conn_interval, meddled>>
      /\ interval_timer' = Restarted(conn_interval) /\ conn_count' = 0 /\ update' = NoUpdate
      /\ onair' = "none"
  BY DEF TakeFirst, PacketTaken
<1>1. /\ ~blind /\ air.anchor /\ ~air.switched /\ air.change = NoUpdate
  <2>1. ~blind' /\ blind' = (blind \/ ~air.anchor \/ air.switched \/ air.change # NoUpdate)
    BY DEF TakeFirst, Following, Sound
  <2> QED BY <2>1, Zenon
<1>2. air.on /\ ~meddled /\ ~cut /\ aa = "mine"
  BY <1>0 DEF Following, Sound
<1>3. ~do_hop /\ conn_interval = air.interval
  BY <1>0, <1>1, <1>2 DEF LeInv, LinkInv, Pending
<1>4. channel = air.idx
  BY <1>0, <1>2 DEF LeInv, ListenInv, Matches
<1>5. air.interval \in Intervals /\ air.event # NoEvent
  BY <1>1, <1>2 DEF LeInv, AirInv
<1>6. air.next = air.interval
  BY <1>1, <1>2, <1>5, IntervalFacts DEF LeInv, AirInv, Last
<1>7. ~Hopped'
  BY <1>0, <1>3, <1>4 DEF Hopped
<1>8. InStep(0)'
  BY <1>0, <1>3, <1>5, <1>6, <1>7, RestartedInStep DEF LeInv
<1>9. 0 \in 0 .. MaxAheadOfEvent'
  BY <1>0, <1>1, Constants DEF MaxAheadOfEvent
<1>10. UpdateKnown' /\ InstantAhead'
  BY <1>0, <1>1, <1>3 DEF UpdateKnown, InstantAhead
<1>11. Counted'
  <2>1. ~late' => air.event = 0
    <3>1. late' = (air.event # 0)
      BY DEF TakeFirst
    <3> QED BY <3>1, Zenon
  <2>2. 0 % Width = 0
    BY CountsModWidth, Constants
  <2> QED BY <1>0, <1>7, <2>1, <2>2 DEF Counted, EventNumber
<1> QED BY <1>0, <1>5, <1>8, <1>9, <1>10, <1>11 DEF FollowInv, Kept, Timed

LEMMA FollowData ==
  ASSUME LeInv, TakeData
  PROVE  FollowInv'
<1> SUFFICES ASSUME Following' PROVE FollowInv'
  BY DEF FollowInv
<1>0. /\ pc = "packet" /\ link_state = "CONNECTED"
      /\ UNCHANGED <<air, aa, channel, cut, do_hop, conn_count, link_state, late, blind, meddled>>
      /\ onair' = "none"
  BY DEF TakeData, PacketTaken
<1>1. /\ UpdateDue => /\ due' = FALSE /\ conn_interval' = update.interval
                      /\ interval_timer' = Restarted(update.interval)
      /\ ~UpdateDue => UNCHANGED <<due, conn_interval, interval_timer>>
  BY DEF TakeData
<1>2. /\ onair = "update" => update' = Announced(IF UpdateDue THEN NoUpdate ELSE update, air.change)
      /\ onair # "update" => update' = IF UpdateDue THEN NoUpdate ELSE update
  BY DEF TakeData
<1>3. Following
  BY <1>0 DEF Following, Sound
<1>4. /\ channel = air.idx /\ onair \in {"data", "update"} /\ air.on
      /\ onair = "update" => air.change # NoUpdate /\ air.anchor
  BY <1>0, <1>3 DEF LeInv, ListenInv, Matches, Following, Sound, AirInv
<1>5. (Hopped' <=> Hopped) /\ (Hopped <=> do_hop) /\ (Last' <=> Last)
  BY <1>0, <1>4 DEF Hopped, Last
<1>6. /\ conn_count \in Count /\ air.interval \in Intervals
      /\ air.change # NoUpdate =>
           /\ air.change.interval \in Intervals /\ air.change.interval # air.interval
           /\ air.change.instant \in Count
      /\ air.event \in Int /\ air.next \in Nat \ {0} /\ MaxOffset \in Nat /\ MaxAhead \in Nat
  BY <1>3, FollowFacts, Constants DEF LeInv, TypeOK
(* A packet at which nothing is applied leaves the countdown alone. *)
<1>7. ASSUME Kept, ~UpdateDue, UpdateKnown'
      PROVE  FollowInv'
  <2>1. MaxAheadOfEvent' = MaxAheadOfEvent
    BY <1>0, <1>1, <1>5, <1>7 DEF MaxAheadOfEvent
  <2>2. Timed'
    BY <1>0, <1>1, <1>5, <1>7, <2>1 DEF Kept, Timed, InStep, UntilHop, NextIdx
  <2>3. Counted' /\ InstantAhead'
    BY <1>0, <1>5, <1>7 DEF Kept, Counted, EventNumber, InstantAhead
  <2> QED BY <1>0, <1>3, <1>7, <2>2, <2>3 DEF FollowInv, Kept, LeInv
<1>8. CASE Kept /\ ~Hopped
  <2>1. \/ air.change = NoUpdate /\ update = NoUpdate /\ conn_interval = air.interval
        \/ /\ air.change # NoUpdate /\ conn_interval = air.interval
           /\ update = air.change \/ (update = NoUpdate /\ (late \/ onair = "update"))
    BY <1>8 DEF Kept, UpdateKnown
  <2>2. ASSUME air.change # NoUpdate
        PROVE  /\ conn_count # air.change.instant
               /\ \E d \in 1 .. MaxAhead : air.change.instant = (air.event + d) % Width
    <3>1. PICK d \in 1 .. MaxAhead : \E m \in d .. Width - 1 :
            /\ air.change.instant = (air.event + d) % Width
            /\ air.change.instant = (conn_count + m) % Width
      BY <1>8, <2>2 DEF Kept, InstantAhead
    <3>2. PICK m \in d .. Width - 1 : air.change.instant = (conn_count + m) % Width
      BY <3>1
    <3>3. conn_count # (conn_count + m) % Width
      <4> DEFINE count == conn_count
                 later == conn_count + m
      <4>1. /\ count \in Int /\ later \in Int /\ count - later < Width /\ later - count < Width
            /\ count # later
        BY <1>6, <3>1, <3>2, Constants DEF Count
      <4>2. count % Width = count
        BY <1>6, CountsModWidth
      <4> HIDE DEF count, later
      <4>3. count # later % Width
        BY <4>1, <4>2, CountsModWidth
      <4> QED BY <4>3 DEF count, later
    <3> QED BY <3>1, <3>2, <3>3
  <2>3. ~UpdateDue
    BY <2>1, <2>2 DEF UpdateDue
  <2>4. CASE onair = "data"
    <3>1. UpdateKnown'
      BY <1>0, <1>1, <1>2, <2>1, <2>3, <2>4 DEF UpdateKnown
    <3> QED BY <1>7, <1>8, <2>3, <3>1
  <2>5. CASE onair = "update"
    <3>1. update' = Announced(update, air.change) /\ air.change # NoUpdate
      BY <1>2, <1>4, <2>3, <2>5
    <3>2. CASE late
      BY <1>0, <1>1, <1>7, <1>8, <2>1, <2>3, <3>1, <3>2 DEF UpdateKnown, Announced
    <3>3. CASE ~late
      <4>1. conn_count = air.event % Width
        BY <1>8, <3>3 DEF Kept, Counted, EventNumber
      <4>2. PICK d \in 1 .. MaxAhead : air.change.instant = (air.event + d) % Width
        BY <2>2, <3>1
      <4>3. air.change.instant - conn_count <= d
        <5>1. ((air.event + d) % Width) - (air.event % Width) <= d
          <6>1. air.event \in Int /\ d \in Nat
            BY <1>6
          <6> QED BY <6>1, CountGrowth
        <5> QED BY <4>1, <4>2, <5>1
      <4>4. ~(air.change.instant - conn_count >= InstantLimit)
        <5>1. air.change.instant \in Int /\ conn_count \in Int
          BY <1>6, <3>1, Constants DEF Count
        <5> QED BY <4>3, <5>1, Constants
      <4>5. update' = air.change
        BY <3>1, <4>4 DEF Announced
      <4> QED BY <1>0, <1>1, <1>7, <1>8, <2>1, <2>3, <3>1, <4>5 DEF UpdateKnown
    <3> QED BY <3>2, <3>3
  <2> QED BY <1>4, <2>4, <2>5
<1>9. CASE Kept /\ Hopped
  <2>1. onair = "data"
    BY <1>3, <1>4, <1>9, KeptFacts DEF LeInv
  <2>2. CASE ~UpdateDue
    <3>1. UpdateKnown'
      BY <1>0, <1>1, <1>2, <1>5, <1>9, <2>1, <2>2 DEF Kept, UpdateKnown
    <3> QED BY <1>7, <1>9, <2>2, <3>1
  <2>3. CASE UpdateDue
    <3>1. update # NoUpdate /\ conn_count = update.instant
      BY <2>3 DEF UpdateDue
    <3>2. air.change # NoUpdate /\ update = air.change /\ conn_interval = air.interval
      BY <1>9, <3>1 DEF Kept, UpdateKnown
    <3>3. Last
      <4>1. PICK d \in 1 .. MaxAhead : \E m \in d .. Width - 1 :
              /\ air.change.instant = (air.event + d) % Width
              /\ air.change.instant = (conn_count + (m - 1)) % Width
        BY <1>9, <3>2 DEF Kept, InstantAhead
      <4>2. PICK m \in d .. Width - 1 : air.change.instant = (conn_count + (m - 1)) % Width
        BY <4>1
      <4>3. m = 1
        <5> DEFINE count == conn_count
                   later == conn_count + (m - 1)
        <5>1. /\ count \in Int /\ later \in Int /\ count - later < Width /\ later - count < Width
          BY <1>6, <4>1, <4>2, Constants DEF Count
        <5>2. count % Width = count
          BY <1>6, CountsModWidth
        <5>3. count % Width = later % Width
          BY <3>1, <3>2, <4>2, <5>2
        <5> HIDE DEF count, later
        <5>4. count = later
          BY <5>1, <5>3, CountsModWidth
        <5> QED BY <1>6, <4>1, <4>2, <5>4 DEF count, later, Count
      <4>4. d = 1
        BY <4>1, <4>2, <4>3
      <4> QED BY <3>2, <4>1, <4>4 DEF Last
    <3>4. PICK ahead \in 0 .. MaxOffset : InStep(ahead)
      BY <1>9, <3>2, <3>3 DEF Kept, Timed, MaxAheadOfEvent
    <3>5. ~due /\ do_hop /\ UntilHop(ahead) = 0
      BY <1>5, <1>9, <3>2, <3>4 DEF InStep
    <3>6. air.next = ahead + 1
      BY <1>6, <3>4, <3>5 DEF UntilHop
    <3>7. /\ update' = NoUpdate /\ due' = FALSE /\ conn_interval' = air.change.interval
          /\ interval_timer' = Restarted(air.change.interval)
      BY <1>1, <1>2, <2>1, <2>3, <3>2
    <3>8. interval_timer' = conn_interval' - 1 /\ conn_interval' \in Int
      <4> DEFINE i == air.change.interval
      <4>1. i \in Nat /\ i - 1 \in Count
        BY <1>6, <3>2, IntervalFacts, Constants DEF Count
      <4>2. (i - 1) % Width = i - 1
        BY <4>1, CountsModWidth
      <4> QED BY <3>7, <4>1, <4>2 DEF Restarted
    <3>9. UntilHop(ahead + 1)' = -1
      BY <1>0, <1>6, <3>4, <3>6, <3>7 DEF UntilHop
    <3>10. InStep(ahead + 1)'
      <4>1. Hopped' /\ do_hop' /\ channel' = air'.idx /\ ~due' /\ conn_interval' # air'.interval
        BY <1>0, <1>4, <1>5, <1>6, <1>9, <3>2, <3>5, <3>7
      <4>2. UntilHop(ahead + 1)' <= 0 /\ interval_timer' = UntilHop(ahead + 1)' + conn_interval'
        BY <3>8, <3>9
      <4> QED BY <4>1, <4>2 DEF InStep
    <3>11. ahead + 1 \in 0 .. MaxAheadOfEvent'
      <4>1. MaxAheadOfEvent' = MaxOffset + 1
        BY <1>0, <1>5, <1>6, <3>2, <3>3, <3>7 DEF MaxAheadOfEvent
      <4> QED BY <1>6, <3>4, <3>6, <4>1
    <3>12. UpdateKnown'
      BY <1>0, <1>5, <1>9, <3>2, <3>3, <3>7 DEF UpdateKnown
    <3>13. Counted' /\ InstantAhead'
      BY <1>0, <1>5, <1>9 DEF Kept, Counted, EventNumber, InstantAhead
    <3>14. Timed'
      BY <3>10, <3>11 DEF Timed
    <3> QED BY <1>0, <1>3, <3>12, <3>13, <3>14 DEF FollowInv, Kept, LeInv
  <2> QED BY <2>2, <2>3
<1>10. CASE Applying
  <2>1. UpdateDue /\ onair = "data" /\ ~Last
    BY <1>4, <1>10 DEF Applying, UpdateDue, Last
  <2>2. /\ update' = NoUpdate /\ due' = FALSE /\ conn_interval' = air.interval
        /\ interval_timer' = Restarted(air.interval)
    BY <1>1, <1>2, <1>10, <2>1 DEF Applying
  <2>3. air.next = air.interval
    BY <1>4, <1>6, <1>10, <2>1, IntervalFacts DEF Applying, LeInv, AirInv
  <2>4. ~Hopped' /\ air'.change = NoUpdate
    BY <1>0, <1>5, <1>10 DEF Applying
  <2>5. InStep(0)'
    BY <1>0, <1>6, <2>2, <2>3, <2>4, RestartedInStep DEF LeInv
  <2>6. 0 \in 0 .. MaxAheadOfEvent'
    BY <1>6, <2>4 DEF MaxAheadOfEvent
  <2>7. UpdateKnown' /\ InstantAhead' /\ Counted'
    BY <1>0, <1>10, <2>2, <2>4 DEF Applying, UpdateKnown, InstantAhead, Counted, EventNumber
  <2> QED BY <1>0, <1>3, <2>5, <2>6, <2>7 DEF FollowInv, Kept, Timed, LeInv
<1>11. CASE Unapplied
  <2>1. ~heard'
    <3>1. heard' = (heard \/ air.anchor)
      BY DEF TakeData
    <3> QED BY <1>11, <3>1, Zenon DEF Unapplied
  <2> QED BY <1>0, <1>3, <1>11, <2>1 DEF FollowInv, Unapplied, LeInv
<1> QED BY <1>3, <1>8, <1>9, <1>10, <1>11 DEF FollowInv, LeInv

LEMMA FollowStep ==
  ASSUME LeInv, [Next]_vars, TypeOK', AirInv'
  PROVE  FollowInv'
<1>1. CASE EventGoesOn \/ EventBegins
  BY <1>1, FollowGoesOn, FollowBegins
<1>2. CASE TIMER0_IRQHandler \/ Resume
  BY <1>2, FollowTimer, FollowResume
<1>3. CASE TakeFirst \/ TakeData
  BY <1>3, FollowFirst, FollowData
<1> QED BY <1>1, <1>2, <1>3, FollowQuiet DEF Next, Main, Take, Air

-----------------------------------------------------------------------------
(* The invariant, and what it says of the link.                            *)

LEMMA LeInit == Init => LeInv
<1> SUFFICES ASSUME Init PROVE LeInv
  OBVIOUS
<1>1. TypeOK
  BY TypeInit
<1>2. AirInv
  BY DEF Init, AirInv, Silent
<1>3. ListenInv
  BY DEF Init, ListenInv
<1>4. LinkInv /\ FollowInv
  BY DEF Init, LinkInv, FollowInv, Following, Sound
<1> QED BY <1>1, <1>2, <1>3, <1>4 DEF LeInv

LEMMA LeStep == LeInv /\ [Next]_vars => LeInv'
  BY TypeStep, AirStep, ListenStep, LinkStep, FollowStep DEF LeInv

(* The invariant that the others follow from holds of every behaviour.     *)
THEOREM LeInvariant == Spec => []LeInv
  BY LeInit, LeStep, PTL DEF Spec

(* Every variable of the receiver keeps its type, counts of 16 bits and    *)
(* channels of the band among them: bt_le_sync(), hop() and the timer's    *)
(* handler never leave them.                                               *)
THEOREM LinkTypes == Spec => []TypeOK
  BY LeInvariant, PTL DEF LeInv

LEMMA OnChannelHolds == LeInv => OnChannel
<1> SUFFICES ASSUME LeInv, Following, air.anchor PROVE channel = air.idx
  BY DEF OnChannel
<1>1. ~Unapplied
  BY DEF Unapplied
<1>2. Kept => ~Hopped
  BY KeptFacts DEF LeInv
<1> QED BY <1>1, <1>2 DEF LeInv, FollowInv, Applying, Hopped

(* Whatever packets are missed, at the start of an event of a connection   *)
(* that is followed the receiver is on the event's channel: the countdown  *)
(* of TIMER0_IRQHandler() and the hops of hop() keep step with a           *)
(* connection of any interval, offset and increment, through a change of   *)
(* its interval, for as many events as it has.                             *)
THEOREM StaysOnChannel == Spec => []OnChannel
  BY LeInvariant, OnChannelHolds, PTL

LEMMA CountHolds == LeInv => CountKept
<1> SUFFICES ASSUME LeInv, Following, ~late, air.anchor PROVE conn_count = air.event % Width
  BY DEF CountKept
<1>1. ~Unapplied
  BY DEF Unapplied
<1>2. Kept => ~Hopped /\ Counted
  BY KeptFacts DEF LeInv, Kept
<1> QED BY <1>1, <1>2 DEF LeInv, FollowInv, Applying, Counted, EventNumber

(* conn_count is the number of the event, modulo 2^16, also after it has   *)
(* wrapped.                                                                *)
THEOREM CountsEvents == Spec => []CountKept
  BY LeInvariant, CountHolds, PTL

LEMMA IntervalHolds == LeInv => IntervalRight
<1> SUFFICES ASSUME LeInv, Following, heard, channel = air.idx, ~do_hop
             PROVE  conn_interval = air.interval
  BY DEF IntervalRight
<1>1. Kept /\ ~Hopped
  BY DEF LeInv, FollowInv, Applying, Unapplied, Hopped
<1> QED BY <1>1 DEF Kept, UpdateKnown

(* A connection update takes effect in the event of its instant: once a    *)
(* packet of an event is taken, the interval that is counted is the        *)
(* connection's.                                                           *)
THEOREM UpdatesInTime == Spec => []IntervalRight
  BY LeInvariant, IntervalHolds, PTL

LEMMA ListensHolds == LeInv => ListensAgain
<1> SUFFICES ASSUME LeInv, pc = "wait", link_state = "LISTENING", ~leftover
             PROVE  receiving /\ aa = "adv" /\ channel \in AdvChannel /\ le_jam_count = 0
  BY DEF ListensAgain
<1>1. aa \in {"adv", "mine"} /\ aa # "mine"
  BY DEF LeInv, TypeOK, ListenInv
<1> QED BY <1>1 DEF LeInv, ListenInv

(* Back from a connection, whichever way its link ended, bt_le_sync()      *)
(* listens on an advertising channel, with advertising's access address.   *)
THEOREM BackToListening == Spec => []ListensAgain
  BY LeInvariant, ListensHolds, PTL
=============================================================================
