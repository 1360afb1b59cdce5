------------------------------ MODULE LeFollow ------------------------------
(***************************************************************************)
(* Following a low energy connection: bt_le_sync() with                    *)
(* connection_follow_cb(), hop() in its HOP_BTLE and HOP_NONE modes, the   *)
(* interval countdown of TIMER0_IRQHandler() and the requests that         *)
(* USB_IRQHandler() serves between any two steps - against a connection on *)
(* the air that starts, hops, changes its interval and ends as it likes,   *)
(* and whose packets may be missed.                                        *)
(*                                                                         *)
(* The unit of time is 1.25 ms, in which the timer's handler counts once.  *)
(* Channels are the indices of btle_channel_index(): the data channels,    *)
(* then the advertising channels.  A packet is its kind; whitening, CRC    *)
(* arithmetic and the DMA transfers of a packet are left out.              *)
(***************************************************************************)
EXTENDS Integers

CONSTANTS
  DataChannels,  \* 37
  AdvChannels,   \* how many advertising channels (3)
  Intervals,     \* the connections' intervals, in units
  MaxOffset,     \* the largest offset of a new interval's first event
  MaxAhead,      \* how many events an update is announced ahead
  ByteModulus,   \* 2^8, for the interval of a CONNECT_REQ
  Width,         \* 2^16, for interval_timer and conn_count
  InstantLimit,  \* 32767
  JamCount,      \* JAM_COUNT_DEFAULT
  MaxEvents,     \* bound: a connection's last event
  MaxMeddling,   \* bound: how often the host meddles, see Meddle
  Requested      \* the channels that the host may ask for

DataChannel == 0 .. DataChannels - 1
AdvChannel  == DataChannels .. DataChannels + AdvChannels - 1
NoChannel   == -1
NoEvent     == -1

ASSUME ChannelAssumption ==
  /\ DataChannels \in Nat /\ DataChannels > 1 /\ AdvChannels \in Nat \ {0}
  /\ Requested \subseteq AdvChannel

(* An event has ended, and hop() has retuned, before the next one begins,  *)
(* and an update is announced early enough to be told from one gone by.    *)
ASSUME IntervalAssumption ==
  /\ MaxOffset \in Nat
  /\ Intervals \subseteq Nat
  /\ \A i \in Intervals : i > MaxOffset + 2 /\ i < Width
  /\ MaxAhead \in Nat /\ MaxAhead < InstantLimit /\ InstantLimit < Width

ASSUME WidthAssumption ==
  ByteModulus \in Nat \ {0} /\ Width \in Nat /\ InstantLimit \in Nat /\ JamCount \in Nat \ {0, 1}

VARIABLES
  pc,                 \* where bt_le_sync() is, or "off"
  requested_mode, hop_mode, jam_mode,
  requested_channel, saved_request, channel,
  do_hop,
  link_state,
  aa,                 \* le.access_address: of the advertising channels, or of the
                      \* connection that was joined
  channel_idx, channel_increment,
  interval_timer, conn_interval, conn_count,
  update,             \* the connection update that is pending
  le_jam_count,
  receiving,          \* the CC2400 receives, and not the jammer transmits
  age,                \* of le.last_packet: stamped within this tick of clkn, or
                      \* later, or more than five seconds ago
  air, onair,         \* the connection, and the packet on the air now
  due,                \* the timer's handler has yet to count this unit
  meddling,           \* how often the host has meddled
  heard,              \* this event's first packet was received
  late, blind, meddled, cut, leftover   \* history, see Sound and ListensAgain

requests == <<requested_mode, hop_mode, jam_mode, requested_channel, meddling>>
hopping  == <<channel, do_hop, channel_idx, channel_increment>>
interval == <<interval_timer, conn_interval, conn_count, update>>
receiver == <<requests, saved_request, hopping, link_state, aa, interval, le_jam_count, receiving>>
world    == <<air, onair, due>>
history  == <<heard, late, blind, meddled, cut, leftover>>
vars == <<pc, requested_mode, hop_mode, jam_mode, requested_channel, saved_request, channel,
          do_hop, link_state, aa, channel_idx, channel_increment, interval_timer,
          conn_interval, conn_count, update, le_jam_count, receiving, age, air, onair, due,
          meddling, heard, late, blind, meddled, cut, leftover>>

Increments == 1 .. DataChannels - 1
Count      == 0 .. Width - 1

NoUpdate == [instant |-> 0, interval |-> 0, offset |-> 0]

(* No connection yet. *)
Silent == [on |-> FALSE, idx |-> 0, inc |-> 1, next |-> 1, interval |-> 1, event |-> NoEvent,
           anchor |-> FALSE, switched |-> FALSE, change |-> NoUpdate, changed |-> FALSE]

(* Mutant: the channel index does not wrap. *)
NextIdxUnwrapped(c, inc) == c + inc

(* The channel after c: btle_next_hop(), and the connection itself. *)
NextIdx(c, inc) == (c + inc) % DataChannels

(* The host has chosen the first advertising channel, as ubertooth-btle    *)
(* does before it asks for anything.                                       *)
Init ==
  /\ pc = "off"
  /\ requested_mode = "idle" /\ hop_mode = "none" /\ jam_mode = "none" /\ meddling = 0
  /\ requested_channel = NoChannel /\ saved_request = NoChannel
  /\ channel = DataChannels
  /\ do_hop = FALSE
  /\ link_state = "INACTIVE" /\ aa = "adv"
  /\ channel_idx = 0 /\ channel_increment = 0
  /\ interval_timer = 0 /\ conn_interval = 0 /\ conn_count = 0 /\ update = NoUpdate
  /\ le_jam_count = 0 /\ receiving = FALSE /\ age = "old"
  /\ air = Silent /\ onair = "none" /\ due = FALSE
  /\ heard = FALSE /\ late = FALSE /\ blind = FALSE /\ meddled = FALSE /\ cut = FALSE
  /\ leftover = FALSE

-----------------------------------------------------------------------------
(* The connection on the air.  A unit of time passes when the receiver is  *)
(* done with the last one's packet and hop, so that it spends its time     *)
(* waiting; four ticks of clkn are far more than both take.                *)

Aged == age' = IF age = "fresh" THEN "recent" ELSE age

UnitPasses ==
  /\ ~due /\ onair = "none"
  /\ pc = "off" \/ (pc = "wait" /\ ~do_hop)
  /\ due' = TRUE
  /\ Aged
  /\ UNCHANGED <<pc, receiver, meddled, leftover>>

(* Of all connections, the model has the one that the receiver can join,   *)
(* and then the one that it joined, as long as it has its access address:  *)
(* of no other can it take a packet.                                       *)
Joined == air.on /\ aa = "mine" /\ pc # "off"

NoConnection ==
  /\ air' = Silent
  /\ heard' = FALSE /\ late' = FALSE /\ blind' = FALSE /\ cut' = FALSE

(* No connection of interest; somebody may advertise. *)
Idle ==
  /\ UnitPasses
  /\ ~Joined
  /\ onair' \in {"none", "adv"}
  /\ NoConnection

(* A CONNECT_REQ (that concerns the target, if one is set). *)
Connect ==
  /\ UnitPasses
  /\ aa = "adv"
  /\ onair' = "connect"
  /\ \E inc \in Increments, i \in Intervals : \E wait \in 1 .. i :
       /\ air' = [Silent EXCEPT !.on = TRUE, !.inc = inc, !.interval = i, !.next = wait]
       /\ cut' = (i >= ByteModulus)
  /\ heard' = FALSE /\ late' = FALSE /\ blind' = FALSE

(* Bound: once the receiver cannot follow the connection, it has only to   *)
(* end; the link is as good as lost.                                       *)
Followable == Joined /\ (air.event = NoEvent \/ ~(blind \/ meddled \/ cut))

(* An event goes on; more packets may follow its first one. *)
EventGoesOn ==
  /\ UnitPasses
  /\ Followable /\ air.next > 1
  /\ air' = [air EXCEPT !.next = @ - 1, !.anchor = FALSE]
  /\ onair' \in {"none", "data"} /\ (onair' = "data" => air.event # NoEvent)
  /\ UNCHANGED <<heard, late, blind, cut>>

Announcements(event) ==
  { [instant |-> (event + d) % Width, interval |-> i, offset |-> o] :
      d \in 2 .. MaxAhead, i \in Intervals \ {air.interval}, o \in 0 .. MaxOffset }

(* By conn_count an instant is nearer than it is. *)
Misread(instant, event) == (instant - conn_count) % Width < (instant - event) % Width

(* The next event begins, on the next channel, perhaps the first of a new  *)
(* interval; its first packet may announce another one, whose first event  *)
(* is put off by its offset.  Bound: a connection has at most MaxEvents     *)
(* events after its first, and one change of its interval.                 *)
EventBegins ==
  /\ UnitPasses
  /\ Followable /\ air.next = 1
  /\ air.event < MaxEvents
  /\ LET event  == air.event + 1
         starts == air.change # NoUpdate /\ air.change.instant = event % Width
         length == IF starts THEN air.change.interval ELSE air.interval
         rest   == IF starts THEN NoUpdate ELSE air.change
         last   == rest # NoUpdate /\ rest.instant = (event + 1) % Width
     IN  /\ \E change \in {rest} \cup (IF air.changed THEN {} ELSE Announcements(event)) :
              /\ air' = [air EXCEPT !.idx = NextIdx(@, air.inc), !.event = event, !.anchor = TRUE,
                                    !.next = length + IF last THEN rest.offset ELSE 0,
                                    !.interval = length, !.switched = starts, !.change = change,
                                    !.changed = @ \/ change # rest]
              /\ onair' = IF change = rest THEN "data" ELSE "update"
         /\ blind' = (blind \/ (air.switched /\ ~heard) \/ (starts /\ late)
                            \/ (air'.change # rest /\ Misread(air'.change.instant, event)))
  /\ heard' = FALSE
  /\ UNCHANGED <<late, cut>>

(* The connection ends; the next one will have another access address. *)
ConnectionEnds ==
  /\ Joined /\ onair = "none"
  /\ NoConnection
  /\ UNCHANGED <<pc, receiver, age, onair, due, meddled, leftover>>

(* Five seconds have passed since the last packet. *)
Silence ==
  /\ age = "recent"
  /\ age' = "old"
  /\ UNCHANGED <<pc, receiver, world, history>>

(* A packet is over that the receiver did not take. *)
Miss ==
  /\ onair # "none" /\ pc # "packet"
  /\ onair' = "none"
  /\ blind' = (blind \/ onair = "update")
  /\ UNCHANGED <<pc, receiver, age, air, due, heard, late, meddled, cut, leftover>>

-----------------------------------------------------------------------------
(* TIMER0_IRQHandler(), at the tick of clkn at which it counts a unit: the *)
(* first is four ticks after conn_epoch.                                   *)

Counts == link_state = "CONNECTED" /\ hop_mode = "btle"

(* Mutant: the countdown starts over one unit short. *)
ReloadShort == (conn_interval - 1) % Width

Reload == conn_interval

(* In HOP_NONE it asks for a hop every 128 ticks. *)
TIMER0_IRQHandler ==
  /\ due /\ due' = FALSE
  /\ LET t == (interval_timer - 1) % Width
     IN  /\ interval_timer' = IF ~Counts THEN interval_timer
                              ELSE IF t = 0 THEN Reload ELSE t
         /\ conn_count' = IF Counts /\ t = 0 THEN (conn_count + 1) % Width ELSE conn_count
         /\ do_hop' \in CASE Counts            -> {do_hop \/ t = 0}
                         [] hop_mode = "none" -> {do_hop, TRUE}
                         [] OTHER             -> {do_hop}
  /\ Aged
  /\ UNCHANGED <<pc, requests, saved_request, channel, channel_idx, channel_increment,
                 link_state, aa, conn_interval, update, le_jam_count, receiving, air, onair,
                 history>>

-----------------------------------------------------------------------------
(* The requests of the USB interrupt.  Bound: the host sets a jam mode, or *)
(* asks for sniffing or for a channel while the loop runs, MaxMeddling     *)
(* times at most.                                                          *)
Meddle == meddling < MaxMeddling /\ meddling' = meddling + 1

(* UBERTOOTH_BTLE_SNIFFING *)
Sniff ==
  /\ IF pc = "off" THEN meddled' = FALSE /\ UNCHANGED meddling ELSE meddled' = TRUE /\ Meddle
  /\ do_hop' = FALSE /\ hop_mode' = "btle" /\ requested_mode' = "follow"
  /\ UNCHANGED <<pc, jam_mode, requested_channel, saved_request, channel, channel_idx,
                 channel_increment, link_state, aa, interval, le_jam_count, receiving, age,
                 world, heard, late, blind, cut, leftover>>

(* UBERTOOTH_SET_CHANNEL: while following, channel itself is left alone. *)
SetChannel ==
  /\ hop_mode' = "none"
  /\ \E c \in Requested :
       IF pc = "off"
         THEN /\ channel' = c /\ requested_channel' = NoChannel
              /\ meddled' = FALSE /\ UNCHANGED meddling
         ELSE /\ requested_channel' = c /\ UNCHANGED channel
              /\ meddled' = TRUE /\ Meddle
  /\ UNCHANGED <<pc, requested_mode, jam_mode, saved_request, do_hop, channel_idx,
                 channel_increment, link_state, aa, interval, le_jam_count, receiving, age,
                 world, heard, late, blind, cut, leftover>>

Stop ==
  /\ requested_mode' = "idle"
  /\ UNCHANGED <<pc, hop_mode, jam_mode, requested_channel, meddling, saved_request, hopping,
                 link_state, aa, interval, le_jam_count, receiving, age, world, history>>

(* UBERTOOTH_JAM_MODE *)
JamMode ==
  /\ Meddle
  /\ jam_mode' \in {"none", "once", "continuous"}
  /\ UNCHANGED <<pc, requested_mode, hop_mode, requested_channel, saved_request, hopping,
                 link_state, aa, interval, le_jam_count, receiving, age, world, heard, late,
                 blind, meddled, cut, leftover>>

-----------------------------------------------------------------------------
(* bt_le_sync()                                                            *)

Goto(p) == pc' = p

(* Mutant: the access address of the connection is kept. *)
reset_le_keeping_aa ==
  /\ UNCHANGED aa
  /\ channel_idx' = 0 /\ channel_increment' = 0
  /\ interval_timer' = 0 /\ conn_interval' = 0 /\ conn_count' = 0 /\ update' = NoUpdate
  /\ age' = "old"
  /\ do_hop' = FALSE

(* reset_le(), but for link_state; last_packet is 0. *)
reset_le ==
  /\ aa' = "adv"
  /\ channel_idx' = 0 /\ channel_increment' = 0
  /\ interval_timer' = 0 /\ conn_interval' = 0 /\ conn_count' = 0 /\ update' = NoUpdate
  /\ age' = "old"
  /\ do_hop' = FALSE

(* The old jam count is kept, and so is a channel the last link left. *)
Start ==
  /\ pc = "off" /\ requested_mode = "follow"
  /\ reset_le
  /\ link_state' = "LISTENING"
  /\ receiving' = TRUE
  /\ leftover' = (le_jam_count > 0 \/ channel \notin AdvChannel)
  /\ meddled' = FALSE
  /\ Goto("head")
  /\ UNCHANGED <<requests, saved_request, channel, le_jam_count, world, heard, late, blind,
                 cut>>

(* The loop's condition, and the request to retune: to channel, which a    *)
(* SET_CHANNEL in this mode leaves alone.                                  *)
Head ==
  /\ pc = "head" /\ requested_mode = "follow"
  /\ IF requested_channel = NoChannel THEN UNCHANGED <<saved_request, requested_channel>>
     ELSE saved_request' = requested_channel /\ requested_channel' = NoChannel
  /\ Goto("wait")
  /\ UNCHANGED <<requested_mode, hop_mode, jam_mode, meddling, hopping, link_state, aa,
                 interval, le_jam_count, receiving, age, world, history>>

(* Mutant: a stop is only seen between packets. *)
StoppedBetweenPackets == pc = "head" /\ requested_mode # "follow"

Stopped == pc \in {"head", "wait"} /\ requested_mode # "follow"

(* The receiver turns away from the connection, and so does the model. *)
Abandon == NoConnection /\ onair' = "none"

(* What le holds is left, and nothing reads it before reset_le() clears it *)
(* for the next link: the model clears it here.                            *)
Leave ==
  /\ Stopped \/ pc = "cleanup"
  /\ receiving' = FALSE
  /\ reset_le
  /\ link_state' = "INACTIVE"
  /\ leftover' = FALSE /\ meddled' = FALSE
  /\ Abandon
  /\ Goto("off")
  /\ UNCHANGED <<requests, saved_request, channel, le_jam_count, due>>

WaitHop ==
  /\ pc = "wait" /\ requested_mode = "follow"
  /\ do_hop
  /\ Goto("flush")
  /\ UNCHANGED <<receiver, age, world, history>>

(* The packet on the air is on the receiver's channel and has its access   *)
(* address.                                                                *)
Matches ==
  \/ onair \in {"adv", "connect"} /\ aa = "adv" /\ channel \in AdvChannel
  \/ onair \in {"data", "update"} /\ aa = "mine" /\ channel = air.idx

Hear ==
  /\ pc = "wait" /\ requested_mode = "follow"
  /\ receiving /\ ~do_hop
  /\ Matches
  /\ Goto("packet")
  /\ UNCHANGED <<receiver, age, world, history>>

(* Its length is wrong, or, while no connection is followed, its CRC.      *)
Garbled ==
  /\ pc = "packet"
  /\ onair' = "none"
  /\ blind' = (blind \/ onair = "update")
  /\ Goto("flush")
  /\ UNCHANGED <<receiver, age, air, due, heard, late, meddled, cut, leftover>>

(* packet_cb() is over; le.last_packet is stamped. *)
PacketTaken ==
  /\ pc = "packet"
  /\ onair' = "none"
  /\ age' = "fresh"
  /\ Goto("flush")
  /\ UNCHANGED <<requests, saved_request, channel, receiving, air, cut, leftover>>

(* connection_follow_cb() in each of its states. *)
TakeAdvertisement ==
  /\ PacketTaken
  /\ link_state = "LISTENING" /\ onair = "adv"
  /\ UNCHANGED <<do_hop, channel_idx, channel_increment, link_state, aa, interval, le_jam_count,
                 due, heard, late, blind, meddled>>

(* The interval is read from one byte. *)
TakeConnect ==
  /\ PacketTaken
  /\ link_state = "LISTENING" /\ onair = "connect"
  /\ link_state' = "CONN_PENDING"
  /\ aa' = "mine"
  /\ conn_interval' = air.interval % ByteModulus
  /\ channel_increment' = air.inc /\ channel_idx' = air.inc
  /\ do_hop' = TRUE
  /\ meddled' = (hop_mode = "none")
  /\ UNCHANGED <<interval_timer, conn_count, update, le_jam_count, due, heard, late, blind>>

(* Mutant: the countdown ends at the event, not one unit before it. *)
RestartedLate(i) == i

Restarted(i) == (i - 1) % Width

(* The first packet of the connection: it sets the epoch, from which the   *)
(* timer counts.                                                           *)
TakeFirst ==
  /\ PacketTaken
  /\ link_state = "CONN_PENDING"
  /\ link_state' = "CONNECTED"
  /\ due' = FALSE
  /\ interval_timer' = Restarted(conn_interval)
  /\ conn_count' = 0
  /\ update' = NoUpdate
  /\ le_jam_count' = IF jam_mode # "none" THEN JamCount ELSE le_jam_count
  /\ heard' = TRUE
  /\ late' = (air.event # 0)
  /\ blind' = (blind \/ ~air.anchor \/ air.switched \/ air.change # NoUpdate)
  /\ UNCHANGED <<do_hop, channel_idx, channel_increment, aa, conn_interval, meddled>>

(* Mutant: an update is applied one event late. *)
UpdateDueLate == update # NoUpdate /\ conn_count = (update.instant + 1) % Width

UpdateDue == update # NoUpdate /\ conn_count = update.instant

(* An announcement overwrites what is stored in any case. *)
Announced(left, new) ==
  IF left = NoUpdate /\ new.instant - conn_count >= InstantLimit THEN NoUpdate ELSE new

(* A packet of the connection: a pending update is applied in its event,   *)
(* and a CONNECTION_UPDATE_REQ becomes pending; u16 - u16 is an int.       *)
TakeData ==
  /\ PacketTaken
  /\ link_state = "CONNECTED"
  /\ IF UpdateDue
       THEN /\ due' = FALSE
            /\ conn_interval' = update.interval
            /\ interval_timer' = Restarted(update.interval)
       ELSE UNCHANGED <<due, conn_interval, interval_timer>>
  /\ LET left == IF UpdateDue THEN NoUpdate ELSE update
     IN  update' = IF onair = "update" THEN Announced(left, air.change) ELSE left
  /\ heard' = (heard \/ air.anchor)
  /\ UNCHANGED <<do_hop, channel_idx, channel_increment, link_state, aa, conn_count,
                 le_jam_count, late, blind, meddled>>

(* Mutant: only a link that waits for its first packet times out. *)
TimedOutPending == link_state = "CONN_PENDING" /\ age = "old"

(* Five seconds without a packet. *)
TimedOut == link_state \in {"CONNECTED", "CONN_PENDING"} /\ age = "old"

(* CLK100NS reads clkn and the timer's counter one after the other: a tick *)
(* between the two reads puts it a tick back, before a last_packet stamped *)
(* within this tick, and that counts as a rollover.                        *)
Torn == link_state \in {"CONNECTED", "CONN_PENDING"} /\ age = "fresh"

(* rx_flush: the timeout, or the end of jamming. *)
Drop ==
  /\ pc = "flush"
  /\ TimedOut \/ Torn \/ le_jam_count = 1
  /\ reset_le
  /\ le_jam_count' = 0
  /\ IF jam_mode = "once"
       THEN /\ jam_mode' = "none" /\ requested_mode' = "idle"
            /\ link_state' = "INACTIVE"
            /\ Goto("cleanup")
            /\ UNCHANGED <<channel, leftover>>
       ELSE /\ link_state' = "LISTENING"
            /\ channel' = IF saved_request # NoChannel THEN saved_request ELSE DataChannels
            /\ leftover' = FALSE
            /\ Goto("resume")
            /\ UNCHANGED <<jam_mode, requested_mode>>
  /\ meddled' = FALSE
  /\ Abandon
  /\ UNCHANGED <<hop_mode, requested_channel, meddling, saved_request, receiving, due>>

Keep ==
  /\ pc = "flush"
  /\ le_jam_count # 1
  /\ ~TimedOut
  /\ Goto("resume")
  /\ UNCHANGED <<receiver, age, world, history>>

(* hop() in its two modes, and the receiver or the jammer after it. *)
Resume ==
  /\ pc = "resume"
  /\ do_hop' = FALSE
  /\ IF do_hop /\ hop_mode = "btle"
       THEN channel' = channel_idx /\ channel_idx' = NextIdx(channel_idx, channel_increment)
       ELSE UNCHANGED <<channel, channel_idx>>
  /\ receiving' = (le_jam_count = 0)
  /\ le_jam_count' = IF le_jam_count > 0 THEN le_jam_count - 1 ELSE 0
  /\ Goto("head")
  /\ UNCHANGED <<requests, saved_request, channel_increment, link_state, aa, interval, age,
                 world, history>>

-----------------------------------------------------------------------------
Air == Idle \/ Connect \/ EventGoesOn \/ EventBegins
Take == TakeAdvertisement \/ TakeConnect \/ TakeFirst \/ TakeData
Main == \/ Start \/ Head \/ Leave \/ WaitHop \/ Hear \/ Garbled \/ Take \/ Drop \/ Keep \/ Resume

Next ==
  \/ Air \/ ConnectionEnds \/ Silence \/ Miss
  \/ TIMER0_IRQHandler
  \/ Sniff \/ SetChannel \/ Stop \/ JamMode
  \/ Main

Spec == Init /\ [][Next]_vars

(* Time passes, packets end, the timer interrupts, its request for a hop   *)
(* in HOP_NONE comes every 128 ticks, and the main loop runs.              *)
Fairness ==
  /\ WF_vars(Air) /\ WF_vars(Miss) /\ WF_vars(Silence)
  /\ WF_vars(TIMER0_IRQHandler)
  /\ SF_vars(TIMER0_IRQHandler /\ do_hop')
  /\ WF_vars(Main)

FairSpec == Spec /\ Fairness

-----------------------------------------------------------------------------
(* The link is that of the connection on the air, it heard that from the   *)
(* start of an event on, and missed no update and no first packet of a new *)
(* interval since; the host has let it alone.  (A receiver that joined     *)
(* after the first event counts from there, so that an update does not     *)
(* take effect in its event, or even before it if the count has wrapped.)  *)
Sound ==
  /\ link_state = "CONNECTED" /\ aa = "mine" /\ air.on /\ pc # "off"
  /\ ~blind /\ ~meddled

(* ... and its interval fits the byte it is read from. *)
Following == Sound /\ ~cut

(* Whatever packets are missed, at the start of an event of a connection   *)
(* that is followed the receiver is on the event's channel: the hops of    *)
(* hop(), timed by interval_timer, keep step with the connection's own,    *)
(* also from one interval to the next.                                     *)
OnChannel == Following /\ air.anchor /\ onair # "none" => channel = air.idx

(* conn_count is then the number of the event, which the instants of       *)
(* updates refer to, if the first event of all was heard.                  *)
CountKept == Following /\ ~late /\ air.anchor /\ onair # "none" => conn_count = air.event % Width

(* An update takes effect in its event, neither before nor after: once a   *)
(* packet of an event is taken, the interval is the connection's.  (Not so *)
(* for one that does not fit a byte, although bluetooth_rxtx.c:852 says    *)
(* that the hops are for intervals from 7.5 ms to 4.0 s.)                  *)
IntervalRight ==
  Following /\ heard /\ channel = air.idx /\ ~do_hop /\ pc # "packet"
    => conn_interval = air.interval

(* Back from a connection, or from jamming it, the loop listens: it has    *)
(* advertising's access address and an advertising channel, and receives.  *)
(* leftover is the loop entered with a jam count, or a data channel, that  *)
(* the last link left.                                                     *)
ListensAgain ==
  pc = "wait" /\ link_state = "LISTENING" /\ ~leftover
    => receiving /\ aa = "adv" /\ channel \in AdvChannel /\ le_jam_count = 0

(* A link whose connection is gone ends, by the timeout of rx_flush or by  *)
(* the host's stop.                                                        *)
Lost == pc # "off" /\ link_state = "CONNECTED" /\ ~(air.on /\ aa = "mine")
ConnectionDies == []<>~Lost

(* A stop leaves the loop, whatever is or is not on the air, unless the    *)
(* host asks for following again.                                          *)
StopHonoured == []<>(pc = "off" \/ requested_mode = "follow")

-----------------------------------------------------------------------------
(* The inductive invariant behind these.                                   *)

Updates == {NoUpdate} \cup [instant : Count, interval : Intervals, offset : 0 .. MaxOffset]

Connections ==
  [on : BOOLEAN, idx : DataChannel, inc : Increments, next : Nat \ {0},
   interval : Intervals \cup {1}, event : Nat \cup {NoEvent}, anchor : BOOLEAN,
   switched : BOOLEAN, change : Updates, changed : BOOLEAN]

TypeOK ==
  /\ pc \in {"off", "head", "wait", "packet", "flush", "resume", "cleanup"}
  /\ requested_mode \in {"idle", "follow"} /\ hop_mode \in {"none", "btle"}
  /\ jam_mode \in {"none", "once", "continuous"} /\ meddling \in Nat
  /\ requested_channel \in Requested \cup {NoChannel}
  /\ saved_request \in Requested \cup {NoChannel}
  /\ channel \in DataChannel \cup AdvChannel
  /\ link_state \in {"INACTIVE", "LISTENING", "CONN_PENDING", "CONNECTED"}
  /\ aa \in {"adv", "mine"}
  /\ channel_idx \in DataChannel /\ channel_increment \in DataChannel
  /\ interval_timer \in Count /\ conn_interval \in Count /\ conn_count \in Count
  /\ update \in Updates
  /\ le_jam_count \in Nat
  /\ age \in {"fresh", "recent", "old"}
  /\ air \in Connections /\ onair \in {"none", "adv", "connect", "data", "update"}
  /\ do_hop \in BOOLEAN /\ receiving \in BOOLEAN /\ due \in BOOLEAN
  /\ heard \in BOOLEAN /\ late \in BOOLEAN /\ blind \in BOOLEAN /\ meddled \in BOOLEAN
  /\ cut \in BOOLEAN /\ leftover \in BOOLEAN

(* A pending change of the interval starts in the next event.              *)
Last == air.change # NoUpdate /\ air.change.instant = (air.event + 1) % Width

(* The connection.                                                         *)
AirInv ==
  /\ ~air.on => onair \in {"none", "adv"}
  /\ air.on =>
       /\ air.interval \in Intervals
       /\ onair = "connect" => air.change = NoUpdate /\ (~cut => air.interval < ByteModulus)
       /\ onair = "update" => air.anchor /\ air.change # NoUpdate
       /\ air.anchor => air.next = air.interval + (IF Last THEN air.change.offset ELSE 0)
       /\ ~air.changed => air.change = NoUpdate
       /\ air.change # NoUpdate =>
            /\ air.change.interval \in Intervals \ {air.interval}
            /\ air.event # NoEvent
       /\ air.event = NoEvent => ~air.anchor

(* The link state, and what listening means.                               *)
ListenInv ==
  /\ link_state = "INACTIVE" <=> pc \in {"off", "cleanup"}
  /\ aa = "mine" <=> link_state \in {"CONN_PENDING", "CONNECTED"}
  /\ pc = "packet" => onair # "none" /\ Matches
  /\ link_state = "LISTENING" =>
       /\ hop_mode = "btle" => ~do_hop
       /\ ~leftover => /\ le_jam_count = 0 /\ channel \in AdvChannel
                       /\ pc # "resume" => receiving

(* A link that the host has let alone hops as the connection does, from    *)
(* wherever it is; one that waits for its first packet is where the first  *)
(* event of all is.                                                        *)
Pending == link_state = "CONN_PENDING"

LinkInv ==
  link_state \in {"CONN_PENDING", "CONNECTED"} /\ air.on =>
    /\ ~meddled =>
         /\ hop_mode = "btle"
         /\ channel_increment = air.inc
         /\ channel_idx = IF Pending /\ do_hop THEN air.inc ELSE NextIdx(channel, air.inc)
         /\ Pending /\ pc = "packet" => ~do_hop
    /\ Pending /\ ~blind =>
         /\ ~cut => conn_interval = air.interval
         /\ air.change # NoUpdate => onair = "update"

(* The receiver has hopped to the next event's channel, or is about to.    *)
Hopped == do_hop \/ channel # air.idx

(* The units until its hop (or, negative, since then) when it hops that    *)
(* much ahead of the last unit before the next event.                      *)
UntilHop(ahead) == air.next + (IF due THEN 1 ELSE 0) - 1 - ahead

(* The countdown is in step with the connection.                           *)
InStep(ahead) ==
  IF Hopped
    THEN /\ UntilHop(ahead) <= 0
         /\ interval_timer = UntilHop(ahead) + conn_interval
         /\ channel = IF do_hop THEN air.idx ELSE NextIdx(air.idx, air.inc)
         /\ do_hop => ~due /\ (UntilHop(ahead) = 0 \/ conn_interval # air.interval)
    ELSE /\ UntilHop(ahead) > 0
         /\ interval_timer = UntilHop(ahead)

(* It falls out of the last unit only with a change of the interval: by    *)
(* the offset, and by one unit when the update is applied in the unit in   *)
(* which the receiver hops to the event that it is for.                    *)
MaxAheadOfEvent ==
  IF air.change = NoUpdate THEN IF air.changed THEN MaxOffset + 1 ELSE 0
  ELSE IF ~Last THEN 0
  ELSE IF conn_interval = air.interval THEN MaxOffset ELSE MaxOffset + 1

Timed == \E ahead \in 0 .. MaxAheadOfEvent : InStep(ahead)

(* What is known of the pending change.                                    *)
UpdateKnown ==
  IF air.change = NoUpdate THEN update = NoUpdate /\ conn_interval = air.interval
  ELSE \/ /\ conn_interval = air.interval
          /\ update = air.change \/ (update = NoUpdate /\ (late \/ onair = "update"))
       \/ conn_interval = air.change.interval /\ update = NoUpdate /\ Last /\ Hopped

EventNumber == IF Hopped THEN air.event + 1 ELSE air.event

Counted == ~late => conn_count = EventNumber % Width

(* The change's instant is some events away, and no less by conn_count.    *)
InstantAhead ==
  air.change # NoUpdate =>
    \E d \in 1 .. MaxAhead : \E m \in d .. Width - 1 :
      /\ air.change.instant = (air.event + d) % Width
      /\ air.change.instant = (conn_count + (IF Hopped THEN m - 1 ELSE m)) % Width

Kept == Timed /\ UpdateKnown /\ Counted /\ InstantAhead

(* The first event of a new interval, whose first packet is yet to come.   *)
Applying ==
  /\ air.switched /\ ~heard /\ air.anchor /\ ~Hopped
  /\ air.change = NoUpdate /\ air.changed
  /\ update # NoUpdate /\ update.interval = air.interval
  /\ ~late /\ conn_count = air.event % Width /\ update.instant = conn_count
  /\ interval_timer > IF due THEN 1 ELSE 0

Unapplied == air.switched /\ ~heard /\ ~air.anchor

FollowInv == Following => air.event # NoEvent /\ (Kept \/ Applying \/ Unapplied)

LeInv == TypeOK /\ AirInv /\ ListenInv /\ LinkInv /\ FollowInv
=============================================================================
