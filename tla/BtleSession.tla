---------------------------- MODULE BtleSession ----------------------------
(***************************************************************************)
(* What the sniffer listens to: the mode and channel requests of the host  *)
(* (USB interrupt), and main, which reacts to the packets it demodulates   *)
(* by hopping between advertising channels or along a connection.  Both    *)
(* write btle_config_global.  A request is handled between any two of      *)
(* main's steps; main's set_channel and update_btle_state are several      *)
(* steps each, cut where the other context can see or undo them.           *)
(*                                                                         *)
(* Packets are abstracted to the fields update_btle_state tests; when a    *)
(* planned hop is due (sample_counter_rx against sample_pos_store[0]) is   *)
(* left open.                                                              *)
(***************************************************************************)
EXTENDS ChannelMap

CONSTANTS
  CntSize,       \* values of the 8-bit channel_packet_cnt (256)
  Maps,          \* channel maps a CONNECT_REQ may ask for
  Increments,    \* hop increments a CONNECT_REQ may ask for
  Selectable,    \* channels the host selects
  Requests,      \* requests the host issues
  MaxRequests    \* bound: requests

Adv == {37, 38, 39}

ASSUME SessionAssumption ==
  /\ Hops <= 37 /\ CntSize \in Nat /\ CntSize > 2
  /\ Maps \subseteq (SUBSET DataChannels) \ {{}}
  /\ Increments \subseteq DataChannels
  /\ Selectable \subseteq Adv \cup DataChannels
  /\ Requests \subseteq {"start", "restart", "off", "channel", "configure"}
  /\ MaxRequests \in Nat

VARIABLES
  transceiver_mode, streaming,
  sgpio_callback_finished,   \* a block of samples has come since main last took one
  btle_mode, follow_state, access_addr, adv_addr_connect_set,
  current_channel, next_channel_trigger,
  channel_sequence_data, channel_sequence_data_idx, channel_increment,
  channel_packet_cnt,
  tuned,        \* the channel the radio receives
  pc, arg,      \* where main is, and the argument of its set_channel
  then,         \* where main goes on when its set_channel returns
  packet,       \* the packet main has demodulated
  setup,        \* the mode request whose DATA stage is awaited, or NoSetup
  session,      \* ghost: the mode the host has established
  map,          \* ghost: the channel map of the CONNECT_REQ accepted last
  requested,    \* ghost: the channel the host has selected
  deaf,         \* ghost: a request has parted the access address from the state
  disturbed,    \* ghost: a request has come that main cannot react to in time
  requests      \* the bounded counter

radio == <<transceiver_mode, streaming>>
flag == sgpio_callback_finished
modes == <<btle_mode, adv_addr_connect_set>>
sequence == <<channel_sequence_data, channel_sequence_data_idx, channel_increment>>
main == <<pc, arg, then, packet, map>>
host == <<setup, session, requested, deaf, disturbed, requests>>
vars == <<radio, flag, modes, follow_state, access_addr, current_channel,
          next_channel_trigger, sequence, channel_packet_cnt, tuned, main, host>>

PCs == {"loop", "spin", "hop", "due", "hopped", "receive", "update", "listening",
        "follow", "call", "assign", "tune"}
Modes == {"OFF", "FIXED", "STATIC", "DYNAMIC"}
SessionModes == Modes \ {"OFF"}
Lengths == {1, 6}      \* bytes of a DATA stage: none of interest, or an address
NoSetup == [mode |-> "OFF", length |-> 0]
Packets ==     \* plausible is a CONNECT_REQ's
  {p \in [connect : BOOLEAN, adv_ind : BOOLEAN, addr_match : BOOLEAN,
          plausible : BOOLEAN, map : Maps, inc : Increments] :
     (p.connect => ~p.adv_ind) /\ (p.plausible => p.connect)}
NoSequence == [h \in DataChannels |-> 0]

InitConfig ==
  /\ current_channel = 39 /\ btle_mode = "OFF" /\ adv_addr_connect_set = FALSE
  /\ access_addr = "adv" /\ next_channel_trigger = -1
  /\ follow_state = "LISTENING" /\ channel_sequence_data_idx = 0
  /\ channel_packet_cnt = 0

Init ==
  /\ transceiver_mode = "OFF" /\ streaming = FALSE /\ sgpio_callback_finished = FALSE
  /\ InitConfig
  /\ channel_sequence_data = NoSequence /\ channel_increment = 0
  /\ tuned = 39
  /\ pc = "loop" /\ arg = 39 /\ then = "loop"
  /\ packet \in {p \in Packets : ~p.connect /\ ~p.adv_ind /\ ~p.addr_match /\ ~p.plausible}
  /\ setup = NoSetup /\ session = "OFF" /\ requested = 37 /\ requests = 0
  /\ deaf = FALSE /\ disturbed = FALSE
  /\ map = {}
-----------------------------------------------------------------------------
(* Channels *)

\* -1 handed over as the uint8_t channel of set_channel
NoChannel == 255
Byte(ch) == IF ch = -1 THEN NoChannel ELSE ch

\* get_freq_by_channel takes 37 for what is no channel
Heard(ch) == IF ch = NoChannel THEN 37 ELSE ch
-----------------------------------------------------------------------------
(* USB interrupt *)

Issue(request) == request \in Requests /\ requests < MaxRequests /\ requests' = requests + 1

\* a mode request while a session runs changes btle_mode before it is refused
ModeRefused ==
  \E m \in SessionModes :
    /\ Issue("restart") /\ transceiver_mode # "OFF"
    /\ btle_mode' = m
    /\ setup' = NoSetup /\ disturbed' = (disturbed \/ m # session)
    /\ UNCHANGED <<radio, adv_addr_connect_set, follow_state, access_addr,
                   current_channel, next_channel_trigger, sequence,
                   channel_packet_cnt, tuned, flag, main, session, requested, deaf>>

ModeFixed ==
  /\ Issue("start") /\ session = "OFF" /\ transceiver_mode = "OFF"
  /\ btle_mode' = "FIXED" /\ adv_addr_connect_set' = FALSE
  /\ current_channel' = 37 /\ tuned' = 37
  /\ transceiver_mode' = "BTLE" /\ streaming' = TRUE
  /\ setup' = NoSetup /\ session' = "FIXED" /\ requested' = 37
  /\ UNCHANGED <<follow_state, access_addr, next_channel_trigger, sequence,
                 channel_packet_cnt, flag, main, deaf, disturbed>>

FollowStateOf(mode, old) ==
  IF mode = "STATIC" THEN "LISTENING" ELSE IF mode = "DYNAMIC" THEN "SYNCH" ELSE old

\* the access address stays that of a connection which is no longer followed
Parted == access_addr = "conn" /\ pc # "follow" /\ follow_state' # "FOLLOWING"

\* SETUP stage of a follow request: the device waits for the DATA stage
ModeFollow ==
  \E m \in {"STATIC", "DYNAMIC"}, len \in Lengths :
    /\ Issue("start") /\ session = "OFF" /\ transceiver_mode = "OFF"
    /\ btle_mode' = m /\ adv_addr_connect_set' = FALSE
    /\ current_channel' = 37
    /\ follow_state' = FollowStateOf(m, follow_state)
    /\ setup' = [mode |-> m, length |-> len] /\ deaf' = (deaf \/ Parted)
    /\ UNCHANGED <<radio, access_addr, next_channel_trigger, sequence,
                   channel_packet_cnt, tuned, flag, main, session, requested, disturbed>>

\* mutant: the length is not checked
ModeFollowDataUnchecked ==
  /\ setup # NoSetup
  /\ btle_mode' = setup.mode /\ setup' = NoSetup
  /\ adv_addr_connect_set' = (adv_addr_connect_set \/ setup.length = 6)
  /\ transceiver_mode' = "BTLE" /\ streaming' = TRUE
  /\ tuned' = Heard(current_channel)
  /\ session' = setup.mode /\ requested' = 37
  /\ UNCHANGED <<follow_state, access_addr, current_channel, next_channel_trigger,
                 sequence, channel_packet_cnt, flag, main, deaf, disturbed, requests>>

\* DATA stage: start streaming, but DYNAMIC needs an address
ModeFollowData ==
  /\ setup # NoSetup
  /\ btle_mode' = setup.mode /\ setup' = NoSetup
  /\ IF setup.mode = "DYNAMIC" /\ setup.length # 6
       THEN UNCHANGED <<radio, adv_addr_connect_set, tuned, session, requested>>
       ELSE /\ adv_addr_connect_set' = (adv_addr_connect_set \/ setup.length = 6)
            /\ transceiver_mode' = "BTLE" /\ streaming' = TRUE
            /\ tuned' = Heard(current_channel)
            /\ session' = setup.mode /\ requested' = 37
  /\ UNCHANGED <<follow_state, access_addr, current_channel, next_channel_trigger,
                 sequence, channel_packet_cnt, flag, main, deaf, disturbed, requests>>

\* MODE_OFF while it is off already: nothing to be done
ModeOffAgain ==
  /\ Issue("off") /\ transceiver_mode = "OFF"
  /\ btle_mode' = "OFF" /\ setup' = NoSetup /\ session' = "OFF"
  /\ UNCHANGED <<radio, adv_addr_connect_set, follow_state, access_addr,
                 current_channel, next_channel_trigger, sequence,
                 channel_packet_cnt, tuned, flag, main, requested, deaf, disturbed>>

\* main has nothing of the session in hand: it waits for samples, and has none
Waiting == pc = "loop" \/ (pc = "spin" /\ ~sgpio_callback_finished)

ModeOff ==
  /\ Issue("off") /\ transceiver_mode # "OFF"
  /\ transceiver_mode' = "OFF" /\ streaming' = FALSE
  /\ current_channel' = 39 /\ btle_mode' = "OFF" /\ adv_addr_connect_set' = FALSE
  /\ access_addr' = "adv" /\ next_channel_trigger' = -1
  /\ follow_state' = "LISTENING" /\ channel_sequence_data_idx' = 0
  /\ channel_packet_cnt' = 0
  /\ setup' = NoSetup /\ session' = "OFF"
  /\ deaf' = (pc = "follow") /\ disturbed' = ~Waiting
  /\ UNCHANGED <<channel_sequence_data, channel_increment, tuned, flag, main, requested>>

\* main listens on the channel selected, and has not heard a connection yet
Listening == /\ btle_mode # "DYNAMIC" /\ follow_state = "LISTENING"
             /\ pc \in {"loop", "spin", "hop", "receive", "update", "listening"}

\* "channel was manually set -> reset state"
Channel ==
  \E c \in Selectable :
    /\ Issue("channel") /\ transceiver_mode = "BTLE"
    /\ follow_state' = FollowStateOf(btle_mode, follow_state)
    /\ current_channel' = c /\ tuned' = c
    /\ setup' = NoSetup /\ requested' = c
    /\ deaf' = (deaf \/ Parted) /\ disturbed' = (disturbed \/ ~Listening)
    /\ UNCHANGED <<radio, modes, access_addr, next_channel_trigger, sequence,
                   channel_packet_cnt, flag, main, session>>

\* usb_configuration_changed, also the end of a bus reset
Configure ==
  /\ Issue("configure")
  /\ transceiver_mode' = "OFF"
  /\ setup' = NoSetup /\ session' = "OFF"
  /\ disturbed' = (disturbed \/ transceiver_mode # "OFF")
  /\ UNCHANGED <<streaming, modes, follow_state, access_addr, current_channel,
                 next_channel_trigger, sequence, channel_packet_cnt, tuned, flag, main,
                 requested, deaf>>

UsbIsr == \/ ModeRefused \/ ModeFixed \/ ModeFollow \/ ModeFollowData \/ ModeOffAgain
          \/ ModeOff \/ Channel \/ Configure
-----------------------------------------------------------------------------
(* SGPIO interrupt: a block of samples *)

SgpioIsr ==
  /\ streaming
  /\ sgpio_callback_finished' = TRUE
  /\ UNCHANGED <<radio, modes, follow_state, access_addr, current_channel,
                 next_channel_trigger, sequence, channel_packet_cnt, tuned, main, host>>
-----------------------------------------------------------------------------
(* main *)

Where(from) == pc = from /\ UNCHANGED <<radio, modes, host>>

At(from) == Where(from) /\ UNCHANGED flag

NextIdx == (channel_sequence_data_idx + channel_increment) % Hops

\* set_channel(ch), to go on at label
Call(ch, label) == pc' = "assign" /\ arg' = ch /\ then' = label

MainLoop ==
  /\ At("loop") /\ transceiver_mode = "BTLE"
  /\ pc' = "spin"
  /\ UNCHANGED <<arg, then, packet, map, follow_state, access_addr, current_channel,
                 next_channel_trigger, sequence, channel_packet_cnt, tuned>>

MainSpin ==
  /\ Where("spin") /\ sgpio_callback_finished
  /\ sgpio_callback_finished' = FALSE
  /\ pc' = "hop"
  /\ UNCHANGED <<arg, then, packet, map, follow_state, access_addr, current_channel,
                 next_channel_trigger, sequence, channel_packet_cnt, tuned>>

\* a planned hop, when it is due
MainHop ==
  /\ At("hop")
  /\ \/ next_channel_trigger # -1 /\ arg' = next_channel_trigger /\ pc' = "due"
     \/ pc' = "receive" /\ UNCHANGED arg
  /\ UNCHANGED <<then, packet, map, follow_state, access_addr, current_channel,
                 next_channel_trigger, sequence, channel_packet_cnt, tuned>>

\* the plan is read again or taken from a register: it is not volatile
MainDue ==
  /\ At("due")
  /\ \E ch \in {arg, next_channel_trigger} : Call(Byte(ch), "hopped")
  /\ channel_packet_cnt' = IF follow_state # "SYNCH" THEN 0 ELSE channel_packet_cnt
  /\ UNCHANGED <<packet, map, follow_state, access_addr, current_channel,
                 next_channel_trigger, sequence, tuned>>

\* mutant: the index of the sequence stays behind
MainHoppedInPlace ==
  /\ At("hopped")
  /\ next_channel_trigger' = -1
  /\ pc' = "receive"
  /\ UNCHANGED <<arg, then, packet, map, follow_state, access_addr, current_channel,
                 sequence, channel_packet_cnt, tuned>>

MainHopped ==
  /\ At("hopped")
  /\ channel_sequence_data_idx' = NextIdx
  /\ next_channel_trigger' = -1
  /\ pc' = "receive"
  /\ UNCHANGED <<arg, then, packet, map, follow_state, access_addr, current_channel,
                 channel_sequence_data, channel_increment, channel_packet_cnt, tuned>>

\* mutant: packets are followed in every mode
MainReceiveFollows ==
  /\ At("receive")
  /\ \/ pc' = "loop" /\ UNCHANGED packet
     \/ packet' \in Packets /\ pc' = "update"
  /\ UNCHANGED <<arg, then, map, follow_state, access_addr, current_channel,
                 next_channel_trigger, sequence, channel_packet_cnt, tuned>>

\* too few samples, no packet, or a packet; in FIXED mode nothing is followed
MainReceive ==
  /\ At("receive")
  /\ \/ pc' = "loop" /\ UNCHANGED packet
     \/ packet' \in Packets /\ btle_mode # "FIXED" /\ pc' = "update"
  /\ UNCHANGED <<arg, then, map, follow_state, access_addr, current_channel,
                 next_channel_trigger, sequence, channel_packet_cnt, tuned>>

\* mutant: one channel further, also from 39
NextAdvPlus(ch, planned) == IF ch \in Adv THEN ch + 1 ELSE planned

\* mutant: the other way round
NextAdvBack(ch, planned) ==
  CASE ch = 37 -> 39 [] ch = 38 -> 37 [] ch = 39 -> 38 [] OTHER -> planned

\* the advertising channel after this one; elsewhere the plan stays
NextAdv(ch, planned) ==
  CASE ch = 37 -> 38 [] ch = 38 -> 39 [] ch = 39 -> 37 [] OTHER -> planned

\* update_btle_state, its first branch
MainUpdate ==
  /\ At("update")
  /\ IF follow_state # "SYNCH"
       THEN pc' = "listening" /\ UNCHANGED <<follow_state, next_channel_trigger>>
     ELSE IF packet.connect
       THEN /\ pc' = IF packet.addr_match THEN "listening" ELSE "loop"
            /\ follow_state' = IF packet.addr_match THEN "LISTENING" ELSE follow_state
            /\ UNCHANGED next_channel_trigger
       ELSE /\ pc' = "loop"
            /\ next_channel_trigger' =
                 IF packet.adv_ind \/ packet.addr_match
                   THEN NextAdv(current_channel, next_channel_trigger)
                   ELSE next_channel_trigger
            /\ UNCHANGED follow_state
  /\ UNCHANGED <<arg, then, packet, map, access_addr, current_channel, sequence,
                 channel_packet_cnt, tuned>>

\* the parameters of the connection are taken over
Accept ==
  /\ access_addr' = "conn"
  /\ channel_increment' = packet.inc /\ channel_sequence_data_idx' = packet.inc
  /\ channel_sequence_data' = GetChannels(packet.map)
  /\ current_channel' = channel_sequence_data'[packet.inc]
  /\ pc' = "follow" /\ map' = packet.map

Acceptable == /\ packet.connect /\ packet.plausible
              /\ adv_addr_connect_set => packet.addr_match

\* mutant: following starts before the address is known
MainFollowEarly ==
  /\ At("listening") /\ follow_state = "LISTENING"
  /\ follow_state' = "FOLLOWING"
  /\ pc' = "loop"
  /\ UNCHANGED <<arg, then, packet, map, access_addr, sequence, current_channel,
                 next_channel_trigger, channel_packet_cnt, tuned>>

\* the second branch: a CONNECT_REQ worth following
MainListening ==
  /\ At("listening") /\ follow_state # "FOLLOWING"
  /\ IF follow_state = "LISTENING" /\ Acceptable
       THEN Accept
       ELSE pc' = "loop" /\ UNCHANGED <<access_addr, sequence, current_channel, map>>
  /\ UNCHANGED <<arg, then, packet, follow_state, next_channel_trigger,
                 channel_packet_cnt, tuned>>

\* mutant: a hop planned before stays planned
MainFollowPlanned ==
  /\ At("follow")
  /\ follow_state' = "FOLLOWING"
  /\ pc' = "call"
  /\ UNCHANGED <<arg, then, packet, map, access_addr, sequence, current_channel,
                 next_channel_trigger, channel_packet_cnt, tuned>>

MainFollow ==
  /\ At("follow")
  /\ next_channel_trigger' = -1
  /\ follow_state' = "FOLLOWING"
  /\ pc' = "call"
  /\ UNCHANGED <<arg, then, packet, map, access_addr, sequence, current_channel,
                 channel_packet_cnt, tuned>>

\* the third branch: plan the next hop at the first packet on a channel; hop at
\* once when a later packet shows that the planned time has passed
MainFollowing ==
  /\ At("listening") /\ follow_state = "FOLLOWING"
  /\ LET cnt == (channel_packet_cnt + 1) % CntSize
     IN  \/ /\ cnt = 1
            /\ next_channel_trigger' = channel_sequence_data[NextIdx]
            /\ channel_packet_cnt' = cnt /\ pc' = "loop"
            /\ UNCHANGED <<channel_sequence_data_idx, current_channel>>
         \/ /\ cnt # 1
            /\ channel_packet_cnt' = cnt /\ pc' = "loop"
            /\ UNCHANGED <<next_channel_trigger, channel_sequence_data_idx,
                           current_channel>>
         \/ /\ cnt # 1
            /\ channel_packet_cnt' = 0 /\ pc' = "call"
            /\ channel_sequence_data_idx' = NextIdx
            /\ current_channel' = channel_sequence_data[NextIdx]
            /\ next_channel_trigger' =
                 channel_sequence_data[(NextIdx + channel_increment) % Hops]
  /\ UNCHANGED <<arg, then, packet, map, follow_state, access_addr, channel_sequence_data,
                 channel_increment, tuned>>

\* set_channel(btle_config_global.current_channel)
MainCall ==
  /\ At("call")
  /\ Call(current_channel, "loop")
  /\ UNCHANGED <<packet, map, follow_state, access_addr, current_channel,
                 next_channel_trigger, sequence, channel_packet_cnt, tuned>>

MainAssign ==
  /\ At("assign")
  /\ current_channel' = arg
  /\ pc' = "tune"
  /\ UNCHANGED <<arg, then, packet, map, follow_state, access_addr, next_channel_trigger,
                 sequence, channel_packet_cnt, tuned>>

MainTune ==
  /\ At("tune")
  /\ tuned' = Heard(arg)
  /\ pc' = then
  /\ UNCHANGED <<arg, then, packet, map, follow_state, access_addr, current_channel,
                 next_channel_trigger, sequence, channel_packet_cnt>>

Main == \/ MainLoop \/ MainSpin \/ MainHop \/ MainDue \/ MainHopped \/ MainReceive
        \/ MainUpdate \/ MainListening \/ MainFollow \/ MainFollowing \/ MainCall
        \/ MainAssign \/ MainTune

Next == UsbIsr \/ SgpioIsr \/ Main

Spec == Init /\ [][Next]_vars
-----------------------------------------------------------------------------
(* Properties *)

\* Type invariant of the shared configuration and of both contexts.
TypeOK ==
  /\ transceiver_mode \in {"OFF", "BTLE"} /\ streaming \in BOOLEAN
  /\ sgpio_callback_finished \in BOOLEAN
  /\ btle_mode \in Modes /\ follow_state \in {"SYNCH", "LISTENING", "FOLLOWING"}
  /\ access_addr \in {"adv", "conn"} /\ adv_addr_connect_set \in BOOLEAN
  /\ {current_channel, arg} \subseteq Adv \cup DataChannels \cup {NoChannel}
  /\ next_channel_trigger \in Adv \cup DataChannels \cup {-1}
  /\ channel_sequence_data \in [DataChannels -> DataChannels]
  /\ channel_sequence_data_idx \in DataChannels /\ channel_increment \in DataChannels
  /\ channel_packet_cnt \in 0 .. CntSize - 1
  /\ tuned \in Adv \cup DataChannels
  /\ pc \in PCs /\ then \in {"loop", "hopped"}
  /\ packet \in Packets /\ map \in Maps \cup {{}}
  /\ setup \in [mode : Modes, length : {0, 1, 6}]
  /\ session \in Modes /\ requested \in Adv \cup DataChannels
  /\ deaf \in BOOLEAN /\ disturbed \in BOOLEAN /\ requests \in 0 .. MaxRequests

AtRest == pc \in {"loop", "spin", "hop", "receive"}

\* While a connection is followed, the radio receives the channel the sequence
\* index points at, and the hop that is planned goes to the next one
\* (bluehack.c:383-407 against hackrf_usb.c:226-239).  So in any number of
\* sessions, channels selected before a connection is heard included, each
\* stopped while main waits for samples; other requests are the hazards of OnMap.
HopAgrees ==
  AtRest /\ follow_state = "FOLLOWING" /\ ~disturbed =>
    /\ current_channel = channel_sequence_data[channel_sequence_data_idx]
    /\ tuned = Heard(current_channel)
    /\ next_channel_trigger \in {-1, channel_sequence_data[NextIdx]}

\* Under any requests, main demodulates with the advertising address while it
\* waits for a CONNECT_REQ and with the connection's while it follows, but for
\* three causes: a channel is selected, or a session starts, while the address is
\* a connection's that is then no longer followed, and is not put back
\* (usb_api_btle.c:167-175, 97-118); or MODE_OFF comes between the two steps in
\* which main takes a connection over (bluehack.c:338-376).  A MODE_OFF at any
\* other moment puts it right (bluehack.c:43-63).
ListeningHears ==
  AtRest /\ session \in {"STATIC", "DYNAMIC"} /\ ~deaf =>
    (access_addr = "conn" <=> follow_state = "FOLLOWING")

\* A session that was let start in DYNAMIC mode knows the address it is looking
\* for, whatever is requested while it runs: "BTLE_MODE_FOLLOW_DYNAMIC needs
\* AdvAddr" (usb_api_btle.c:128).
DynamicHasAddress ==
  transceiver_mode = "BTLE" /\ session = "DYNAMIC" => adv_addr_connect_set

\* Whatever the host requests and whenever: on a data channel the host has not
\* selected the radio is only when the channel is in use in the connection
\* accepted last, and so is a planned hop (bluehack.c:248-289, 342, 374-378, 388).
OnMap ==
  AtRest => {tuned, next_channel_trigger} \cap (DataChannels \ Selectable) \subseteq map

\* "only listen on one channel" (bluehack.h:36), "listen for CONNECT_REQ on a
\* fixed channel" (bluehack.h:38): the channel the host selected last
\* (bluehack.py:305-308), at whichever of main's steps, session after session.
ListensWhereSelected ==
  AtRest /\ ~disturbed
    /\ (session = "FIXED" \/ (session = "STATIC" /\ follow_state = "LISTENING")) =>
       tuned = requested /\ current_channel = requested

\* Until it follows a connection, a DYNAMIC session moves on the advertising
\* channels only, and the planned hop is the one after the current channel.
SynchOnAdvertising ==
  AtRest /\ session = "DYNAMIC" /\ follow_state = "SYNCH" /\ ~disturbed =>
    /\ tuned = current_channel /\ tuned \in Adv
    /\ next_channel_trigger # -1 =>
         <<current_channel, next_channel_trigger>> \in {<<37, 38>>, <<38, 39>>, <<39, 37>>}
============================================================================
