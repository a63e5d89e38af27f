------------------------- MODULE BtleSessionProofs -------------------------
(***************************************************************************)
(* Proofs about BtleSession for every number of channels and requests.     *)
(* What the loop of get_channels computes is not proved: the theorems that *)
(* depend on it have UsedOnly as a hypothesis.                             *)
(***************************************************************************)
EXTENDS BtleSession, TLAPS

-----------------------------------------------------------------------------
(* The address of a DYNAMIC session *)

\* Whatever is requested, and whatever main does meanwhile, a running DYNAMIC
\* session has the address it was started with.
THEOREM DynamicKnowsAddress == Spec => []DynamicHasAddress
<1>1. Init => DynamicHasAddress
  BY DEF Init, DynamicHasAddress
<1>2. DynamicHasAddress /\ [Next]_vars => DynamicHasAddress'
  <2> SUFFICES ASSUME DynamicHasAddress, [Next]_vars PROVE DynamicHasAddress'
    OBVIOUS
  <2> USE DEF DynamicHasAddress
  <2>1. CASE ModeRefused
    BY <2>1 DEF ModeRefused, Issue, radio, host
  <2>2. CASE ModeFixed
    BY <2>2 DEF ModeFixed, Issue
  <2>3. CASE ModeFollow
    BY <2>3 DEF ModeFollow, Issue, radio
  <2>4. CASE ModeFollowData
    BY <2>4 DEF ModeFollowData, radio
  <2>5. CASE ModeOffAgain \/ ModeOff \/ Configure
    BY <2>5 DEF ModeOffAgain, ModeOff, Configure
  <2>6. CASE Channel
    BY <2>6 DEF Channel, radio, modes
  <2>7. CASE SgpioIsr
    BY <2>7 DEF SgpioIsr, radio, modes, host
  <2>8. CASE Main
    <3>1. UNCHANGED <<radio, modes, host>>
      BY <2>8 DEF Main, MainLoop, MainSpin, MainHop, MainDue, MainHopped, MainReceive, MainUpdate,
                  MainListening, MainFollow, MainFollowing, MainCall, MainAssign, MainTune,
                  At, Where
    <3> QED
      BY <3>1 DEF radio, modes, host
  <2>9. CASE UNCHANGED vars
    BY <2>9 DEF vars, radio, modes, host
  <2> QED
    BY <2>1, <2>2, <2>3, <2>4, <2>5, <2>6, <2>7, <2>8, <2>9 DEF Next, UsbIsr
<1> QED
  BY <1>1, <1>2, PTL DEF Spec
-----------------------------------------------------------------------------
(* The access address main demodulates with *)

\* The address is the connection's from the moment main takes it over.
HearInv ==
  /\ then \in {"loop", "hopped"}
  /\ ~deaf => (access_addr = "conn" <=> follow_state = "FOLLOWING" \/ pc = "follow")

LEMMA RequestHears ==
  ASSUME HearInv, UsbIsr
  PROVE  HearInv'
<1> USE DEF HearInv, main
<1>1. CASE ModeRefused
  BY <1>1 DEF ModeRefused
<1>2. CASE ModeFixed
  BY <1>2 DEF ModeFixed
<1>3. CASE ModeFollow
  BY <1>3 DEF ModeFollow, Parted, FollowStateOf
<1>4. CASE ModeFollowData
  BY <1>4 DEF ModeFollowData
<1>5. CASE ModeOffAgain
  BY <1>5 DEF ModeOffAgain
<1>6. CASE ModeOff
  BY <1>6 DEF ModeOff
<1>7. CASE Channel
  BY <1>7 DEF Channel, Parted, FollowStateOf
<1>8. CASE Configure
  BY <1>8 DEF Configure
<1> QED
  BY <1>1, <1>2, <1>3, <1>4, <1>5, <1>6, <1>7, <1>8 DEF UsbIsr

\* Whatever is requested and whenever: while main waits for a connection or follows
\* one, it demodulates with the address of what it listens for, unless a request
\* has parted the two in one of the three ways the code has.
THEOREM HearsConnections == Spec => []ListeningHears
<1>1. Init => HearInv
  BY DEF Init, InitConfig, HearInv
<1>2. HearInv /\ [Next]_vars => HearInv'
  <2> SUFFICES ASSUME HearInv, [Next]_vars PROVE HearInv'
    OBVIOUS
  <2>1. CASE UsbIsr
    BY <2>1, RequestHears
  <2>2. CASE Main
    <3> USE DEF HearInv, At, Where, Call, host
    <3>1. CASE MainLoop \/ MainSpin \/ MainHop \/ MainDue \/ MainHopped \/ MainReceive
      BY <3>1 DEF MainLoop, MainSpin, MainHop, MainDue, MainHopped, MainReceive
    <3>2. CASE MainUpdate
      BY <3>2 DEF MainUpdate
    <3>3. CASE MainListening
      BY <3>3 DEF MainListening, Accept
    <3>4. CASE MainFollow \/ MainFollowing
      BY <3>4 DEF MainFollow, MainFollowing
    <3>5. CASE MainCall \/ MainAssign
      BY <3>5 DEF MainCall, MainAssign
    <3>6. CASE MainTune
      BY <3>6 DEF MainTune
    <3> QED
      BY <2>2, <3>1, <3>2, <3>3, <3>4, <3>5, <3>6 DEF Main
  <2>3. CASE SgpioIsr \/ UNCHANGED vars
    BY <2>3 DEF SgpioIsr, vars, main, host, HearInv
  <2> QED
    BY <2>1, <2>2, <2>3 DEF Next
<1>3. HearInv => ListeningHears
  BY DEF HearInv, ListeningHears, AtRest
<1> QED
  BY <1>1, <1>2, <1>3, PTL DEF Spec
-----------------------------------------------------------------------------
(* Sessions whose requests main can react to in time *)

Planned == next_channel_trigger \in {-1, channel_sequence_data[NextIdx]}

\* Where the radio, the index and the plan are at each of main's steps, while a
\* connection is followed.
Along ==
  /\ pc \in {"loop", "spin", "hop", "due", "receive", "update", "listening"} =>
       /\ current_channel = channel_sequence_data[channel_sequence_data_idx]
       /\ tuned = Heard(current_channel) /\ Planned
  /\ pc = "call" =>
       current_channel = channel_sequence_data[channel_sequence_data_idx] /\ Planned
  /\ pc \in {"assign", "tune"} /\ then = "loop" =>
       arg = channel_sequence_data[channel_sequence_data_idx] /\ Planned
  /\ pc = "tune" => current_channel = arg
  /\ pc = "due" => arg = channel_sequence_data[NextIdx] /\ next_channel_trigger = arg /\ arg # -1
  /\ pc \in {"assign", "tune"} /\ then = "hopped" => arg = channel_sequence_data[NextIdx]
  /\ pc = "hopped" =>
       current_channel = channel_sequence_data[NextIdx] /\ tuned = Heard(current_channel)

\* Whatever is requested: a mode request awaits its DATA stage only while the
\* device is off, and main is at one of its steps.
BaseInv ==
  /\ pc \in PCs /\ then \in {"loop", "hopped"}
  /\ transceiver_mode \in {"OFF", "BTLE"}
  /\ transceiver_mode = "OFF" <=> session = "OFF"
  /\ setup # NoSetup => transceiver_mode = "OFF" /\ setup.mode \in {"STATIC", "DYNAMIC"}

\* While the device is off main waits for samples that do not come; it follows only
\* what it has accepted.
FollowInv ==
  /\ transceiver_mode = "OFF" => Waiting /\ ~streaming /\ follow_state # "FOLLOWING"
  /\ pc = "follow" =>
       /\ current_channel = channel_sequence_data[channel_sequence_data_idx]
       /\ follow_state = "LISTENING"
  /\ follow_state = "FOLLOWING" => Along

\* The advertising channels in the order main visits them.
Cycle == {<<37, 38>>, <<38, 39>>, <<39, 37>>}

\* What each mode listens to until it follows a connection.
SelectInv ==
  /\ setup # NoSetup =>
       /\ current_channel = 37
       /\ follow_state = IF setup.mode = "DYNAMIC" THEN "SYNCH" ELSE "LISTENING"
  /\ transceiver_mode = "OFF" => next_channel_trigger = -1
  /\ transceiver_mode = "BTLE" => btle_mode = session
  /\ session = "FIXED" =>
       /\ pc \in {"loop", "spin", "hop", "receive"} /\ next_channel_trigger = -1
       /\ tuned = requested /\ current_channel = requested
  /\ session = "STATIC" => follow_state # "SYNCH"
  /\ session = "STATIC" /\ follow_state = "LISTENING" /\ pc # "follow" =>
       /\ pc \in {"loop", "spin", "hop", "receive", "update", "listening"}
       /\ next_channel_trigger = -1
       /\ tuned = requested /\ current_channel = requested
  /\ session = "DYNAMIC" /\ follow_state = "SYNCH" =>
       /\ pc \in {"loop", "spin", "hop", "due", "receive", "update", "assign", "tune", "hopped"}
       /\ pc \in {"loop", "spin", "hop", "due", "receive", "update"} =>
            /\ tuned = current_channel /\ tuned \in Adv
            /\ next_channel_trigger # -1 => <<current_channel, next_channel_trigger>> \in Cycle
       /\ pc = "due" => arg = next_channel_trigger /\ arg \in Adv
       /\ pc \in {"assign", "tune"} => then = "hopped" /\ arg \in Adv
       /\ pc = "tune" => current_channel = arg
       /\ pc = "hopped" => tuned = current_channel /\ tuned \in Adv

CalmInv == FollowInv /\ SelectInv

StartInv == BaseInv /\ (~disturbed => CalmInv)

LEMMA InitStart == Init => StartInv
BY DEF Init, InitConfig, StartInv, BaseInv, CalmInv, FollowInv, SelectInv, PCs, Along, Waiting

LEMMA RequestBase ==
  ASSUME BaseInv, UsbIsr
  PROVE  BaseInv'
<1> USE DEF BaseInv, main, radio
<1>1. CASE ModeRefused
  BY <1>1 DEF ModeRefused
<1>2. CASE ModeFixed
  BY <1>2 DEF ModeFixed
<1>3. CASE ModeFollow
  BY <1>3 DEF ModeFollow
<1>4. CASE ModeFollowData
  BY <1>4 DEF ModeFollowData
<1>5. CASE ModeOffAgain
  BY <1>5 DEF ModeOffAgain
<1>6. CASE ModeOff
  BY <1>6 DEF ModeOff
<1>7. CASE Channel
  BY <1>7 DEF Channel
<1>8. CASE Configure
  BY <1>8 DEF Configure
<1> QED
  BY <1>1, <1>2, <1>3, <1>4, <1>5, <1>6, <1>7, <1>8 DEF UsbIsr

\* A start request meets a main that waits.
LEMMA StartStep ==
  ASSUME BaseInv, CalmInv, ModeFixed \/ ModeFollow \/ ModeFollowData
  PROVE  CalmInv'
<1>1. CASE ModeFixed
  <2>1. /\ transceiver_mode = "OFF" /\ transceiver_mode' = "BTLE" /\ setup' = NoSetup
        /\ session' = "FIXED" /\ btle_mode' = "FIXED"
        /\ current_channel' = 37 /\ tuned' = 37 /\ requested' = 37
        /\ UNCHANGED <<follow_state, access_addr, next_channel_trigger, pc, then>>
    BY <1>1 DEF ModeFixed, main
  <2> QED
    BY <2>1 DEF CalmInv, FollowInv, SelectInv, Waiting, flag
<1>2. CASE ModeFollow
  <2>1. PICK m \in {"STATIC", "DYNAMIC"}, len \in Lengths :
          /\ follow_state' = FollowStateOf(m, follow_state)
          /\ setup' = [mode |-> m, length |-> len]
          /\ session = "OFF" /\ transceiver_mode = "OFF" /\ current_channel' = 37
          /\ UNCHANGED <<radio, next_channel_trigger, flag, main, session>>
    BY <1>2 DEF ModeFollow
  <2>2. /\ UNCHANGED <<transceiver_mode, streaming, next_channel_trigger, flag, pc, then, session>>
        /\ setup'.mode = m /\ follow_state' = IF m = "DYNAMIC" THEN "SYNCH" ELSE "LISTENING"
    BY <2>1 DEF radio, main, FollowStateOf
  <2> QED
    BY <2>1, <2>2 DEF CalmInv, FollowInv, SelectInv, Waiting, flag
<1>3. CASE ModeFollowData
  <2>1. /\ transceiver_mode = "OFF" /\ pc \in {"loop", "spin"} /\ session = "OFF"
        /\ next_channel_trigger = -1 /\ current_channel = 37
        /\ setup # NoSetup /\ setup.mode \in {"STATIC", "DYNAMIC"}
        /\ follow_state = IF setup.mode = "DYNAMIC" THEN "SYNCH" ELSE "LISTENING"
    BY <1>3 DEF ModeFollowData, BaseInv, CalmInv, FollowInv, SelectInv, Waiting, flag
  <2>2. /\ setup' = NoSetup /\ btle_mode' = setup.mode
        /\ UNCHANGED <<follow_state, current_channel, next_channel_trigger, flag, pc, then>>
    BY <1>3 DEF ModeFollowData, main
  <2>3. CASE UNCHANGED <<radio, adv_addr_connect_set, tuned, session, requested>>
    BY <2>1, <2>2, <2>3 DEF CalmInv, FollowInv, SelectInv, radio, Waiting, flag
  <2>4. CASE /\ transceiver_mode' = "BTLE" /\ tuned' = Heard(current_channel)
             /\ session' = setup.mode /\ requested' = 37
    BY <2>1, <2>2, <2>4 DEF CalmInv, FollowInv, SelectInv, Adv, Heard, NoChannel
  <2> QED
    BY <1>3, <2>3, <2>4 DEF ModeFollowData
<1> QED
  BY <1>1, <1>2, <1>3

\* The requests to a session, as far as they do not disturb it.
LEMMA SessionStep ==
  ASSUME BaseInv, CalmInv, ~disturbed',
         ModeRefused \/ ModeOffAgain \/ Channel \/ Configure
  PROVE  CalmInv'
<1>1. CASE ModeRefused
  <2>1. /\ btle_mode' = session /\ setup' = NoSetup
        /\ UNCHANGED <<radio, follow_state, access_addr, current_channel, next_channel_trigger,
                       sequence, tuned, flag, main, session, requested>>
    BY <1>1 DEF ModeRefused
  <2> QED
    BY <2>1 DEF CalmInv, FollowInv, SelectInv, Along, Planned, NextIdx, Waiting, flag, radio, sequence, main
<1>2. CASE ModeOffAgain
  <2>1. /\ transceiver_mode = "OFF" /\ setup' = NoSetup /\ session' = "OFF"
        /\ UNCHANGED <<radio, follow_state, next_channel_trigger, flag, main,
                       current_channel, sequence, tuned>>
    BY <1>2 DEF ModeOffAgain
  <2> QED
    BY <2>1 DEF CalmInv, FollowInv, SelectInv, Waiting, flag, radio, main, sequence
<1>3. CASE Channel
  <2>1. PICK c \in Selectable :
          /\ transceiver_mode = "BTLE"
          /\ follow_state' = FollowStateOf(btle_mode, follow_state)
          /\ current_channel' = c /\ tuned' = c /\ setup' = NoSetup /\ requested' = c
          /\ disturbed' = (disturbed \/ ~Listening)
          /\ UNCHANGED <<radio, modes, next_channel_trigger, main, session>>
    BY <1>3 DEF Channel
  <2>2. /\ btle_mode = session /\ session # "DYNAMIC" /\ follow_state = "LISTENING"
        /\ pc \in {"loop", "spin", "hop", "receive", "update", "listening"}
    BY <2>1 DEF CalmInv, SelectInv, Listening
  <2>3. follow_state' = "LISTENING"
    BY <2>1, <2>2 DEF FollowStateOf
  <2> QED
    BY <2>1, <2>2, <2>3 DEF CalmInv, FollowInv, SelectInv, radio, modes, main
<1>4. CASE Configure
  <2>1. /\ transceiver_mode = "OFF" /\ transceiver_mode' = "OFF"
        /\ setup' = NoSetup /\ session' = "OFF"
        /\ UNCHANGED <<streaming, follow_state, next_channel_trigger, flag, main>>
    BY <1>4 DEF Configure, BaseInv
  <2> QED
    BY <2>1 DEF CalmInv, FollowInv, SelectInv, Waiting, flag, main
<1> QED
  BY <1>1, <1>2, <1>3, <1>4

LEMMA RequestStart ==
  ASSUME StartInv, UsbIsr
  PROVE  StartInv'
<1>1. BaseInv /\ BaseInv'
  BY RequestBase DEF StartInv
<1>2. ASSUME ~disturbed' PROVE CalmInv'
  <2>1. CASE ModeOff
    <3>1. /\ Waiting /\ transceiver_mode' = "OFF" /\ ~streaming' /\ setup' = NoSetup
          /\ session' = "OFF" /\ follow_state' = "LISTENING" /\ next_channel_trigger' = -1
          /\ UNCHANGED <<flag, main>>
      BY <1>2, <2>1 DEF ModeOff
    <3> QED
      BY <3>1 DEF CalmInv, FollowInv, SelectInv, Waiting, flag, main
  <2>2. CASE ~ModeOff
    <3>1. ~disturbed
      BY <1>2, <2>2 DEF UsbIsr, ModeRefused, ModeFixed, ModeFollow, ModeFollowData, ModeOffAgain,
                        Channel, Configure
    <3> QED
      BY <1>1, <1>2, <2>2, <3>1, StartStep, SessionStep DEF StartInv, UsbIsr
  <2> QED
    BY <2>1, <2>2
<1> QED
  BY <1>1, <1>2 DEF StartInv

LEMMA MainStart ==
  ASSUME StartInv, Main
  PROVE  StartInv'
<1>0. UNCHANGED <<transceiver_mode, streaming, btle_mode, setup, session, requested, disturbed>>
  BY DEF Main, MainLoop, MainSpin, MainHop, MainDue, MainHopped, MainReceive, MainUpdate, MainListening,
         MainFollow, MainFollowing, MainCall, MainAssign, MainTune, At, Where, radio, modes, host
<1> USE <1>0 DEF StartInv, BaseInv, CalmInv, FollowInv, SelectInv, PCs, Along, Planned, NextIdx,
                 At, Where, Call, sequence, Waiting, flag
<1>1. CASE MainLoop
  BY <1>1 DEF MainLoop
<1>2. CASE MainSpin
  BY <1>2 DEF MainSpin
<1>3. CASE MainHop
  BY <1>3 DEF MainHop, Adv, Cycle
<1>d. CASE MainDue
  BY <1>d DEF MainDue, Adv, Byte
<1>4. CASE MainHopped
  BY <1>4 DEF MainHopped
<1>5. CASE MainReceive
  BY <1>5 DEF MainReceive
<1>6. CASE MainUpdate
  BY <1>6 DEF MainUpdate, NextAdv, Adv, Cycle
<1>7. CASE MainListening
  BY <1>7 DEF MainListening, Accept
<1>8. CASE MainFollow
  BY <1>8 DEF MainFollow
<1>9. CASE MainFollowing
  BY <1>9 DEF MainFollowing
<1>10. CASE MainCall
  BY <1>10 DEF MainCall
<1>11. CASE MainAssign
  BY <1>11 DEF MainAssign
<1>12. CASE MainTune
  BY <1>12 DEF MainTune, Heard, NoChannel, Adv
<1> QED
  BY <1>1, <1>2, <1>3, <1>d, <1>4, <1>5, <1>6, <1>7, <1>8, <1>9, <1>10, <1>11, <1>12 DEF Main

LEMMA StartInvariance == Spec => []StartInv
<1>1. StartInv /\ [Next]_vars => StartInv'
  <2> SUFFICES ASSUME StartInv, [Next]_vars PROVE StartInv'
    OBVIOUS
  <2>1. CASE UsbIsr
    BY <2>1, RequestStart
  <2>2. CASE Main
    BY <2>2, MainStart
  <2>3. CASE SgpioIsr \/ UNCHANGED vars
    <3>1. /\ UNCHANGED <<radio, modes, follow_state, access_addr, current_channel,
                         next_channel_trigger, sequence, tuned, main, host>>
          /\ streaming \/ UNCHANGED flag
      BY <2>3 DEF SgpioIsr, vars
    <3> QED
      BY <3>1 DEF radio, modes, sequence, main, host, StartInv, BaseInv, CalmInv, FollowInv,
                  SelectInv, Along, Planned, NextIdx, Waiting, flag
  <2> QED
    BY <2>1, <2>2, <2>3 DEF Next
<1> QED
  BY InitStart, <1>1, PTL DEF Spec

\* In any number of sessions, each started while the device is off, with channels
\* selected before a connection is heard and stopped while main waits for samples,
\* radio, index and plan stay in step along the connection, for every hop sequence.
THEOREM HopsAgree == Spec => []HopAgrees
<1>1. StartInv => HopAgrees
  BY DEF StartInv, CalmInv, FollowInv, Along, Planned, HopAgrees, AtRest
<1> QED
  BY StartInvariance, <1>1, PTL

\* Until it follows, a DYNAMIC session keeps to the advertising channels.
THEOREM StaysOnAdvertising == Spec => []SynchOnAdvertising
<1>1. StartInv => SynchOnAdvertising
  BY DEF StartInv, CalmInv, SelectInv, SynchOnAdvertising, AtRest, Cycle
<1> QED
  BY StartInvariance, <1>1, PTL

\* FIXED and STATIC sessions listen on the channel selected last.
THEOREM StaysWhereSelected == Spec => []ListensWhereSelected
<1>1. StartInv => ListensWhereSelected
  BY DEF StartInv, CalmInv, SelectInv, ListensWhereSelected, AtRest
<1> QED
  BY StartInvariance, <1>1, PTL
-----------------------------------------------------------------------------
(* Any requests at any time *)

\* The sequence of a connection visits the channels in use and no other.
UsedOnly == \A m \in Maps : GetChannels(m) \in [DataChannels -> m]

Channels == Adv \cup DataChannels

Allowed == Adv \cup Selectable \cup map

\* What main has chosen is allowed wherever it may still be tuned or planned; from
\* the CONNECT_REQ on until main has tuned, the radio may be on any channel.
MapInv ==
  /\ map # {} => channel_sequence_data \in [DataChannels -> map]
  /\ follow_state = "FOLLOWING" \/ pc = "follow" => map # {}
  /\ current_channel \in Allowed \cup {NoChannel}
  /\ pc # "follow" => next_channel_trigger \in Allowed \cup {-1}
  /\ pc = "due" => arg \in Allowed
  /\ pc \in {"assign", "tune"} => arg \in Allowed \cup {NoChannel}
  /\ pc \in {"loop", "spin", "hop", "due", "hopped", "receive", "update", "listening"} =>
       tuned \in Allowed

IInv == TypeOK /\ MapInv

LEMMA InitTypes == Init => IInv
<1> SUFFICES ASSUME Init PROVE IInv
  OBVIOUS
<1>1. Hops \in Nat \ {0} /\ 0 \in DataChannels
  BY HopsAssumption DEF DataChannels
<1>2. /\ channel_sequence_data \in [DataChannels -> DataChannels]
      /\ channel_packet_cnt \in 0 .. CntSize - 1 /\ requests \in 0 .. MaxRequests
  BY <1>1, SessionAssumption DEF Init, InitConfig, NoSequence
<1>3. setup \in [mode : Modes, length : {0, 1, 6}]
  BY DEF Init, NoSetup, Modes
<1>4. packet \in Packets /\ map \in Maps \cup {{}}
  BY DEF Init
<1>5. TypeOK
  BY <1>1, <1>2, <1>3, <1>4 DEF Init, InitConfig, TypeOK, Modes, Adv, PCs
<1>6. MapInv
  BY DEF Init, InitConfig, MapInv, Allowed, Adv
<1> QED
  BY <1>5, <1>6 DEF IInv

LEMMA Indexes ==
  ASSUME TypeOK
  PROVE  /\ NextIdx \in DataChannels
         /\ (NextIdx + channel_increment) % Hops \in DataChannels
<1>1. Hops \in Nat \ {0} /\ DataChannels = 0 .. Hops - 1
  BY HopsAssumption DEF DataChannels
<1>2. \A a, b \in DataChannels : (a + b) % Hops \in DataChannels
  BY <1>1
<1>3. channel_sequence_data_idx \in DataChannels /\ channel_increment \in DataChannels
  BY DEF TypeOK
<1> QED
  BY <1>2, <1>3 DEF NextIdx

\* Every request leaves a mode request of its type, or none, and counts.
LEMMA RequestKeeps ==
  ASSUME IInv, UsbIsr
  PROVE  /\ setup' \in [mode : Modes, length : {0, 1, 6}]
         /\ requests' \in 0 .. MaxRequests
<1>1. setup' = NoSetup \/ \E m \in Modes, len \in Lengths : setup' = [mode |-> m, length |-> len]
  BY DEF UsbIsr, ModeRefused, ModeFixed, ModeFollow, ModeFollowData, ModeOffAgain, ModeOff,
         Channel, Configure, Modes
<1>2. setup' \in [mode : Modes, length : {0, 1, 6}]
  BY <1>1 DEF NoSetup, Modes, Lengths
<1>3. requests' = requests \/ (requests < MaxRequests /\ requests' = requests + 1)
  BY DEF UsbIsr, ModeRefused, ModeFixed, ModeFollow, ModeFollowData, ModeOffAgain, ModeOff,
         Channel, Configure, Issue
<1>4. requests' \in 0 .. MaxRequests
  BY <1>3, SessionAssumption DEF IInv, TypeOK
<1> QED
  BY <1>2, <1>4

LEMMA RequestTypes ==
  ASSUME IInv, UsbIsr
  PROVE  IInv'
<1>1. 0 \in DataChannels /\ 0 \in 0 .. CntSize - 1
  BY HopsAssumption, SessionAssumption DEF DataChannels
<1>2. /\ transceiver_mode' \in {"OFF", "BTLE"} /\ streaming' \in BOOLEAN
      /\ btle_mode' \in Modes /\ session' \in Modes
      /\ follow_state' \in {"SYNCH", "LISTENING", "FOLLOWING"}
  <2>1. setup.mode \in Modes
    BY DEF IInv, TypeOK
  <2> QED
    BY <2>1 DEF UsbIsr, ModeRefused, ModeFixed, ModeFollow, ModeFollowData, ModeOffAgain, ModeOff,
           Channel, Configure, FollowStateOf, SessionModes, Modes, IInv, TypeOK, radio, modes
<1>3. /\ access_addr' \in {"adv", "conn"} /\ adv_addr_connect_set' \in BOOLEAN
  <2> USE DEF IInv, TypeOK, modes
  <2>1. access_addr' \in {"adv", "conn"}
    BY DEF UsbIsr, ModeRefused, ModeFixed, ModeFollow, ModeFollowData, ModeOffAgain, ModeOff,
           Channel, Configure
  <2>2. CASE ModeFollowData
    <3>1. adv_addr_connect_set' = adv_addr_connect_set
          \/ adv_addr_connect_set' = (adv_addr_connect_set \/ setup.length = 6)
      BY <2>2 DEF ModeFollowData
    <3> QED
      BY <2>1, <3>1
  <2>3. CASE ~ModeFollowData
    BY <2>1, <2>3 DEF UsbIsr, ModeRefused, ModeFixed, ModeFollow, ModeOffAgain, ModeOff, Channel,
                      Configure
  <2> QED
    BY <2>2, <2>3
<1>4. /\ current_channel' \in {current_channel, 37, 39} \cup Selectable
      /\ tuned' \in {tuned, Heard(current_channel), 37} \cup Selectable
      /\ requested' \in {requested, 37} \cup Selectable
      /\ next_channel_trigger' \in {next_channel_trigger, -1}
      /\ channel_sequence_data_idx' \in {channel_sequence_data_idx, 0}
      /\ channel_packet_cnt' \in {channel_packet_cnt, 0}
      /\ UNCHANGED <<channel_sequence_data, channel_increment, flag, main>>
  BY DEF UsbIsr, ModeRefused, ModeFixed, ModeFollow, ModeFollowData, ModeOffAgain, ModeOff,
         Channel, Configure, sequence
<1>d. deaf' \in BOOLEAN /\ disturbed' \in BOOLEAN
  BY DEF UsbIsr, ModeRefused, ModeFixed, ModeFollow, ModeFollowData, ModeOffAgain, ModeOff,
         Channel, Configure, IInv, TypeOK
<1>h. Heard(current_channel) \in Adv \cup DataChannels
  BY DEF IInv, TypeOK, Heard, Adv
<1>n. 37 \in Adv /\ 39 \in Adv
  BY DEF Adv
<1>o. /\ current_channel \in Adv \cup DataChannels \cup {NoChannel}
      /\ tuned \in Adv \cup DataChannels /\ requested \in Adv \cup DataChannels
      /\ next_channel_trigger \in Adv \cup DataChannels \cup {-1}
  BY DEF IInv, TypeOK
<1>s. Selectable \subseteq Adv \cup DataChannels
  BY SessionAssumption DEF DataChannels
<1>t. /\ current_channel' \in Adv \cup DataChannels \cup {NoChannel} /\ arg' = arg
      /\ tuned' \in Adv \cup DataChannels /\ requested' \in Adv \cup DataChannels
      /\ next_channel_trigger' \in Adv \cup DataChannels \cup {-1}
  <2>1. current_channel' \in Adv \cup DataChannels \cup {NoChannel}
    <3>1. current_channel' \in {current_channel, 37, 39} \cup Selectable
      BY <1>4
    <3> QED
      BY <3>1, <1>n, <1>o, <1>s
  <2>2. tuned' \in Adv \cup DataChannels
    <3>1. tuned' \in {tuned, Heard(current_channel), 37} \cup Selectable
      BY <1>4
    <3> QED
      BY <3>1, <1>n, <1>o, <1>s, <1>h
  <2>3. requested' \in Adv \cup DataChannels
    <3>1. requested' \in {requested, 37} \cup Selectable
      BY <1>4
    <3> QED
      BY <3>1, <1>n, <1>o, <1>s
  <2>4. next_channel_trigger' \in Adv \cup DataChannels \cup {-1} /\ arg' = arg
    BY <1>4, <1>o DEF main
  <2> QED
    BY <2>1, <2>2, <2>3, <2>4
<1>5. TypeOK'
  BY <1>1, <1>2, <1>3, <1>4, <1>d, <1>t, RequestKeeps DEF IInv, TypeOK, main, flag
<1>6. follow_state' \in {follow_state, "SYNCH", "LISTENING"}
  BY DEF UsbIsr, ModeRefused, ModeFixed, ModeFollow, ModeFollowData, ModeOffAgain, ModeOff,
         Channel, Configure, FollowStateOf
<1>7. MapInv'
  BY <1>4, <1>6 DEF IInv, MapInv, Allowed, Adv, main, Heard
<1> QED
  BY <1>5, <1>7 DEF IInv

LEMMA MainTypes ==
  ASSUME IInv, Main, UsedOnly
  PROVE  IInv'
<1>0. UNCHANGED <<radio, modes, host>>
  BY DEF Main, MainLoop, MainSpin, MainHop, MainDue, MainHopped, MainReceive, MainUpdate, MainListening,
         MainFollow, MainFollowing, MainCall, MainAssign, MainTune, At, Where
<1>x. NextIdx \in DataChannels /\ (NextIdx + channel_increment) % Hops \in DataChannels
  BY Indexes DEF IInv
<1> USE <1>0 DEF IInv, TypeOK, MapInv, Allowed, radio, modes, host, sequence, flag, PCs, At,
                 Where, Call
<1>1. CASE MainLoop
  <2>1. TypeOK'
    BY <1>1 DEF MainLoop
  <2>2. MapInv'
    BY <1>1 DEF MainLoop
  <2> QED
    BY <2>1, <2>2
<1>2. CASE MainSpin
  <2>0. sgpio_callback_finished' = FALSE /\ pc' = "hop"
        /\ UNCHANGED <<arg, then, packet, map, follow_state, access_addr, current_channel,
                       next_channel_trigger, sequence, channel_packet_cnt, tuned>>
    BY <1>2 DEF MainSpin
  <2>a. sgpio_callback_finished' \in BOOLEAN
    BY <2>0
  <2>1. TypeOK'
    BY <2>0, <2>a
  <2>2. MapInv'
    BY <1>2 DEF MainSpin
  <2> QED
    BY <2>1, <2>2
<1>3. CASE MainHop
  BY <1>3 DEF MainHop
<1>d. CASE MainDue
  BY <1>d, SessionAssumption DEF MainDue, Byte
<1>4. CASE MainHopped
  BY <1>4, <1>x DEF MainHopped
<1>5. CASE MainReceive
  BY <1>5 DEF MainReceive
<1>6. CASE MainUpdate
  BY <1>6 DEF MainUpdate, NextAdv, Adv
<1>7. CASE MainListening
  BY <1>7, SessionAssumption DEF MainListening, Accept, Packets, UsedOnly
<1>8. CASE MainFollow
  BY <1>8 DEF MainFollow
<1>9. CASE MainFollowing
  BY <1>9, <1>x, SessionAssumption DEF MainFollowing
<1>10. CASE MainCall
  BY <1>10 DEF MainCall
<1>11. CASE MainAssign
  BY <1>11 DEF MainAssign
<1>12. CASE MainTune
  BY <1>12 DEF MainTune, Heard, Adv
<1> QED
  BY <1>1, <1>2, <1>3, <1>d, <1>4, <1>5, <1>6, <1>7, <1>8, <1>9, <1>10, <1>11, <1>12 DEF Main

LEMMA Invariance == ASSUME UsedOnly PROVE Spec => []IInv
<1>1. IInv /\ [Next]_vars => IInv'
  <2> SUFFICES ASSUME IInv, [Next]_vars PROVE IInv'
    OBVIOUS
  <2>1. CASE UsbIsr
    BY <2>1, RequestTypes
  <2>2. CASE Main
    BY <2>2, MainTypes
  <2>3. CASE SgpioIsr
    BY <2>3 DEF SgpioIsr, radio, modes, sequence, main, host, IInv, TypeOK, MapInv, Allowed
  <2>4. CASE UNCHANGED vars
    BY <2>4 DEF vars, radio, flag, modes, sequence, main, host, IInv, TypeOK, MapInv, Allowed
  <2> QED
    BY <2>1, <2>2, <2>3, <2>4 DEF Next
<1> QED
  BY InitTypes, <1>1, PTL DEF Spec

\* Every variable keeps its type.
THEOREM TypeCorrect == ASSUME UsedOnly PROVE Spec => []TypeOK
<1>1. IInv => TypeOK
  BY DEF IInv
<1> QED
  BY Invariance, <1>1, PTL

\* Whatever is requested and whenever, the radio leaves the advertising and the
\* selected channels only along the map accepted last.
THEOREM StaysOnMap == ASSUME UsedOnly PROVE Spec => []OnMap
<1>1. IInv => OnMap
  <2> SUFFICES ASSUME IInv, AtRest PROVE {tuned, next_channel_trigger} \cap (DataChannels \ Selectable) \subseteq map
    BY DEF OnMap
  <2>1. tuned \in Allowed /\ next_channel_trigger \in Allowed \cup {-1}
    BY DEF IInv, MapInv, AtRest
  <2>2. DataChannels \cap Adv = {} /\ -1 \notin DataChannels
    BY SessionAssumption, HopsAssumption DEF DataChannels, Adv
  <2> QED
    BY <2>1, <2>2 DEF Allowed
<1> QED
  BY Invariance, <1>1, PTL
============================================================================
