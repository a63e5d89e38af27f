------------------------- MODULE SampleRingProofs -------------------------
(***************************************************************************)
(* Proofs about SampleRing for every ring size, block size, packet length, *)
(* set of channels and set of requests: the type invariant; that no        *)
(* interrupt writes into the window main demodulates; from the start of a  *)
(* session until the positions are reset again, that main never reads past *)
(* the interrupt, and reads samples of the lap it is in, or the tail the   *)
(* interrupt skips on noise; that each request and hop, however they tear  *)
(* each other's resets, leaves at most two laps of old samples; and that   *)
(* in a session the host leaves alone neither side waits for the other.    *)
(***************************************************************************)
EXTENDS SampleRing, SequenceTheorems, TLAPS

-----------------------------------------------------------------------------
(* Positions and slots *)

LEMMA SizePositive == SAMPLE_BUFFER_SIZE \in Nat \ {0}
BY SizeAssumption

\* A position is a number of whole laps and an offset in the ring.
LEMMA LapAndOffset ==
  ASSUME NEW p \in Nat
  PROVE  /\ p % SAMPLE_BUFFER_SIZE \in Slots
         /\ \E q \in Nat : p = SAMPLE_BUFFER_SIZE * q + (p % SAMPLE_BUFFER_SIZE)
<1>1. SAMPLE_BUFFER_SIZE \in Nat \ {0}
  BY SizePositive
<1>2. p % SAMPLE_BUFFER_SIZE \in Slots
  BY <1>1 DEF Slots
<1>3. /\ p \div SAMPLE_BUFFER_SIZE \in Nat
      /\ p = SAMPLE_BUFFER_SIZE * (p \div SAMPLE_BUFFER_SIZE) + (p % SAMPLE_BUFFER_SIZE)
  BY <1>1
<1> QED
  BY <1>2, <1>3

\* Two positions less than a lap apart differ by their offsets, or by a lap.
LEMMA Apart ==
  ASSUME NEW r \in Nat, NEW w \in Nat, r < w
  PROVE  LET R == r % SAMPLE_BUFFER_SIZE
             W == w % SAMPLE_BUFFER_SIZE
         IN  /\ R < W => w - r >= W - R
             /\ R >= W => w - r >= SAMPLE_BUFFER_SIZE + W - R
             /\ \A j, k \in Nat :
                  R + j = W + k /\ j < w - r => w - r - j + k >= SAMPLE_BUFFER_SIZE
<1> DEFINE S == SAMPLE_BUFFER_SIZE
           R == r % SAMPLE_BUFFER_SIZE
           W == w % SAMPLE_BUFFER_SIZE
<1>1. PICK m \in Nat : r = S * m + R
  BY LapAndOffset
<1>2. PICK n \in Nat : w = S * n + W
  BY LapAndOffset
<1>3. S \in Nat \ {0} /\ R \in Slots /\ W \in Slots
  BY LapAndOffset, SizePositive
<1> DEFINE q == n - m
<1>4. q \in Int /\ w - r = S * q + (W - R)
  BY <1>1, <1>2, <1>3 DEF Slots
<1>5. (q >= 1 => S * q >= S) /\ (q <= 0 => S * q <= 0) /\ (q <= -1 => S * q <= -S)
  BY <1>3, <1>4
<1> HIDE DEF q
<1>6. S * q \in Int
  BY <1>3, <1>4
<1> DEFINE Sq == S * q
<1>7. /\ Sq \in Int /\ w - r = Sq + (W - R)
      /\ (q >= 1 => Sq >= S) /\ (q <= 0 => Sq <= 0) /\ (q <= -1 => Sq <= -S)
  BY <1>4, <1>5, <1>6
<1> HIDE DEF Sq
<1>8. R < W => w - r >= W - R
  BY <1>3, <1>4, <1>7 DEF Slots
<1>9. R >= W => w - r >= S + W - R
  BY <1>3, <1>4, <1>7 DEF Slots
<1>10. \A j, k \in Nat : R + j = W + k /\ j < w - r => w - r - j + k >= S
  BY <1>3, <1>4, <1>7 DEF Slots
<1> QED
  BY <1>8, <1>9, <1>10
-----------------------------------------------------------------------------
(* The type invariant *)

\* What reset_counter, set_channel and the handlers leave to execute is a
\* sequence of known accesses.
LEMMA OpsType ==
  ASSUME NEW request \in {"channel", "off", "start_fixed", "start_follow", "follow_data"},
         NEW ch \in Channels
  PROVE  RequestOps(request, ch) \in Seq(Ops) /\ SetChannelOps(ch) \in Seq(Ops)
<1>1. CHANNEL_START \in Channels
  BY ChannelAssumption
<1>2. /\ [do |-> "loadW1"] \in Ops /\ [do |-> "loadW2"] \in Ops
      /\ [do |-> "storeW"] \in Ops /\ [do |-> "loadR1"] \in Ops
      /\ [do |-> "loadR2"] \in Ops /\ [do |-> "storeR"] \in Ops
      /\ [do |-> "on"] \in Ops /\ [do |-> "off"] \in Ops /\ [do |-> "init"] \in Ops
      /\ [do |-> "retune"] \in Ops
  BY DEF Ops
<1>3. \A c \in Channels : [do |-> "current", ch |-> c] \in Ops
                       /\ [do |-> "tune", ch |-> c] \in Ops
  BY DEF Ops
<1>4. ResetCounterOps \in Seq(Ops)
  BY <1>2 DEF ResetCounterOps
<1>5. \A c \in Channels : SetChannelOps(c) \in Seq(Ops)
  <2> SUFFICES ASSUME NEW c \in Channels PROVE SetChannelOps(c) \in Seq(Ops)
    OBVIOUS
  <2>1. << [do |-> "current", ch |-> c], [do |-> "tune", ch |-> c] >> \in Seq(Ops)
    BY <1>3
  <2> HIDE DEF Ops
  <2> QED
    BY <1>4, <2>1, ConcatProperties DEF SetChannelOps
<1>6. /\ << [do |-> "current", ch |-> CHANNEL_START] >> \in Seq(Ops)
      /\ << [do |-> "on"] >> \in Seq(Ops)
      /\ << [do |-> "on"], [do |-> "retune"] >> \in Seq(Ops)
      /\ << [do |-> "current", ch |-> CHANNEL_START], [do |-> "off"] >> \in Seq(Ops)
      /\ << [do |-> "init"] >> \in Seq(Ops)
  <2>1. \A a \in Ops : << a >> \in Seq(Ops)
    OBVIOUS
  <2>2. \A a, b \in Ops : << a, b >> \in Seq(Ops)
    OBVIOUS
  <2>3. [do |-> "current", ch |-> CHANNEL_START] \in Ops
    BY <1>1, <1>3
  <2> QED
    BY <1>2, <2>1, <2>2, <2>3, Zenon
<1>7. CASE request = "channel"
  BY <1>5, <1>7 DEF RequestOps
<1>8. CASE request = "start_fixed"
  BY <1>1, <1>5, <1>6, <1>8, ConcatProperties DEF RequestOps
<1>9. CASE request = "start_follow"
  BY <1>5, <1>6, <1>9 DEF RequestOps
<1>10. CASE request = "follow_data"
  BY <1>4, <1>5, <1>6, <1>10, ConcatProperties DEF RequestOps
<1>11. CASE request = "off"
  BY <1>4, <1>5, <1>6, <1>11, ConcatProperties DEF RequestOps
<1> QED
  BY <1>7, <1>8, <1>9, <1>10, <1>11

LEMMA InitType == Init => TypeOK
<1> SUFFICES ASSUME Init PROVE TypeOK
  OBVIOUS
<1>1. 0 \in Slots /\ 0 \in 0 .. SAMPLE_BUFFER_SIZE /\ 0 \in 0 .. MaxBlocks
      /\ 0 \in 0 .. MaxResets
  BY SizePositive, ChannelAssumption DEF Slots
<1>2. CHANNEL_DEFAULT \in Channels
  BY ChannelAssumption
<1>3. todo \in [{"main", "usb"} -> Seq(Ops)]
  BY EmptySeq DEF Init
<1>4. mem \in [Slots -> [pos : Nat \cup {-1}, ch : Channels \cup {-1}]]
  BY DEF Init
<1>5. report \in [tag : Channels \cup {0, -1}, chans : SUBSET (Channels \cup {-1})]
  BY DEF Init
<1> QED
  BY <1>1, <1>2, <1>3, <1>4, <1>5 DEF Init, TypeOK, PCs, NoWarning

\* A skip only adds to the position it loaded.
LEMMA SkipType ==
  ASSUME NEW r \in [a : Nat, b : Nat]
  PROVE  SkipValues(r) \subseteq Nat
<1>1. \A p \in Nat : ToNextLap(p) \in Nat
  BY SizePositive DEF ToNextLap
<1> QED
  BY <1>1 DEF SkipValues

LEMMA SgpioType == TypeOK /\ SgpioIsr => TypeOK'
<1> SUFFICES ASSUME TypeOK, SgpioIsr PROVE TypeOK'
  OBVIOUS
<1>1. WriteIndex \in Slots /\ SAMPLE_BUFFER_SIZE \in Nat /\ BLOCK \in Nat
  BY LapAndOffset, SizeAssumption DEF TypeOK, WriteIndex
<1>2. ToNextLap(sample_pos_write) \in Nat
  BY <1>1 DEF TypeOK, ToNextLap, WriteIndex, Slots
<1>3. StoreBlock => mem' \in [Slots -> [pos : Nat \cup {-1}, ch : Channels \cup {-1}]]
  BY <1>1 DEF StoreBlock, TypeOK, WriteSlots, Slots
<1>4. CASE IsrDrop
  BY <1>4 DEF SgpioIsr, IsrDrop, TypeOK, positions, config, contexts, window, result
<1>5. CASE IsrSignal
  BY <1>1, <1>3, <1>5, ChannelAssumption
     DEF SgpioIsr, IsrSignal, TypeOK, config, contexts, window, result
<1>6. CASE IsrNoise
  <2>1. sample_pos_write' \in Nat /\ blocks' \in 0 .. MaxBlocks
    <3>1. CASE SAMPLE_BUFFER_SIZE - WriteIndex < PACKET_SAMPLES_MAX
      BY <1>2, <1>6, <3>1, ChannelAssumption DEF IsrNoise, TypeOK
    <3>2. CASE ~(SAMPLE_BUFFER_SIZE - WriteIndex < PACKET_SAMPLES_MAX)
      BY <1>6, <3>2 DEF IsrNoise, TypeOK
    <3> QED
      BY <3>1, <3>2
  <2>2. /\ sample_pos_read' = sample_pos_read /\ sgpio_callback_finished' = 1
        /\ mem' \in [Slots -> [pos : Nat \cup {-1}, ch : Channels \cup {-1}]]
    BY <1>3, <1>6 DEF IsrNoise
  <2> QED
    BY <2>1, <2>2 DEF SgpioIsr, TypeOK, config, contexts, window, result
<1> QED
  BY <1>4, <1>5, <1>6 DEF SgpioIsr

\* Loading a position into either register keeps the registers' type.
LEMMA RegType ==
  ASSUME NEW r \in [{"main", "usb"} -> [a : Nat, b : Nat]],
         NEW c \in {"main", "usb"}, NEW n \in Nat
  PROVE  /\ [r EXCEPT ![c].a = n] \in [{"main", "usb"} -> [a : Nat, b : Nat]]
         /\ [r EXCEPT ![c].b = n] \in [{"main", "usb"} -> [a : Nat, b : Nat]]
<1>1. r[c] \in [a : Nat, b : Nat]
  OBVIOUS
<1>2. /\ [r[c] EXCEPT !.a = n] \in [a : Nat, b : Nat]
      /\ [r[c] EXCEPT !.b = n] \in [a : Nat, b : Nat]
  BY <1>1
<1>3. [r EXCEPT ![c].a = n] \in [{"main", "usb"} -> [a : Nat, b : Nat]]
  BY <1>2
<1>4. [r EXCEPT ![c].b = n] \in [{"main", "usb"} -> [a : Nat, b : Nat]]
  BY <1>2
<1> QED
  BY <1>3, <1>4

LEMMA ExecuteType ==
  ASSUME TypeOK, NEW ctx \in {"main", "usb"}, Execute(ctx)
  PROVE  TypeOK'
<1> DEFINE op == Head(todo[ctx])
<1>1. todo[ctx] \in Seq(Ops) /\ todo[ctx] # <<>>
  BY DEF TypeOK, Execute
<1>2. op \in Ops /\ Tail(todo[ctx]) \in Seq(Ops)
  BY <1>1, HeadTailProperties
<1>3. todo' \in [{"main", "usb"} -> Seq(Ops)]
  BY <1>2 DEF TypeOK, Execute
<1>4. op.do \in {"current", "tune"} => op.ch \in Channels
  BY <1>2 DEF Ops
<1> HIDE DEF op
<1>5. reg[ctx] \in [a : Nat, b : Nat] /\ SkipValues(reg[ctx]) \subseteq Nat
  BY SkipType DEF TypeOK
<1>6. Load(ctx, op) \/ StorePos(ctx, op) \/ SetCurrent(op) \/ Tune(op)
        \/ SetTransferMode(op) \/ InitConfig(op)
  BY DEF Execute, op
<1> USE <1>3 DEF TypeOK, Execute, positions, config, window, result
<1>7. CASE Load(ctx, op)
  <2>1. reg' \in [{"main", "usb"} -> [a : Nat, b : Nat]]
    <3>1. PICK n \in Nat : \/ reg' = [reg EXCEPT ![ctx].a = n]
                           \/ reg' = [reg EXCEPT ![ctx].b = n]
      BY <1>7 DEF Load
    <3>2. reg \in [{"main", "usb"} -> [a : Nat, b : Nat]]
      OBVIOUS
    <3> HIDE DEF TypeOK
    <3> QED
      BY <3>1, <3>2, RegType
  <2> QED
    BY ZenonT(40), <1>7, <2>1 DEF Load
<1>8. CASE StorePos(ctx, op)
  BY ZenonT(40), <1>5, <1>8 DEF StorePos
<1>9. CASE SetCurrent(op)
  BY <1>4, <1>9 DEF SetCurrent
<1>10. CASE Tune(op)
  BY <1>4, <1>10 DEF Tune
<1>11. CASE SetTransferMode(op)
  BY <1>11 DEF SetTransferMode
<1>12. CASE InitConfig(op)
  BY <1>12, ChannelAssumption DEF InitConfig
<1> QED
  BY <1>6, <1>7, <1>8, <1>9, <1>10, <1>11, <1>12

LEMMA UsbType == TypeOK /\ UsbIsr => TypeOK'
<1> SUFFICES ASSUME TypeOK, UsbIsr PROVE TypeOK'
  OBVIOUS
<1>1. ASSUME NEW request \in Requests, NEW ch \in Channels, UsbRequest(request, ch)
      PROVE  TypeOK'
  <2>1. RequestOps(request, ch) \in Seq(Ops)
    BY OpsType, ChannelAssumption
  <2>2. resets' \in 0 .. MaxResets /\ follow_pending' \in BOOLEAN
    BY <1>1, ChannelAssumption DEF UsbRequest, TypeOK
  <2>3. todo' \in [{"main", "usb"} -> Seq(Ops)]
    BY <1>1, <2>1 DEF UsbRequest, TypeOK
  <2> QED
    BY <1>1, <2>2, <2>3 DEF UsbRequest, TypeOK, positions, window, result
<1>2. ASSUME UsbFollowData PROVE TypeOK'
  <2>1. RequestOps("follow_data", CHANNEL_START) \in Seq(Ops)
    BY OpsType, ChannelAssumption
  <2>2. todo' \in [{"main", "usb"} -> Seq(Ops)]
    BY <1>2, <2>1 DEF UsbFollowData, TypeOK
  <2> QED
    BY <1>2, <2>2 DEF UsbFollowData, TypeOK, positions, window, result
<1>3. ASSUME Execute("usb") PROVE TypeOK'
  BY <1>3, ExecuteType
<1> QED
  BY <1>1, <1>2, <1>3 DEF UsbIsr
-----------------------------------------------------------------------------
(* The window *)

\* What main knows of its window at each point of an iteration, as long as no
\* request has moved the positions since it compared them: the read position
\* is behind the write position, idx_read is its slot, and the window ends
\* before the ring and before the write position.
WindowInv ==
  /\ pc \in {"idx_read", "idx_write", "tag", "demod"} /\ ~moved =>
       sample_pos_read < sample_pos_write
  /\ pc \in {"idx_write", "tag", "demod"} /\ ~moved =>
       idx_read = sample_pos_read % SAMPLE_BUFFER_SIZE
  /\ pc \in {"tag", "demod"} => idx_read + buflen_to_read <= SAMPLE_BUFFER_SIZE
  /\ pc \in {"tag", "demod"} /\ ~moved =>
       sample_pos_read + buflen_to_read <= sample_pos_write

\* The inductive invariant.
IInv == TypeOK /\ WindowInv

\* demod_buffer consumes no more than its window.
LEMMA DemodType ==
  ASSUME NEW len \in Nat, NEW o \in DemodOutcomes(len)
  PROVE  /\ o.bytes \in 0 .. len /\ o.end \in {NoWarning, NotEnough, Packet}
         /\ o.start \in Nat
         /\ o.end = Packet => \A k \in o.start .. o.bytes - 1 : k \in 0 .. len - 1
BY DEF DemodOutcomes, NoWarning, NotEnough, Packet

LEMMA MainType == IInv /\ MainStep => TypeOK'
<1> SUFFICES ASSUME IInv, MainStep PROVE TypeOK'
  OBVIOUS
<1> USE DEF IInv, TypeOK, PCs, config, contexts, window, result
<1> USE DEF MainStep
<1>1. CASE MainLoop
  BY <1>1 DEF MainLoop
<1>2. CASE MainSpin
  BY <1>2 DEF MainSpin
<1>3. CASE MainHop
  <2>1. CASE UNCHANGED <<todo, resets>> /\ pc' = "check"
    BY <1>3, <2>1 DEF MainHop
  <2>2. CASE ~(UNCHANGED <<todo, resets>> /\ pc' = "check")
    <3>1. next_channel_trigger \in Channels
      BY <1>3, <2>2, ChannelAssumption DEF MainHop
    <3>2. SetChannelOps(next_channel_trigger) \in Seq(Ops)
      BY <3>1, OpsType
    <3>3. todo' \in [{"main", "usb"} -> Seq(Ops)] /\ resets' \in 0 .. MaxResets
      BY <1>3, <2>2, <3>2, ChannelAssumption DEF MainHop
    <3> QED
      BY <1>3, <2>2, <3>3 DEF MainHop
  <2> QED
    BY <2>1, <2>2
<1>4. CASE MainHopped
  BY <1>4 DEF MainHopped
<1>5. CASE MainCheck
  BY <1>5 DEF MainCheck
<1>6. CASE MainIdxRead
  BY ZenonT(40), <1>6, LapAndOffset DEF MainIdxRead
<1>7. CASE MainIdxWrite
  <2>1. WriteIndex \in Slots /\ SAMPLE_BUFFER_SIZE \in Nat
    BY LapAndOffset, SizePositive DEF WriteIndex
  <2>2. buflen_to_read' \in 0 .. SAMPLE_BUFFER_SIZE
    BY <1>7, <2>1 DEF MainIdxWrite, Slots
  <2> QED
    BY <1>7, <2>1, <2>2 DEF MainIdxWrite
<1>8. CASE MainTag
  BY <1>8 DEF MainTag
<1>9. CASE MainDemod
  <2>1. PICK o \in DemodOutcomes(buflen_to_read) :
          /\ bytesread' = o.bytes /\ outcome' = o.end
          /\ report' = IF o.end = Packet
                         THEN [tag |-> channel_tmp,
                               chans |-> {mem[idx_read + k].ch : k \in o.start .. o.bytes - 1}]
                         ELSE report
    BY <1>9 DEF MainDemod
  <2>2. buflen_to_read \in Nat /\ SAMPLE_BUFFER_SIZE \in Nat
        /\ idx_read + buflen_to_read <= SAMPLE_BUFFER_SIZE
    BY <1>9, SizePositive DEF MainDemod, MainAt, WindowInv
  <2>3. bytesread' \in 0 .. SAMPLE_BUFFER_SIZE /\ outcome' \in {NoWarning, NotEnough, Packet}
    BY <2>1, <2>2, DemodType
  <2>4. o.end = Packet => \A k \in o.start .. o.bytes - 1 : idx_read + k \in Slots
    BY SMTT(20), <2>2, DemodType DEF Slots
  <2>5. o.end = Packet => {mem[idx_read + k].ch : k \in o.start .. o.bytes - 1}
                            \in SUBSET (Channels \cup {-1})
    BY <2>4
  <2>6. report' \in [tag : Channels \cup {0, -1}, chans : SUBSET (Channels \cup {-1})]
    BY <2>1, <2>5
  <2> QED
    BY <1>9, <2>3, <2>6 DEF MainDemod
<1>10. CASE MainLoad
  BY <1>10, RegType DEF MainLoad
<1>11. CASE MainStore
  BY <1>11 DEF MainStore
<1>12. CASE MainSkip
  <2>1. sample_pos_read' \in Nat
    <3>1. SkipValues(reg["main"]) \subseteq Nat
      BY SkipType
    <3> QED
      BY <1>12, <3>1 DEF MainSkip
  <2>2. reg' \in [{"main", "usb"} -> [a : Nat, b : Nat]]
    <3>1. \/ reg' = [reg EXCEPT !["main"].a = sample_pos_read]
          \/ reg' = [reg EXCEPT !["main"].b = sample_pos_read]
          \/ reg' = reg
      BY <1>12 DEF MainSkip
    <3>2. /\ reg \in [{"main", "usb"} -> [a : Nat, b : Nat]]
          /\ sample_pos_read \in Nat /\ "main" \in {"main", "usb"}
      OBVIOUS
    <3> HIDE DEF IInv, TypeOK
    <3> QED
      BY <3>1, <3>2, RegType
  <2>3. pc' \in PCs
    BY <1>12 DEF MainSkip
  <2> QED
    BY <1>12, <2>1, <2>2, <2>3 DEF MainSkip
<1>13. CASE MainUpdate
  <2>1. \A ch \in HopChannels : SetChannelOps(ch) \in Seq(Ops)
    BY OpsType, ChannelAssumption
  <2>2. todo' \in [{"main", "usb"} -> Seq(Ops)]
    BY <1>13, <2>1 DEF MainUpdate
  <2>3. resets' \in 0 .. MaxResets
    BY SMTT(20), <1>13, ChannelAssumption DEF MainUpdate
  <2>4. next_channel_trigger' \in HopChannels \cup {-1}
    <3>1. UNCHANGED next_channel_trigger \/ next_channel_trigger' \in HopChannels
      BY <1>13 DEF MainUpdate
    <3> QED
      BY <3>1
  <2> QED
    BY <1>13, <2>2, <2>3, <2>4 DEF MainUpdate
<1> QED
  BY <1>1, <1>2, <1>3, <1>4, <1>5, <1>6, <1>7, <1>8, <1>9, <1>10, <1>11, <1>12, <1>13

\* The interrupt only moves the write position forward.
LEMMA SgpioWindow == IInv /\ SgpioIsr => WindowInv'
<1> SUFFICES ASSUME IInv, SgpioIsr PROVE WindowInv'
  OBVIOUS
<1>1. sample_pos_write \in Nat /\ sample_pos_read \in Nat /\ buflen_to_read \in Nat
      /\ BLOCK \in Nat
  BY SizeAssumption DEF IInv, TypeOK
<1>2. ToNextLap(sample_pos_write) \in Nat
  BY <1>1, SizePositive DEF ToNextLap
<1>3. sample_pos_write' \in Nat /\ sample_pos_write' >= sample_pos_write
      /\ sample_pos_read' \in Nat /\ sample_pos_read' = sample_pos_read
  BY <1>1, <1>2 DEF SgpioIsr, IsrDrop, IsrSignal, IsrNoise, positions
<1>4. UNCHANGED <<pc, moved, idx_read, buflen_to_read>>
  BY DEF SgpioIsr, window
<1>5. /\ sample_pos_read < sample_pos_write => sample_pos_read < sample_pos_write'
      /\ sample_pos_read + buflen_to_read <= sample_pos_write =>
           sample_pos_read + buflen_to_read <= sample_pos_write'
  BY <1>1, <1>3
<1> QED
  BY <1>3, <1>4, <1>5 DEF IInv, WindowInv

\* A context that stores a position marks it as moved; its other accesses
\* leave the positions alone.
LEMMA ExecuteWindow ==
  ASSUME IInv, NEW ctx \in {"main", "usb"}, Execute(ctx)
  PROVE  WindowInv'
<1>1. UNCHANGED <<pc, idx_read, buflen_to_read>>
  BY DEF Execute, window
<1>2. moved' = TRUE \/ UNCHANGED <<sample_pos_read, sample_pos_write, moved>>
  BY DEF Execute, Load, StorePos, SetCurrent, Tune, SetTransferMode, InitConfig, positions
<1> QED
  BY <1>1, <1>2 DEF IInv, WindowInv

LEMMA UsbWindow == IInv /\ UsbIsr => WindowInv'
<1> SUFFICES ASSUME IInv, UsbIsr PROVE WindowInv'
  OBVIOUS
<1>1. ASSUME NEW request \in Requests, NEW ch \in Channels, UsbRequest(request, ch)
      PROVE  WindowInv'
  BY <1>1 DEF UsbRequest, IInv, WindowInv, positions, window
<1>2. ASSUME UsbFollowData PROVE WindowInv'
  BY <1>2 DEF UsbFollowData, IInv, WindowInv, positions, window
<1>3. ASSUME Execute("usb") PROVE WindowInv'
  BY <1>3, ExecuteWindow
<1> QED
  BY <1>1, <1>2, <1>3 DEF UsbIsr

\* The window main chooses ends before the ring and before the write position.
LEMMA IdxWriteWindow == IInv /\ MainIdxWrite /\ UNCHANGED positions => WindowInv'
<1> SUFFICES ASSUME IInv, MainIdxWrite, UNCHANGED positions PROVE WindowInv'
  OBVIOUS
<1> DEFINE S == SAMPLE_BUFFER_SIZE
           W == WriteIndex
           len == IF idx_read < W THEN W - idx_read ELSE S - idx_read
<1>1. /\ S \in Nat /\ W \in Slots /\ idx_read \in Slots
      /\ sample_pos_read \in Nat /\ sample_pos_write \in Nat
  BY SizePositive, LapAndOffset DEF IInv, TypeOK, WriteIndex
<1>2. buflen_to_read' = len
  BY DEF MainIdxWrite
<1>3. /\ pc = "idx_write" /\ pc' \in {"loop", "tag", "skip1"}
      /\ UNCHANGED <<idx_read, moved, sample_pos_read, sample_pos_write>>
  BY DEF MainIdxWrite, MainAt, positions
<1>4. len \in Nat /\ idx_read + len <= S
  BY <1>1 DEF Slots
<1>5. ASSUME ~moved PROVE sample_pos_read + len <= sample_pos_write
  <2>1. /\ sample_pos_read < sample_pos_write
        /\ idx_read = sample_pos_read % S
    BY <1>3, <1>5 DEF IInv, WindowInv
  <2>2. /\ idx_read < W => sample_pos_write - sample_pos_read >= W - idx_read
        /\ idx_read >= W => sample_pos_write - sample_pos_read >= S + W - idx_read
    BY <1>1, <2>1, Apart DEF WriteIndex
  <2> HIDE DEF W
  <2>3. len <= sample_pos_write - sample_pos_read
    BY <1>1, <2>2 DEF Slots
  <2> HIDE DEF len
  <2> QED
    BY <1>1, <1>4, <2>3
<1>6. ~moved => sample_pos_read < sample_pos_write /\ idx_read = sample_pos_read % S
  BY <1>3 DEF IInv, WindowInv
<1> HIDE DEF len
<1> QED
  BY <1>2, <1>3, <1>4, <1>5, <1>6 DEF WindowInv

LEMMA MainWindow == IInv /\ MainStep => WindowInv'
<1> SUFFICES ASSUME IInv, MainStep PROVE WindowInv'
  OBVIOUS
<1>0. sample_pos_write' = sample_pos_write
  BY DEF MainStep
<1>1. CASE MainLoop \/ MainSpin \/ MainHop \/ MainHopped
  <2>1. pc' \in {"spin", "hop", "hopped", "check"}
    BY <1>1 DEF MainLoop, MainSpin, MainHop, MainHopped
  <2> QED
    BY <2>1 DEF WindowInv
<1>2. CASE MainCheck
  <2>1. ~TooFew => sample_pos_read < sample_pos_write
    BY DEF TooFew, IInv, TypeOK
  <2>2. pc' \in {"loop", "idx_read"} /\ (pc' = "idx_read" => ~TooFew)
        /\ sample_pos_read' = sample_pos_read
    BY <1>2 DEF MainCheck
  <2> QED
    BY <1>0, <2>1, <2>2 DEF WindowInv
<1>3. CASE MainIdxRead
  <2>1. /\ pc = "idx_read" /\ pc' = "idx_write"
        /\ idx_read' = sample_pos_read % SAMPLE_BUFFER_SIZE
        /\ UNCHANGED <<moved, sample_pos_read>>
    BY <1>3 DEF MainIdxRead, MainAt
  <2> QED
    BY <1>0, <2>1 DEF IInv, WindowInv
<1>4. CASE MainIdxWrite
  <2>1. UNCHANGED positions
    BY <1>0, <1>4 DEF MainIdxWrite, positions
  <2> QED
    BY <1>4, <2>1, IdxWriteWindow
<1>5. CASE MainTag
  <2>1. /\ pc = "tag" /\ pc' = "demod"
        /\ UNCHANGED <<moved, sample_pos_read, idx_read, buflen_to_read>>
    BY <1>5 DEF MainTag, MainAt
  <2> QED
    BY <1>0, <2>1 DEF IInv, WindowInv
<1>6. CASE MainDemod \/ MainLoad \/ MainStore \/ MainSkip \/ MainUpdate
  <2>1. pc' \notin {"idx_read", "idx_write", "tag", "demod"}
    BY <1>6 DEF MainDemod, MainLoad, MainStore, MainSkip, MainUpdate
  <2> QED
    BY <2>1 DEF WindowInv
<1> QED
  BY <1>1, <1>2, <1>3, <1>4, <1>5, <1>6 DEF MainStep

LEMMA InitIInv == Init => IInv
BY InitType DEF IInv, Init, WindowInv

LEMMA NextIInv == IInv /\ [Next]_vars => IInv'
<1> SUFFICES ASSUME IInv, [Next]_vars PROVE IInv'
  OBVIOUS
<1>1. CASE SgpioIsr
  BY <1>1, SgpioType, SgpioWindow DEF IInv
<1>2. CASE UsbIsr
  BY <1>2, UsbType, UsbWindow DEF IInv
<1>3. CASE MainStep
  BY <1>3, MainType, MainWindow DEF IInv
<1>4. CASE Execute("main")
  BY <1>4, ExecuteType, ExecuteWindow DEF IInv
<1>5. CASE UNCHANGED vars
  BY <1>5 DEF IInv, TypeOK, WindowInv, vars, positions, config, window, result, contexts
<1> QED
  BY <1>1, <1>2, <1>3, <1>4, <1>5 DEF Next

\* In every execution, whatever requests arrive between whatever accesses, main
\* knows of its window what WindowInv says.
THEOREM Invariance == Spec => []IInv
<1> QED
  BY InitIInv, NextIInv, PTL DEF Spec

\* Every variable of the ring keeps its type: no position leaves the naturals,
\* no index leaves the ring.
THEOREM TypeCorrect == Spec => []TypeOK
<1>1. IInv => TypeOK
  BY DEF IInv
<1> QED
  BY Invariance, <1>1, PTL

\* The block an interrupt stores lies at least a block away from the window.
LEMMA StoreOutsideWindow ==
  ASSUME IInv, pc = "demod", ~moved, ~Full
  PROVE  WindowSlots \cap WriteSlots = {}
<1> DEFINE S == SAMPLE_BUFFER_SIZE
           r == sample_pos_read
           w == sample_pos_write
<1>1. S \in Nat /\ BLOCK \in Nat /\ r \in Nat /\ w \in Nat /\ buflen_to_read \in Nat
  BY SizeAssumption DEF IInv, TypeOK
<1>2. r < w /\ idx_read = r % S /\ buflen_to_read <= w - r
  BY <1>1 DEF IInv, WindowInv
<1>3. w - r < S - BLOCK
  BY <1>1 DEF Full
<1>4. idx_read \in Nat /\ WriteIndex \in Nat
  BY <1>1, <1>2, LapAndOffset DEF WriteIndex, Slots
<1>5. \A j, k \in Nat : idx_read + j = WriteIndex + k /\ j < w - r => w - r - j + k >= S
  BY <1>1, <1>2, Apart DEF WriteIndex
<1>6. ASSUME NEW i \in WindowSlots \cap WriteSlots PROVE FALSE
  <2>1. /\ i - idx_read \in Nat /\ i - idx_read < w - r
        /\ i - WriteIndex \in Nat /\ i - WriteIndex < BLOCK
    BY <1>1, <1>2, <1>4, <1>6 DEF WindowSlots, WriteSlots
  <2>2. w - r - (i - idx_read) + (i - WriteIndex) >= S
    BY <1>4, <1>5, <1>6, <2>1 DEF WindowSlots
  <2> QED
    BY <1>1, <1>3, <2>1, <2>2
<1> QED
  BY <1>6

\* The window main demodulates is not written to, for every size of the ring
\* and every interleaving of the three contexts.
THEOREM WindowIsKept == Spec => WindowKept
<1> DEFINE Kept == pc = "demod" /\ ~moved => \A i \in WindowSlots : mem'[i] = mem[i]
<1>1. IInv /\ [Next]_vars => [Kept]_vars
  <2> SUFFICES ASSUME IInv, [Next]_vars, pc = "demod", ~moved, NEW i \in WindowSlots
               PROVE  mem'[i] = mem[i]
    OBVIOUS
  <2>1. CASE SgpioIsr
    <3>1. CASE IsrDrop
      BY <3>1 DEF IsrDrop
    <3>2. CASE IsrSignal \/ IsrNoise
      <4>1. StoreBlock /\ ~Full
        BY <3>2 DEF IsrSignal, IsrNoise
      <4>2. i \notin WriteSlots
        BY <4>1, StoreOutsideWindow
      <4>3. i \in Slots
        BY SizePositive DEF IInv, TypeOK, WindowInv, WindowSlots, Slots
      <4> QED
        BY <4>1, <4>2, <4>3 DEF StoreBlock
    <3> QED
      BY <2>1, <3>1, <3>2 DEF SgpioIsr
  <2>2. CASE UsbIsr
    BY <2>2 DEF UsbIsr, UsbRequest, UsbFollowData, Execute
  <2>3. CASE MainStep \/ Execute("main")
    BY <2>3 DEF MainStep, Execute
  <2>4. CASE UNCHANGED vars
    BY <2>4 DEF vars
  <2> QED
    BY <2>1, <2>2, <2>3, <2>4 DEF Next
<1> QED
  BY Invariance, <1>1, PTL DEF Spec, WindowKept
-----------------------------------------------------------------------------
(* The start of a session.  The starting request resets the positions access *)
(* by access, while the interrupt is still off.                               *)

S == SAMPLE_BUFFER_SIZE
r == sample_pos_read
w == sample_pos_write

\* What a starting request executes, access by access.
Access(name) == [do |-> name]
Select(name) == [do |-> name, ch |-> CHANNEL_START]

FixedOps == << Select("current"),
               Access("loadW1"), Access("loadW2"), Access("storeW"),
               Access("loadR1"), Access("loadR2"), Access("storeR"),
               Select("current"), Select("tune"),
               Access("loadW1"), Access("loadW2"), Access("storeW"),
               Access("loadR1"), Access("loadR2"), Access("storeR"),
               Access("on") >>

FollowOps == << Access("loadW1"), Access("loadW2"), Access("storeW"),
                Access("loadR1"), Access("loadR2"), Access("storeR"),
                Access("on"), Access("retune") >>

Left(ops, k) == SubSeq(ops, k, Len(ops))

\* Between two accesses of reset_counter, the k-th being next: with the interrupt
\* off nothing tears it, and each position moves by a whole lap.
ResetAt(k) ==
  /\ k <= 3 => r = w
  /\ k >= 4 => w = r + S
  /\ k = 2 => reg["usb"].a = w
  /\ k = 3 => reg["usb"].a = w /\ reg["usb"].b = w
  /\ k = 5 => reg["usb"].a = r
  /\ k = 6 => reg["usb"].a = r /\ reg["usb"].b = r

FixedAt(k) == IF k \in 2 .. 7 THEN ResetAt(k - 1)
              ELSE IF k \in 10 .. 15 THEN ResetAt(k - 9) ELSE r = w

FollowAt(k) == IF k \in 1 .. 6 THEN ResetAt(k) ELSE r = w

StartingFixed == \E k \in 1 .. 16 : todo["usb"] = Left(FixedOps, k) /\ FixedAt(k)
StartingFollow == \E k \in 1 .. 7 : todo["usb"] = Left(FollowOps, k) /\ FollowAt(k)
-----------------------------------------------------------------------------
(* The inductive invariant, for the first session *)

Laps(p) == \E q \in Nat : p = S * q
InBlocks(p) == \E n \in Nat : p = BLOCK * n

\* No session yet: main waits, the interrupt is off, a request may be starting one.
Before ==
  /\ ~streaming /\ transceiver_mode = "OFF" /\ pc = "loop" /\ todo["main"] = <<>>
  /\ Laps(r)
  /\ resets = 0 => todo["usb"] = <<>> /\ ~follow_pending
  /\ \/ r = w /\ todo["usb"] \in {<<>>, <<Select("current")>>}
     \/ ~follow_pending /\ (StartingFixed \/ StartingFollow)

\* Every position between the two has been stored in this lap, or lies in the
\* tail the interrupt skips.
Fresh(p) == mem[p % S].pos = p \/ p % S > S - PACKET_SAMPLES_MAX
Stored == \A p \in r .. w - 1 : Fresh(p)

\* What main knows of its window until it has moved the read position: it lies
\* before the write position, and when it ends with the ring, so does the next skip.
Chosen ==
  /\ pc \in {"idx_read", "idx_write", "tag", "demod", "load", "store"} => ~moved
  /\ pc \in {"tag", "demod", "load", "store"} =>
       /\ idx_read = r % S /\ idx_read + buflen_to_read <= S /\ r + buflen_to_read <= w
       /\ idx_write <= idx_read => buflen_to_read = S - idx_read
  /\ pc \in {"load", "store"} =>
       bytesread <= buflen_to_read /\ (outcome = NotEnough => bytesread < buflen_to_read)
  /\ pc = "store" => reg["main"].a = r
  /\ pc \in {"skip1", "skip2", "skip3"} => r + ToNextLap(r) <= w
  /\ pc \in {"skip2", "skip3"} => reg["main"].a = r
  /\ pc = "skip3" => reg["main"].b = r

Session ==
  /\ resets >= 1 /\ ~follow_pending
  /\ todo["main"] = <<>> /\ todo["usb"] \in {<<>>, Left(FollowOps, 8)}
  /\ r <= w /\ w - r < S + PACKET_SAMPLES_MAX /\ InBlocks(w)
  /\ Stored /\ Chosen

FirstInv == resets <= 1 => Before \/ Session

FreshInv == IInv /\ FirstInv
-----------------------------------------------------------------------------
(* Positions and slots *)

USE DEF S, r, w

\* The offset of a position is unique.
LEMMA OffsetOf ==
  ASSUME NEW p \in Nat, NEW q \in Nat, NEW o \in Slots, p = S * q + o
  PROVE  p % S = o
<1> DEFINE R == p % S
<1>1. PICK m \in Nat : p = S * m + R
  BY LapAndOffset
<1>2. S \in Nat \ {0} /\ R \in Slots
  BY LapAndOffset, SizePositive
<1> DEFINE d == q - m
<1>3. d \in Int /\ S * d = R - o
  BY <1>1, <1>2 DEF Slots
<1>4. (d >= 1 => S * d >= S) /\ (d <= -1 => S * d <= -S) /\ (d = 0 => S * d = 0)
  BY <1>2, <1>3
<1> HIDE DEF d
<1> DEFINE Sd == S * d
<1>5. Sd = R - o /\ (d >= 1 => Sd >= S) /\ (d <= -1 => Sd <= -S) /\ (d = 0 => Sd = 0)
  BY <1>3, <1>4
<1> HIDE DEF Sd
<1>6. R \in 0 .. S - 1 /\ o \in 0 .. S - 1
  BY <1>2 DEF Slots
<1> HIDE DEF R
<1> QED
  BY <1>2, <1>3, <1>5, <1>6 DEF R

\* A position that is not beyond the lap is as far ahead in the ring.
LEMMA Ahead ==
  ASSUME NEW p \in Nat, NEW j \in Nat, (p % S) + j < S
  PROVE  (p + j) % S = (p % S) + j
<1>1. PICK q \in Nat : p = S * q + (p % S)
  BY LapAndOffset
<1>2. S \in Nat \ {0} /\ p % S \in Slots
  BY LapAndOffset, SizePositive
<1> DEFINE o == (p % S) + j
<1>3. o \in Slots /\ p + j = S * q + o /\ p + j \in Nat
  BY <1>1, <1>2 DEF Slots
<1> HIDE DEF o
<1>4. (p + j) % S = o
  BY <1>3, OffsetOf
<1> QED
  BY <1>4 DEF o

\* The next lap begins a lap.
LEMMA NextLap ==
  ASSUME NEW p \in Nat
  PROVE  /\ ToNextLap(p) \in 1 .. S /\ Laps(p + ToNextLap(p))
         /\ Laps(p) => ToNextLap(p) = S
<1>1. PICK q \in Nat : p = S * q + (p % S)
  BY LapAndOffset
<1>2. S \in Nat \ {0} /\ p % S \in 0 .. S - 1
  BY LapAndOffset, SizePositive DEF Slots
<1>3. ToNextLap(p) = S - (p % S)
  BY DEF ToNextLap
<1>4. ToNextLap(p) \in 1 .. S
  BY <1>2, <1>3
<1>5. p + ToNextLap(p) = S * (q + 1)
  BY <1>1, <1>2, <1>3
<1>6. Laps(p + ToNextLap(p))
  BY <1>5 DEF Laps
<1>7. ASSUME Laps(p) PROVE p % S = 0
  <2>1. PICK m \in Nat : p = S * m
    BY <1>7 DEF Laps
  <2>2. p = S * m + 0 /\ 0 \in Slots
    BY <1>2, <2>1 DEF Slots
  <2> QED
    BY <2>2, OffsetOf
<1> QED
  BY <1>2, <1>3, <1>4, <1>6, <1>7

\* The ring holds whole blocks.
LEMMA LapInBlocks ==
  ASSUME NEW p \in Nat, Laps(p)
  PROVE  InBlocks(p)
<1>1. BLOCK \in Nat \ {0} /\ S \in Nat /\ S % BLOCK = 0
  BY SizeAssumption
<1>2. PICK q \in Nat : p = S * q
  BY DEF Laps
<1>3. S \div BLOCK \in Nat /\ S = BLOCK * (S \div BLOCK)
  BY <1>1
<1> DEFINE m == S \div BLOCK
<1>4. m \in Nat /\ S = BLOCK * m
  BY <1>3
<1> HIDE DEF m
<1>5. p = BLOCK * (m * q) /\ m * q \in Nat
  BY <1>1, <1>2, <1>4
<1> QED
  BY <1>5 DEF InBlocks

\* A block that starts in the ring ends in it.
LEMMA BlockFits ==
  ASSUME NEW p \in Nat, InBlocks(p)
  PROVE  (p % S) + BLOCK <= S /\ InBlocks(p + BLOCK)
<1>1. BLOCK \in Nat \ {0} /\ S \in Nat /\ S % BLOCK = 0
  BY SizeAssumption
<1>2. PICK n \in Nat : p = BLOCK * n
  BY DEF InBlocks
<1>3. S \div BLOCK \in Nat /\ S = BLOCK * (S \div BLOCK)
  BY <1>1
<1> DEFINE m == S \div BLOCK
           R == p % S
<1>4. m \in Nat /\ S = BLOCK * m
  BY <1>3
<1> HIDE DEF m
<1>5. PICK q \in Nat : p = S * q + R
  BY LapAndOffset
<1>6. R \in 0 .. S - 1
  BY LapAndOffset DEF Slots
<1> HIDE DEF R
<1> DEFINE d == n - m * q
<1>7. d \in Int /\ R = BLOCK * d
  <2>1. m * q \in Nat
    BY <1>4
  <2>2. S * q = BLOCK * (m * q)
    BY <1>1, <1>4
  <2>3. BLOCK * (n - m * q) = BLOCK * n - BLOCK * (m * q)
    BY <1>1, <2>1
  <2> QED
    BY <1>1, <1>2, <1>5, <1>6, <2>1, <2>2, <2>3
<1> HIDE DEF d
<1>8. d < m
  <2> SUFFICES ASSUME d >= m PROVE FALSE
    BY <1>4, <1>7
  <2>1. BLOCK * d >= BLOCK * m
    BY <1>1, <1>4, <1>7
  <2> QED
    BY <1>4, <1>6, <1>7, <2>1
<1>9. BLOCK * (d + 1) <= BLOCK * m /\ BLOCK * (d + 1) = BLOCK * d + BLOCK
  <2>1. d + 1 <= m
    BY <1>4, <1>7, <1>8
  <2> QED
    BY <1>1, <1>4, <1>7, <2>1
<1>10. R + BLOCK <= S
  BY <1>1, <1>4, <1>7, <1>9
<1>11. p + BLOCK = BLOCK * (n + 1)
  BY <1>1, <1>2
<1> QED
  BY <1>10, <1>11 DEF R, InBlocks
-----------------------------------------------------------------------------
(* What is left of a starting request *)

\* The pieces a starting request is put together from.
LEMMA FixedPieces ==
  ASSUME NEW c, NEW t, NEW o, NEW a1, NEW a2, NEW a3, NEW a4, NEW a5, NEW a6,
         {c, t, o, a1, a2, a3, a4, a5, a6} \subseteq Ops
  PROVE  (<<c>> \o ((<<a1, a2, a3, a4, a5, a6>> \o <<c, t>>) \o <<a1, a2, a3, a4, a5, a6>>))
           \o <<o>> = <<c, a1, a2, a3, a4, a5, a6, c, t, a1, a2, a3, a4, a5, a6, o>>
<1> DEFINE all == (<<c>> \o ((<<a1, a2, a3, a4, a5, a6>> \o <<c, t>>)
                               \o <<a1, a2, a3, a4, a5, a6>>)) \o <<o>>
           ops == <<c, a1, a2, a3, a4, a5, a6, c, t, a1, a2, a3, a4, a5, a6, o>>
<1>1. Len(all) = Len(ops) /\ \A i \in 1 .. Len(all) : all[i] = ops[i]
  OBVIOUS
<1>2. all \in Seq(Ops) /\ ops \in Seq(Ops)
  OBVIOUS
<1> HIDE DEF all, ops
<1>3. all = ops
  BY <1>1, <1>2, SeqEqual
<1> QED
  BY <1>3 DEF all, ops

LEMMA FollowPieces ==
  ASSUME NEW t, NEW o, NEW a1, NEW a2, NEW a3, NEW a4, NEW a5, NEW a6,
         {t, o, a1, a2, a3, a4, a5, a6} \subseteq Ops
  PROVE  <<a1, a2, a3, a4, a5, a6>> \o <<o, t>> = <<a1, a2, a3, a4, a5, a6, o, t>>
<1> DEFINE all == <<a1, a2, a3, a4, a5, a6>> \o <<o, t>>
           ops == <<a1, a2, a3, a4, a5, a6, o, t>>
<1>1. Len(all) = Len(ops) /\ \A i \in 1 .. Len(all) : all[i] = ops[i]
  OBVIOUS
<1>2. all \in Seq(Ops) /\ ops \in Seq(Ops)
  OBVIOUS
<1> HIDE DEF all, ops
<1>3. all = ops
  BY <1>1, <1>2, SeqEqual
<1> QED
  BY <1>3 DEF all, ops

LEMMA OpsAre ==
  /\ FixedOps \in Seq(Ops) /\ Len(FixedOps) = 16
  /\ FollowOps \in Seq(Ops) /\ Len(FollowOps) = 8
  /\ \A ch : RequestOps("start_fixed", ch) = FixedOps
  /\ RequestOps("follow_data", CHANNEL_START) = FollowOps
  /\ \A ch : RequestOps("start_follow", ch) = <<Select("current")>>
<1> HIDE DEF S, r, w
<1>1. {Access("loadW1"), Access("loadW2"), Access("storeW"), Access("loadR1"),
       Access("loadR2"), Access("storeR"), Access("on"), Access("retune"),
       Select("current"), Select("tune")} \subseteq Ops
  BY ChannelAssumption DEF Access, Select, Ops
<1>2. FixedOps \in Seq(Ops) /\ Len(FixedOps) = 16
  BY <1>1 DEF FixedOps
<1>3. FollowOps \in Seq(Ops) /\ Len(FollowOps) = 8
  BY <1>1 DEF FollowOps
<1>4. \A ch : RequestOps("start_fixed", ch) = FixedOps
  <2>1. \A ch : RequestOps("start_fixed", ch) =
          (<<Select("current")>>
             \o ((<<Access("loadW1"), Access("loadW2"), Access("storeW"),
                    Access("loadR1"), Access("loadR2"), Access("storeR")>>
                    \o <<Select("current"), Select("tune")>>)
                   \o <<Access("loadW1"), Access("loadW2"), Access("storeW"),
                        Access("loadR1"), Access("loadR2"), Access("storeR")>>))
            \o <<Access("on")>>
    BY DEF RequestOps, SetChannelOps, ResetCounterOps, Access, Select
  <2> QED
    BY <1>1, <2>1, FixedPieces DEF FixedOps
<1>5. RequestOps("follow_data", CHANNEL_START) = FollowOps
  <2>1. RequestOps("follow_data", CHANNEL_START) =
          <<Access("loadW1"), Access("loadW2"), Access("storeW"),
            Access("loadR1"), Access("loadR2"), Access("storeR")>>
            \o <<Access("on"), Access("retune")>>
    BY DEF RequestOps, ResetCounterOps, Access, Select
  <2> QED
    BY <1>1, <2>1, FollowPieces DEF FollowOps
<1>6. \A ch : RequestOps("start_follow", ch) = <<Select("current")>>
  BY DEF RequestOps, Select
<1> QED
  BY <1>2, <1>3, <1>4, <1>5, <1>6

LEMMA LeftStep ==
  ASSUME NEW ops \in Seq(Ops), NEW k \in 1 .. Len(ops)
  PROVE  /\ Left(ops, k) # <<>> /\ Head(Left(ops, k)) = ops[k]
         /\ Tail(Left(ops, k)) = Left(ops, k + 1)
<1>1. k \in Int /\ Len(ops) \in Nat /\ k <= Len(ops)
  OBVIOUS
<1>2. Head(Left(ops, k)) = ops[k] /\ Tail(Left(ops, k)) = Left(ops, k + 1)
  BY <1>1, HeadTailOfSubSeq DEF Left
<1>3. Len(Left(ops, k)) = Len(ops) - k + 1
  <2>1. \A i \in k .. Len(ops) : ops[i] \in Ops
    OBVIOUS
  <2> QED
    BY <1>1, <2>1, SubSeqProperties DEF Left
<1>4. Left(ops, k) # <<>>
  <2>1. Len(Left(ops, k)) # 0
    BY <1>1, <1>3
  <2> QED
    BY <2>1, EmptySeq
<1> QED
  BY <1>2, <1>4

LEMMA LeftAll ==
  ASSUME NEW ops \in Seq(Ops)
  PROVE  Left(ops, 1) = ops /\ Left(ops, Len(ops) + 1) = <<>>
  BY SubSeqFull, SubSeqEmpty DEF Left
-----------------------------------------------------------------------------
(* The interrupt *)

LEMMA Typed ==
  ASSUME TypeOK
  PROVE  /\ S \in Nat \ {0} /\ BLOCK \in Nat \ {0} /\ r \in Nat /\ w \in Nat
         /\ PACKET_SAMPLES_MIN \in Nat /\ PACKET_SAMPLES_MAX \in Nat
         /\ PACKET_SAMPLES_MAX + BLOCK < S
         /\ idx_read \in Slots /\ buflen_to_read \in Nat /\ bytesread \in Nat
         /\ todo \in [{"main", "usb"} -> Seq(Ops)]
         /\ reg \in [{"main", "usb"} -> [a : Nat, b : Nat]]
         /\ mem \in [Slots -> [pos : Nat \cup {-1}, ch : Channels \cup {-1}]]
         /\ resets \in Nat
<1>1. resets \in Nat
  BY ChannelAssumption DEF TypeOK
<1> QED
  BY <1>1, SizeAssumption, SizePositive DEF TypeOK

\* What has been stored and not been read is not written to.
LEMMA StoreOutsideStored ==
  ASSUME TypeOK, ~Full, NEW p \in r .. w - 1
  PROVE  p % S \notin WriteSlots
<1>1. /\ S \in Nat \ {0} /\ BLOCK \in Nat \ {0} /\ r \in Nat /\ w \in Nat
  BY Typed
<1>2. p \in Nat /\ p < w /\ w - p < S - BLOCK
  BY <1>1 DEF Full
<1>3. \A j, k \in Nat : (p % S) + j = (w % S) + k /\ j < w - p => w - p - j + k >= S
  BY <1>1, <1>2, Apart
<1>4. p % S \in Nat /\ w % S \in Nat
  BY <1>1, <1>2, LapAndOffset DEF Slots
<1> SUFFICES ASSUME p % S \in WriteSlots PROVE FALSE
  OBVIOUS
<1> DEFINE k == (p % S) - (w % S)
<1>5. k \in Nat /\ k < BLOCK /\ (p % S) + 0 = (w % S) + k
  BY <1>1, <1>4 DEF WriteSlots, WriteIndex
<1> HIDE DEF k
<1>6. w - p - 0 + k >= S
  <2>1. 0 \in Nat /\ 0 < w - p
    BY <1>1, <1>2
  <2> QED
    BY <1>3, <1>5, <2>1, Zenon
<1> QED
  BY <1>1, <1>2, <1>5, <1>6

\* A block is stored where its positions lie.
LEMMA BlockStored ==
  ASSUME TypeOK, InBlocks(w), StoreBlock, NEW p \in w .. (w + BLOCK) - 1
  PROVE  mem'[p % S].pos = p
<1>1. /\ S \in Nat \ {0} /\ BLOCK \in Nat \ {0} /\ w \in Nat
  BY Typed
<1> DEFINE k == p - w
<1>2. k \in Nat /\ k < BLOCK /\ p = w + k
  BY <1>1
<1> HIDE DEF k
<1>3. (w % S) + BLOCK <= S /\ w % S \in Slots
  BY <1>1, BlockFits, LapAndOffset
<1> DEFINE W == w % S
<1>4. W + BLOCK <= S /\ W \in 0 .. S - 1
  BY <1>3 DEF Slots
<1>5. p % S = W + k
  <2>1. W + k < S
    <3> HIDE DEF W
    <3> QED
      BY <1>1, <1>2, <1>4
  <2> QED
    BY <1>1, <1>2, <2>1, Ahead
<1> DEFINE o == W + k
<1>6. WriteIndex = W
  BY DEF WriteIndex
<1> HIDE DEF W
<1>7. o \in Slots /\ o \in WriteSlots /\ w + (o - WriteIndex) = p
  BY <1>1, <1>2, <1>4, <1>6 DEF Slots, WriteSlots
<1> HIDE DEF o
<1>8. mem'[o] = [pos |-> w + (o - WriteIndex), ch |-> tuned]
  BY <1>7 DEF StoreBlock
<1> QED
  BY <1>5, <1>7, <1>8 DEF o

\* The positions a skip leaves out lie in the tail of the ring.
LEMMA SkippedTail ==
  ASSUME TypeOK, S - WriteIndex < PACKET_SAMPLES_MAX,
         NEW p \in w .. (w + ToNextLap(w)) - 1
  PROVE  p % S > S - PACKET_SAMPLES_MAX
<1>1. /\ S \in Nat \ {0} /\ w \in Nat /\ PACKET_SAMPLES_MAX \in Nat
  BY Typed
<1> DEFINE W == w % S
<1>2. W \in 0 .. S - 1 /\ ToNextLap(w) = S - W /\ WriteIndex = W
  BY <1>1, LapAndOffset DEF Slots, ToNextLap, WriteIndex
<1> DEFINE k == p - w
<1>3. k \in Nat /\ W + k < S /\ p = w + k
  <2> HIDE DEF W
  <2> QED
    BY <1>1, <1>2
<1> HIDE DEF k
<1>4. p % S = W + k
  BY <1>1, <1>3, Ahead
<1> HIDE DEF W
<1> QED
  BY <1>1, <1>2, <1>3, <1>4

\* A session goes on when the write position moves by what has been stored or skipped.
LEMMA WriteMoves ==
  ASSUME TypeOK, Session, ~Full, StoreBlock, NEW v \in Nat, w' = v, v >= w,
         InBlocks(v), v - r < S + PACKET_SAMPLES_MAX,
         \A q \in w .. v - 1 : Fresh(q)',
         UNCHANGED <<r, contexts, follow_pending, resets, pc, window, result, moved>>
  PROVE  Session'
<1>1. /\ S \in Nat \ {0} /\ r \in Nat /\ w \in Nat /\ v \in Nat /\ r' = r /\ w' = v
      /\ PACKET_SAMPLES_MAX \in Nat /\ buflen_to_read \in Nat
  BY Typed DEF TypeOK
<1>2. Stored'
  <2> SUFFICES ASSUME NEW p \in r .. v - 1 PROVE Fresh(p)'
    BY <1>1 DEF Stored
  <2>1. CASE p \in w .. v - 1
    BY <2>1
  <2>2. CASE p \notin w .. v - 1
    <3>1. p \in r .. w - 1 /\ p \in Nat
      <4>1. p \in Int /\ r <= p /\ p <= v - 1
        BY <1>1
      <4>2. ~(w <= p)
        BY <1>1, <2>2, <4>1
      <4> QED
        BY <1>1, <4>1, <4>2
    <3>2. p % S \notin WriteSlots
      BY <3>1, StoreOutsideStored
    <3>3. p % S \in Slots
      BY <3>1, LapAndOffset
    <3>4. mem'[p % S] = mem[p % S]
      BY <3>2, <3>3 DEF StoreBlock
    <3>5. Fresh(p)
      BY <3>1 DEF Session, Stored
    <3> QED
      BY <3>4, <3>5 DEF Fresh
  <2> QED
    BY <2>1, <2>2
<1>3. Chosen'
  <2>1. UNCHANGED <<pc, moved, idx_read, idx_write, buflen_to_read, bytesread, outcome, reg>>
    BY DEF window, result, contexts
  <2>2. ToNextLap(r)' = ToNextLap(r) /\ ToNextLap(r) \in Nat
    BY <1>1, NextLap DEF ToNextLap
  <2>3. /\ r + buflen_to_read <= w => r' + buflen_to_read' <= v
        /\ r + ToNextLap(r) <= w => r' + ToNextLap(r)' <= v
        /\ (r % S)' = r % S
    BY <1>1, <2>1, <2>2
  <2>4. Chosen
    BY DEF Session
  <2> QED
    BY <1>1, <2>1, <2>3, <2>4 DEF Chosen
<1>4. r' <= w' /\ w' - r' < S + PACKET_SAMPLES_MAX
  BY <1>1 DEF Session
<1> QED
  BY <1>1, <1>2, <1>3, <1>4 DEF Session, contexts, InBlocks

\* A session goes on when the read position moves, at most to the write position.
LEMMA ReadMoves ==
  ASSUME TypeOK, Session, Chosen', NEW v \in Nat, r' = v, v >= r, v <= w,
         UNCHANGED <<w, mem, todo, follow_pending, resets>>
  PROVE  Session'
<1>1. /\ S \in Nat \ {0} /\ r \in Nat /\ w \in Nat /\ PACKET_SAMPLES_MAX \in Nat
      /\ r' = v /\ w' = w
  BY Typed
<1>2. Stored'
  <2>1. \A p \in v .. w - 1 : p \in r .. w - 1
    BY <1>1
  <2>2. \A p : Fresh(p) => Fresh(p)'
    BY DEF Fresh
  <2> QED
    BY <1>1, <2>1, <2>2 DEF Session, Stored
<1>3. r' <= w' /\ w' - r' < S + PACKET_SAMPLES_MAX
  BY <1>1 DEF Session
<1> QED
  BY <1>1, <1>2, <1>3 DEF Session, InBlocks

LEMMA SgpioFirst == FreshInv /\ SgpioIsr => FirstInv'
<1> SUFFICES ASSUME FreshInv, SgpioIsr, resets' <= 1 PROVE Session'
  BY DEF FirstInv
<1>1. TypeOK /\ TypeOK' /\ UNCHANGED resets
  BY SgpioType DEF FreshInv, IInv, SgpioIsr
<1>2. Session
  BY <1>1 DEF FreshInv, FirstInv, Before, SgpioIsr, IsrDrop, IsrSignal, IsrNoise
<1>3. /\ S \in Nat \ {0} /\ BLOCK \in Nat \ {0} /\ r \in Nat /\ w \in Nat
      /\ PACKET_SAMPLES_MAX \in Nat
  BY <1>1, Typed
<1>4. UNCHANGED <<r, contexts, follow_pending, resets, pc, window, result, moved>>
  BY DEF SgpioIsr, IsrDrop, IsrSignal, IsrNoise, positions, config
<1>5. InBlocks(w) /\ InBlocks(w + BLOCK) /\ InBlocks(w + ToNextLap(w))
      /\ ToNextLap(w) \in 1 .. S /\ w + ToNextLap(w) \in Nat
  <2>1. InBlocks(w) /\ InBlocks(w + BLOCK)
    BY <1>2, <1>3, BlockFits DEF Session
  <2>2. Laps(w + ToNextLap(w)) /\ ToNextLap(w) \in 1 .. S
    BY <1>3, NextLap
  <2>3. w + ToNextLap(w) \in Nat
    BY <1>3, <2>2
  <2> QED
    BY <2>1, <2>2, <2>3, LapInBlocks
<1>6. CASE IsrDrop
  <2>1. UNCHANGED <<r, w, mem>>
    BY <1>6 DEF IsrDrop, positions
  <2>2. Chosen'
    <3>1. Chosen
      BY <1>2 DEF Session
    <3> QED
      BY <1>4, <2>1, <3>1 DEF Chosen, ToNextLap, contexts, window, result
  <2>3. w >= r /\ r' = r
    BY <1>2, <1>3, <2>1 DEF Session
  <2> QED
    BY <1>1, <1>2, <1>3, <1>4, <2>1, <2>2, <2>3, ReadMoves DEF contexts
<1>7. CASE IsrSignal
  <2> DEFINE v == w + BLOCK
  <2>1. ~Full /\ StoreBlock /\ w' = v
    BY <1>7 DEF IsrSignal
  <2>2. v \in Nat /\ v - r < S + PACKET_SAMPLES_MAX /\ v >= w
    BY <1>3, <2>1 DEF Full
  <2>3. \A p \in w .. v - 1 : Fresh(p)'
    <3>1. \A p \in w .. v - 1 : mem'[p % S].pos = p
      <4>1. TypeOK /\ InBlocks(w) /\ StoreBlock
        BY <1>1, <1>5, <2>1
      <4> QED
        BY <4>1, BlockStored, Zenon
    <3> HIDE DEF v
    <3> QED
      BY <3>1 DEF Fresh
  <2>4. InBlocks(v)
    BY <1>5
  <2> HIDE DEF v
  <2> QED
    BY <1>1, <1>2, <1>4, <2>1, <2>2, <2>3, <2>4, WriteMoves
<1>8. CASE IsrNoise
  <2>1. ~Full /\ StoreBlock
    BY <1>8 DEF IsrNoise
  <2>2. CASE S - WriteIndex < PACKET_SAMPLES_MAX
    <3> DEFINE v == w + ToNextLap(w)
    <3>1. w' = v
      BY <1>8, <2>2 DEF IsrNoise
    <3>2. v >= w /\ v \in Nat /\ InBlocks(v)
      BY <1>3, <1>5
    <3>3. v - r < S + PACKET_SAMPLES_MAX
      <4>1. ToNextLap(w) = S - WriteIndex
        BY DEF ToNextLap, WriteIndex
      <4>2. w - r < S - BLOCK
        BY <1>3, <2>1 DEF Full
      <4> QED
        BY <1>3, <1>5, <2>2, <4>1, <4>2
    <3>4. \A p \in w .. v - 1 : Fresh(p)'
      <4>1. \A p \in w .. v - 1 : p % S > S - PACKET_SAMPLES_MAX
        BY <1>1, <2>2, SkippedTail, Zenon
      <4> HIDE DEF v
      <4> QED
        BY <4>1 DEF Fresh
    <3> HIDE DEF v
    <3> QED
      BY <1>1, <1>2, <1>4, <2>1, <3>1, <3>2, <3>3, <3>4, WriteMoves
  <2>3. CASE ~(S - WriteIndex < PACKET_SAMPLES_MAX)
    <3>1. w' = w
      BY <1>8, <2>3 DEF IsrNoise
    <3>2. w >= w /\ w - r < S + PACKET_SAMPLES_MAX /\ w .. w - 1 = {}
      BY <1>2, <1>3 DEF Session
    <3> QED
      BY <1>1, <1>2, <1>3, <1>4, <1>5, <2>1, <3>1, <3>2, WriteMoves
  <2> QED
    BY <2>2, <2>3
<1> QED
  BY <1>6, <1>7, <1>8 DEF SgpioIsr
-----------------------------------------------------------------------------
(* The request that starts a session *)

\* What one access of a request does.
Effect(op) == \/ Load("usb", op) \/ StorePos("usb", op) \/ SetCurrent(op) \/ Tune(op)
              \/ SetTransferMode(op) \/ InitConfig(op)

LEMMA EffectIs ==
  ASSUME TypeOK, NEW op, Effect(op)
  PROVE  /\ op.do = "loadW1" => UNCHANGED <<r, w>> /\ reg' = [reg EXCEPT !["usb"].a = w]
         /\ op.do = "loadW2" => UNCHANGED <<r, w>> /\ reg' = [reg EXCEPT !["usb"].b = w]
         /\ op.do = "loadR1" => UNCHANGED <<r, w>> /\ reg' = [reg EXCEPT !["usb"].a = r]
         /\ op.do = "loadR2" => UNCHANGED <<r, w>> /\ reg' = [reg EXCEPT !["usb"].b = r]
         /\ op.do = "storeW" =>
              UNCHANGED <<r, reg>> /\ w' \in SkipValues(reg["usb"])
         /\ op.do = "storeR" =>
              UNCHANGED <<w, reg>> /\ r' \in SkipValues(reg["usb"])
         /\ op.do \in {"current", "tune", "retune", "on"} => UNCHANGED <<r, w>>
         /\ op.do # "on" /\ op.do # "off" => UNCHANGED <<streaming, transceiver_mode>>
         /\ UNCHANGED follow_pending
<1>1. CASE Load("usb", op)
  BY <1>1 DEF Load, positions, config
<1>2. CASE StorePos("usb", op)
  BY <1>2 DEF StorePos, config
<1>3. CASE SetCurrent(op) \/ Tune(op) \/ SetTransferMode(op) \/ InitConfig(op)
  BY <1>3 DEF SetCurrent, Tune, SetTransferMode, InitConfig, positions
<1> QED
  BY <1>1, <1>2, <1>3 DEF Effect

\* The accesses of reset_counter, in the order they are executed.
ResetName(k) == <<"loadW1", "loadW2", "storeW", "loadR1", "loadR2", "storeR">>[k]

\* A skip from the start of a lap, undisturbed, moves a position by one lap.
LEMMA WholeLap ==
  ASSUME TypeOK, NEW p \in Nat, Laps(p), reg["usb"].a = p, reg["usb"].b = p
  PROVE  SkipValues(reg["usb"]) = {p + S} /\ Laps(p + S)
<1>1. ToNextLap(p) = S /\ Laps(p + ToNextLap(p))
  BY NextLap
<1> QED
  BY <1>1 DEF SkipValues

LEMMA ResetStep ==
  ASSUME TypeOK, NEW k \in 1 .. 6, ResetAt(k), Laps(r), NEW op, op.do = ResetName(k),
         Effect(op)
  PROVE  Laps(r') /\ (k < 6 => ResetAt(k + 1)') /\ (k = 6 => r' = w')
<1>1. r \in Nat /\ w \in Nat /\ S \in Nat
      /\ reg \in [{"main", "usb"} -> [a : Nat, b : Nat]]
  BY Typed
<1>2. CASE k = 1
  <2>1. op.do = "loadW1" /\ r = w
    BY <1>2 DEF ResetName, ResetAt
  <2>2. UNCHANGED <<r, w>> /\ reg' = [reg EXCEPT !["usb"].a = w]
    BY <2>1, EffectIs
  <2>3. ResetAt(2)'
    BY <1>1, <2>1, <2>2 DEF ResetAt
  <2> QED
    BY <1>2, <2>2, <2>3
<1>3. CASE k = 2
  <2>1. op.do = "loadW2" /\ r = w /\ reg["usb"].a = w
    BY <1>3 DEF ResetName, ResetAt
  <2>2. UNCHANGED <<r, w>> /\ reg' = [reg EXCEPT !["usb"].b = w]
    BY <2>1, EffectIs
  <2>3. ResetAt(3)'
    BY <1>1, <2>1, <2>2 DEF ResetAt
  <2> QED
    BY <1>3, <2>2, <2>3
<1>4. CASE k = 3
  <2>1. op.do = "storeW" /\ r = w /\ reg["usb"].a = w /\ reg["usb"].b = w
    BY <1>4 DEF ResetName, ResetAt
  <2>2. r' = r /\ w' \in SkipValues(reg["usb"])
    BY <2>1, EffectIs
  <2>3. w' = r + S
    BY <1>1, <2>1, <2>2, WholeLap
  <2>4. ResetAt(4)'
    BY <1>1, <2>2, <2>3 DEF ResetAt
  <2> QED
    BY <1>4, <2>2, <2>4
<1>5. CASE k = 4
  <2>1. op.do = "loadR1" /\ w = r + S
    BY <1>5 DEF ResetName, ResetAt
  <2>2. UNCHANGED <<r, w>> /\ reg' = [reg EXCEPT !["usb"].a = r]
    BY <2>1, EffectIs
  <2>3. ResetAt(5)'
    BY <1>1, <2>1, <2>2 DEF ResetAt
  <2> QED
    BY <1>5, <2>2, <2>3
<1>6. CASE k = 5
  <2>1. op.do = "loadR2" /\ w = r + S /\ reg["usb"].a = r
    BY <1>6 DEF ResetName, ResetAt
  <2>2. UNCHANGED <<r, w>> /\ reg' = [reg EXCEPT !["usb"].b = r]
    BY <2>1, EffectIs
  <2>3. ResetAt(6)'
    BY <1>1, <2>1, <2>2 DEF ResetAt
  <2> QED
    BY <1>6, <2>2, <2>3
<1>7. CASE k = 6
  <2>1. op.do = "storeR" /\ w = r + S /\ reg["usb"].a = r /\ reg["usb"].b = r
    BY <1>7 DEF ResetName, ResetAt
  <2>2. w' = w /\ r' \in SkipValues(reg["usb"])
    BY <2>1, EffectIs
  <2>3. r' = r + S /\ Laps(r + S)
    BY <1>1, <2>1, <2>2, WholeLap
  <2> QED
    BY <1>7, <2>1, <2>2, <2>3
<1> QED
  BY <1>2, <1>3, <1>4, <1>5, <1>6, <1>7

\* The accesses of the two requests that start a session.
LEMMA FixedIs ==
  /\ \A k \in 2 .. 7 : FixedOps[k].do = ResetName(k - 1)
  /\ \A k \in 10 .. 15 : FixedOps[k].do = ResetName(k - 9)
  /\ FixedOps[1].do = "current" /\ FixedOps[8].do = "current"
  /\ FixedOps[9].do = "tune" /\ FixedOps[16].do = "on"
<1> HIDE DEF S, r, w
<1> QED
  BY DEF FixedOps, Access, Select, ResetName

LEMMA FollowIs ==
  /\ \A k \in 1 .. 6 : FollowOps[k].do = ResetName(k)
  /\ FollowOps[7].do = "on" /\ FollowOps[8].do = "retune"
<1> HIDE DEF S, r, w
<1> QED
  BY DEF FollowOps, Access, Select, ResetName

\* With the positions equal, at the start of a lap, a session can start.
LEMMA Starts ==
  ASSUME TypeOK', resets' >= 1, r' = w', Laps(r'), ~follow_pending', pc' = "loop",
         todo'["main"] = <<>>, todo'["usb"] \in {<<>>, Left(FollowOps, 8)}
  PROVE  Session'
<1>1. r' \in Nat /\ w' \in Nat /\ S \in Nat \ {0} /\ PACKET_SAMPLES_MAX \in Nat
  BY SizePositive, SizeAssumption DEF TypeOK
<1>2. Stored'
  <2>1. PICK v \in Nat : r' = v /\ w' = v
    BY <1>1
  <2>2. v .. v - 1 = {}
    OBVIOUS
  <2> QED
    BY <2>1, <2>2 DEF Stored
<1>3. Chosen'
  BY DEF Chosen
<1>4. InBlocks(w')
  BY <1>1, LapInBlocks
<1> QED
  BY <1>1, <1>2, <1>3, <1>4 DEF Session, InBlocks

\* Nothing of a session holds while one is being started.
LEMMA StartingTodo ==
  StartingFixed \/ StartingFollow => todo["usb"] # <<>>
<1>1. \A k \in 1 .. 16 : Left(FixedOps, k) # <<>>
  BY OpsAre, LeftStep
<1>2. \A k \in 1 .. 7 : Left(FollowOps, k) # <<>>
  <2>1. 1 .. 7 \subseteq 1 .. Len(FollowOps) /\ FollowOps \in Seq(Ops)
    BY OpsAre
  <2> QED
    BY <2>1, LeftStep
<1> QED
  BY <1>1, <1>2 DEF StartingFixed, StartingFollow

LEMMA FixedStep ==
  ASSUME TypeOK, TypeOK', Before, ~follow_pending, StartingFixed, Execute("usb")
  PROVE  Before' \/ Session'
<1>1. PICK k \in 1 .. 16 : todo["usb"] = Left(FixedOps, k) /\ FixedAt(k)
  BY DEF StartingFixed
<1> DEFINE op == FixedOps[k]
<1>2. Head(todo["usb"]) = op /\ Tail(todo["usb"]) = Left(FixedOps, k + 1)
      /\ todo["usb"] # <<>>
  <2>1. k \in 1 .. Len(FixedOps) /\ FixedOps \in Seq(Ops)
    BY OpsAre
  <2> QED
    BY <1>1, <2>1, LeftStep
<1>3. todo \in [{"main", "usb"} -> Seq(Ops)]
  BY Typed
<1>4. Effect(op)
  BY <1>2 DEF Execute, Effect
<1>5. todo'["usb"] = Left(FixedOps, k + 1) /\ todo'["main"] = <<>>
  BY <1>2, <1>3 DEF Execute, Before
<1>6. UNCHANGED <<pc, resets>> /\ resets >= 1 /\ follow_pending' = FALSE /\ pc = "loop"
  <2>1. resets # 0 /\ resets \in Nat
    BY <1>2, Typed DEF Before
  <2>2. UNCHANGED <<pc, resets>> /\ pc = "loop"
    BY DEF Execute, Before
  <2>3. follow_pending' = follow_pending
    BY <1>4, EffectIs
  <2> QED
    BY <2>1, <2>2, <2>3
<1> HIDE DEF op
<1>7. ASSUME k < 16, op.do # "on", op.do # "off", Laps(r'), FixedAt(k + 1)'
      PROVE  Before'
  <2>1. UNCHANGED <<streaming, transceiver_mode>>
    BY <1>4, <1>7, EffectIs
  <2>2. k + 1 \in 1 .. 16
    BY <1>7
  <2>3. StartingFixed'
    BY <1>5, <1>7, <2>2 DEF StartingFixed, Left, FixedOps, Access, Select
  <2>4. Laps(r)'
    BY <1>7 DEF Laps
  <2> QED
    BY <1>5, <1>6, <2>1, <2>3, <2>4 DEF Before
<1>8. CASE k \in 2 .. 7 \/ k \in 10 .. 15
  <2> DEFINE j == IF k \in 2 .. 7 THEN k - 1 ELSE k - 9
  <2>1. j \in 1 .. 6 /\ op.do = ResetName(j) /\ ResetAt(j)
    BY <1>1, <1>8, FixedIs DEF FixedAt, op
  <2>2. Laps(r)
    BY DEF Before
  <2> HIDE DEF j
  <2>3. Laps(r') /\ (j < 6 => ResetAt(j + 1)') /\ (j = 6 => r' = w')
    BY <1>4, <2>1, <2>2, ResetStep
  <2>4. op.do # "on" /\ op.do # "off"
    BY <2>1 DEF ResetName
  <2>5. FixedAt(k + 1)'
    <3>1. CASE j = 6
      <4>1. k = 7 \/ k = 15
        BY <1>8, <3>1 DEF j
      <4> QED
        BY <2>3, <3>1, <4>1 DEF FixedAt
    <3>2. CASE j < 6 /\ k \in 2 .. 7
      <4>1. k + 1 \in 2 .. 7 /\ (k + 1) - 1 = j + 1
        BY <3>2 DEF j
      <4> QED
        BY <2>3, <3>2, <4>1 DEF FixedAt
    <3>3. CASE j < 6 /\ k \in 10 .. 15
      <4>1. k + 1 \in 10 .. 15 /\ k + 1 \notin 2 .. 7 /\ (k + 1) - 9 = j + 1
        BY <3>3 DEF j
      <4> QED
        BY <2>3, <3>3, <4>1 DEF FixedAt
    <3> QED
      BY <1>8, <2>1, <3>1, <3>2, <3>3
  <2>6. k < 16
    BY <1>8
  <2> QED
    BY <1>7, <2>3, <2>4, <2>5, <2>6
<1>9. CASE k \in {1, 8, 9}
  <2>1. op.do \in {"current", "tune"}
    BY <1>9, FixedIs DEF op
  <2>2. UNCHANGED <<r, w>>
    BY <1>4, <2>1, EffectIs
  <2>3. r = w
    BY <1>1, <1>9 DEF FixedAt
  <2>4. FixedAt(k + 1)'
    <3>1. ResetAt(1)'
      BY <2>2, <2>3 DEF ResetAt
    <3>2. r' = w'
      BY <2>2, <2>3
    <3> QED
      BY <1>9, <3>1, <3>2 DEF FixedAt
  <2>5. Laps(r') /\ k < 16
    BY <1>9, <2>2 DEF Before
  <2> QED
    BY <1>7, <2>1, <2>4, <2>5
<1>10. CASE k = 16
  <2>1. op.do = "on" /\ r = w
    BY <1>1, <1>10, FixedIs DEF op, FixedAt
  <2>2. UNCHANGED <<r, w>>
    BY <1>4, <2>1, EffectIs
  <2>3. Laps(r') /\ r' = w'
    BY <2>1, <2>2 DEF Before
  <2>4. todo'["usb"] = <<>>
    BY <1>5, <1>10, OpsAre, LeftAll
  <2> QED
    BY <1>5, <1>6, <2>3, <2>4, Starts
<1> QED
  BY <1>8, <1>9, <1>10

LEMMA FollowStep ==
  ASSUME TypeOK, TypeOK', Before, ~follow_pending, StartingFollow, Execute("usb")
  PROVE  Before' \/ Session'
<1>1. PICK k \in 1 .. 7 : todo["usb"] = Left(FollowOps, k) /\ FollowAt(k)
  BY DEF StartingFollow
<1> DEFINE op == FollowOps[k]
<1>2. Head(todo["usb"]) = op /\ Tail(todo["usb"]) = Left(FollowOps, k + 1)
      /\ todo["usb"] # <<>>
  <2>1. k \in 1 .. Len(FollowOps) /\ FollowOps \in Seq(Ops)
    BY OpsAre
  <2> QED
    BY <1>1, <2>1, LeftStep
<1>3. todo \in [{"main", "usb"} -> Seq(Ops)]
  BY Typed
<1>4. Effect(op)
  BY <1>2 DEF Execute, Effect
<1>5. todo'["usb"] = Left(FollowOps, k + 1) /\ todo'["main"] = <<>>
  BY <1>2, <1>3 DEF Execute, Before
<1>6. UNCHANGED <<pc, resets>> /\ resets >= 1 /\ follow_pending' = FALSE /\ pc = "loop"
  <2>1. resets # 0 /\ resets \in Nat
    BY <1>2, Typed DEF Before
  <2>2. UNCHANGED <<pc, resets>> /\ pc = "loop"
    BY DEF Execute, Before
  <2>3. follow_pending' = follow_pending
    BY <1>4, EffectIs
  <2> QED
    BY <2>1, <2>2, <2>3
<1> HIDE DEF op
<1>7. CASE k \in 1 .. 6
  <2>1. op.do = ResetName(k) /\ ResetAt(k) /\ Laps(r)
    BY <1>1, <1>7, FollowIs DEF FollowAt, op, Before
  <2>2. Laps(r') /\ (k < 6 => ResetAt(k + 1)') /\ (k = 6 => r' = w')
    BY <1>4, <1>7, <2>1, ResetStep
  <2>3. UNCHANGED <<streaming, transceiver_mode>>
    BY <1>4, <1>7, <2>1, EffectIs DEF ResetName
  <2>4. k + 1 \in 1 .. 7 /\ FollowAt(k + 1)'
    BY <1>7, <2>2 DEF FollowAt
  <2>5. StartingFollow'
    BY <1>5, <2>4 DEF StartingFollow, Left, FollowOps, Access, Select
  <2>6. Laps(r)'
    BY <2>2 DEF Laps
  <2> QED
    BY <1>5, <1>6, <2>3, <2>5, <2>6 DEF Before
<1>8. CASE k = 7
  <2>1. op.do = "on" /\ r = w
    BY <1>1, <1>8, FollowIs DEF op, FollowAt
  <2>2. UNCHANGED <<r, w>>
    BY <1>4, <2>1, EffectIs
  <2>3. Laps(r') /\ r' = w'
    BY <2>1, <2>2 DEF Before
  <2>4. todo'["usb"] = Left(FollowOps, 8)
    BY <1>5, <1>8
  <2> QED
    BY <1>5, <1>6, <2>3, <2>4, Starts
<1> QED
  BY <1>7, <1>8

\* The address of the advertiser has been selected: the first step of a follow
\* request, before its DATA stage.
LEMMA CurrentStep ==
  ASSUME TypeOK, Before, todo["usb"] = <<Select("current")>>, r = w, Execute("usb")
  PROVE  Before'
<1>1. todo \in [{"main", "usb"} -> Seq(Ops)] /\ todo["usb"] # <<>>
  BY Typed
<1>2. Head(todo["usb"]) = Select("current") /\ Tail(todo["usb"]) = <<>>
  OBVIOUS
<1> DEFINE op == Select("current")
<1>3. Effect(op) /\ op.do = "current"
  BY <1>2 DEF Execute, Effect, Select
<1> HIDE DEF op
<1>4. UNCHANGED <<r, w, streaming, transceiver_mode, follow_pending>>
  BY <1>3, EffectIs
<1>5. UNCHANGED <<pc, resets>> /\ todo'["usb"] = <<>> /\ todo'["main"] = <<>>
  BY <1>1, <1>2 DEF Execute, Before
<1>6. resets # 0
  BY <1>1 DEF Before
<1>7. Laps(r)'
  BY <1>4 DEF Before, Laps
<1> QED
  BY <1>4, <1>5, <1>6, <1>7 DEF Before

\* In a session, what a follow request has left to do is to tune the radio.
LEMMA TuneStep ==
  ASSUME TypeOK, Session, Execute("usb")
  PROVE  Session'
<1>1. todo \in [{"main", "usb"} -> Seq(Ops)] /\ todo["usb"] # <<>>
  BY Typed DEF Execute
<1>2. 8 \in 1 .. Len(FollowOps) /\ FollowOps \in Seq(Ops) /\ Len(FollowOps) = 8
  BY OpsAre
<1>3. todo["usb"] = Left(FollowOps, 8)
  BY <1>1 DEF Session
<1> DEFINE op == FollowOps[8]
<1>4. Head(todo["usb"]) = op /\ Tail(todo["usb"]) = Left(FollowOps, 8 + 1)
  BY <1>2, <1>3, LeftStep
<1>5. Left(FollowOps, 8 + 1) = <<>>
  BY <1>2, LeftAll
<1>6. op.do = "retune"
  BY FollowIs
<1> HIDE DEF op
<1>7. Tune(op)
  BY <1>4, <1>6 DEF Execute, Load, StorePos, SetCurrent, SetTransferMode, InitConfig
<1>8. UNCHANGED <<r, w, follow_pending, reg, moved>>
  BY <1>7 DEF Tune, positions
<1>9. UNCHANGED <<pc, resets, mem, idx_read, idx_write, buflen_to_read, bytesread, outcome>>
      /\ todo'["usb"] = <<>> /\ todo'["main"] = <<>>
  BY <1>1, <1>4, <1>5 DEF Execute, Session, window, result
<1>10. Chosen'
  <2>1. Chosen
    BY DEF Session
  <2> QED
    BY <1>8, <1>9, <2>1 DEF Chosen, ToNextLap
<1>11. Stored'
  <2>1. Stored
    BY DEF Session
  <2>2. \A p : Fresh(p) => Fresh(p)'
    BY <1>9 DEF Fresh
  <2> QED
    BY <1>8, <2>1, <2>2 DEF Stored
<1> QED
  BY <1>8, <1>9, <1>10, <1>11 DEF Session, InBlocks

LEMMA UsbFirst == FreshInv /\ UsbIsr => FirstInv'
<1> SUFFICES ASSUME FreshInv, UsbIsr, resets' <= 1 PROVE Before' \/ Session'
  BY DEF FirstInv
<1>1. TypeOK /\ TypeOK'
  BY UsbType DEF FreshInv, IInv
<1>2. resets \in Nat /\ todo \in [{"main", "usb"} -> Seq(Ops)]
  BY <1>1, Typed
<1>3. ASSUME NEW request \in Requests, NEW ch \in Channels, UsbRequest(request, ch)
      PROVE  Before'
  <2>1. resets = 0 /\ resets' = 1 /\ todo["usb"] = <<>>
    BY <1>2, <1>3 DEF UsbRequest
  <2>2. Before
    BY <1>2, <2>1 DEF FreshInv, FirstInv, Session
  <2>3. r = w
    BY <2>1, <2>2, StartingTodo DEF Before
  <2>4. request = "start_fixed" \/ request = "start_follow"
    BY <1>3, <2>2, ChannelAssumption DEF UsbRequest, Legal, Before
  <2>5. /\ UNCHANGED <<r, w, streaming, transceiver_mode, pc>>
        /\ follow_pending' = (request = "start_follow")
        /\ todo'["usb"] = RequestOps(request, ch) /\ todo'["main"] = <<>>
    BY <1>2, <1>3, <2>2 DEF UsbRequest, positions, Before
  <2>6. Laps(r)'
    BY <2>2, <2>5 DEF Before, Laps
  <2>7. CASE request = "start_fixed"
    <3>1. todo'["usb"] = Left(FixedOps, 1)
      BY <2>5, <2>7, OpsAre, LeftAll
    <3>2. FixedAt(1)'
      BY <2>3, <2>5 DEF FixedAt
    <3>3. StartingFixed'
      BY <3>1, <3>2 DEF StartingFixed, Left, FixedOps, Access, Select
    <3>4. ~follow_pending'
      BY <2>5, <2>7
    <3>5. (~streaming /\ transceiver_mode = "OFF" /\ pc = "loop")'
      BY <2>2, <2>5 DEF Before
    <3> QED
      BY <2>1, <2>5, <2>6, <3>3, <3>4, <3>5 DEF Before
  <2>8. CASE request = "start_follow"
    <3>1. todo'["usb"] = <<Select("current")>>
      BY <2>5, <2>8, OpsAre
    <3> QED
      BY <2>1, <2>2, <2>3, <2>5, <2>6, <3>1 DEF Before, Select
  <2> QED
    BY <2>4, <2>7, <2>8
<1>4. ASSUME UsbFollowData PROVE Before'
  <2>1. resets' = resets /\ todo["usb"] = <<>> /\ follow_pending
    BY <1>4 DEF UsbFollowData
  <2>2. Before
    BY <2>1 DEF FreshInv, FirstInv, Session
  <2>3. r = w /\ resets # 0
    BY <2>1, <2>2 DEF Before
  <2>4. /\ UNCHANGED <<r, w, streaming, transceiver_mode, pc>> /\ follow_pending' = FALSE
        /\ todo'["usb"] = RequestOps("follow_data", CHANNEL_START) /\ todo'["main"] = <<>>
    BY <1>2, <1>4, <2>2 DEF UsbFollowData, positions, Before
  <2>5. todo'["usb"] = Left(FollowOps, 1)
    BY <2>4, OpsAre, LeftAll
  <2>6. FollowAt(1)'
    BY <2>3, <2>4 DEF FollowAt, ResetAt
  <2>7. StartingFollow'
    BY <2>5, <2>6 DEF StartingFollow, Left, FollowOps, Access, Select
  <2>8. Laps(r)'
    BY <2>2, <2>4 DEF Before, Laps
  <2> QED
    BY <2>1, <2>2, <2>3, <2>4, <2>7, <2>8 DEF Before
<1>5. ASSUME Execute("usb") PROVE Before' \/ Session'
  <2>1. todo["usb"] # <<>> /\ resets' = resets
    BY <1>5 DEF Execute
  <2>2. Before \/ Session
    BY <2>1 DEF FreshInv, FirstInv
  <2>3. CASE Session
    BY <1>1, <1>5, <2>3, TuneStep
  <2>4. CASE Before
    <3>1. \/ r = w /\ todo["usb"] = <<Select("current")>>
          \/ ~follow_pending /\ (StartingFixed \/ StartingFollow)
      BY <2>1, <2>4 DEF Before
    <3> QED
      BY <1>1, <1>5, <2>4, <3>1, CurrentStep, FixedStep, FollowStep
  <2> QED
    BY <2>2, <2>3, <2>4
<1> QED
  BY <1>3, <1>4, <1>5 DEF UsbIsr
-----------------------------------------------------------------------------
(* main *)

\* A step of main that leaves the read position alone keeps a session.
LEMMA ReadStays ==
  ASSUME TypeOK, Session, Chosen', UNCHANGED <<r, w, mem, todo, follow_pending, resets>>
  PROVE  Session'
<1>1. r \in Nat /\ r' = r /\ r <= w
  BY Typed DEF Session
<1> QED
  BY <1>1, ReadMoves

LEMMA MainFirst == FreshInv /\ MainStep => FirstInv'
<1> SUFFICES ASSUME FreshInv, MainStep, resets' <= 1 PROVE Session'
  BY DEF FirstInv
<1>1. TypeOK /\ WindowInv
  BY DEF FreshInv, IInv
<1>2. /\ S \in Nat \ {0} /\ r \in Nat /\ w \in Nat /\ resets \in Nat
      /\ buflen_to_read \in Nat /\ bytesread \in Nat /\ idx_read \in Slots
      /\ reg \in [{"main", "usb"} -> [a : Nat, b : Nat]]
  BY <1>1, Typed
<1>3. UNCHANGED <<w, mem, follow_pending>> /\ (resets' = resets \/ resets' = resets + 1)
  BY DEF MainStep, config, MainLoop, MainSpin, MainHop, MainHopped, MainCheck, MainIdxRead,
         MainIdxWrite, MainTag, MainDemod, MainLoad, MainStore, MainSkip, MainUpdate
<1>4. Session
  <2>1. resets <= 1
    BY <1>2, <1>3
  <2>2. ~Before
    BY DEF Before, MainStep, MainAt, MainLoop, MainSpin, MainHop, MainHopped, MainCheck,
           MainIdxRead, MainIdxWrite, MainTag, MainDemod, MainLoad, MainStore, MainSkip,
           MainUpdate
  <2> QED
    BY <2>1, <2>2 DEF FreshInv, FirstInv
<1>5. Chosen /\ resets = 1 /\ resets' = 1
  BY <1>2, <1>3, <1>4 DEF Session
<1>6. CASE MainLoop \/ MainSpin \/ MainHop \/ MainHopped \/ MainUpdate
  <2>1. UNCHANGED <<r, todo, resets>>
    BY <1>5, <1>6 DEF MainLoop, MainSpin, MainHop, MainHopped, MainUpdate, contexts
  <2>2. pc' \in {"loop", "spin", "hop", "hopped", "check"}
    BY <1>6 DEF MainLoop, MainSpin, MainHop, MainHopped, MainUpdate
  <2>3. Chosen'
    BY <2>2 DEF Chosen
  <2> QED
    BY <1>1, <1>3, <1>4, <2>1, <2>3, ReadStays
<1>7. CASE MainCheck
  <2>1. UNCHANGED <<r, todo, resets>> /\ pc' \in {"loop", "idx_read"} /\ moved' = FALSE
    BY <1>7 DEF MainCheck, contexts
  <2>2. Chosen'
    BY <2>1 DEF Chosen
  <2> QED
    BY <1>1, <1>3, <1>4, <2>1, <2>2, ReadStays
<1>8. CASE MainIdxRead
  <2>1. UNCHANGED <<r, todo, resets, moved>> /\ pc = "idx_read" /\ pc' = "idx_write"
    BY <1>8 DEF MainIdxRead, MainAt, contexts
  <2>2. Chosen'
    BY <1>5, <2>1 DEF Chosen
  <2> QED
    BY <1>1, <1>3, <1>4, <2>1, <2>2, ReadStays
<1>9. CASE MainIdxWrite
  <2>1. UNCHANGED <<r, todo, resets, moved, idx_read>> /\ pc = "idx_write"
        /\ pc' \in {"loop", "tag", "skip1"} /\ ~moved
    BY <1>5, <1>9 DEF MainIdxWrite, MainAt, contexts, Chosen
  <2>2. r < w /\ idx_read = r % S
    BY <1>1, <2>1 DEF WindowInv
  <2>3. WindowInv'
    BY <1>3, <1>9, <2>1, IdxWriteWindow DEF FreshInv, positions
  <2>4. ASSUME pc' = "tag" PROVE Chosen'
    <3>1. /\ idx_read' = (r % S)' /\ idx_read' + buflen_to_read' <= S
          /\ r' + buflen_to_read' <= w'
      BY <2>1, <2>3, <2>4 DEF WindowInv
    <3>2. idx_write' <= idx_read' => buflen_to_read' = S - idx_read'
      <4>1. /\ idx_write' = WriteIndex /\ idx_read' = idx_read
            /\ ~(idx_read < WriteIndex) => buflen_to_read' = S - idx_read
        BY <1>9 DEF MainIdxWrite
      <4>2. WriteIndex \in Nat /\ idx_read \in Nat
        BY <1>2, LapAndOffset DEF WriteIndex, Slots
      <4> QED
        BY <4>1, <4>2
    <3> QED
      BY <2>1, <2>4, <3>1, <3>2 DEF Chosen
  <2>5. ASSUME pc' = "skip1" PROVE Chosen'
    <3>1. ~(idx_read < WriteIndex)
      BY <1>9, <2>5 DEF MainIdxWrite
    <3>2. (r % S) >= (w % S) => w - r >= S + (w % S) - (r % S)
      BY <1>2, <2>2, Apart
    <3> DEFINE R == r % S
               W == w % S
    <3>3. R \in Nat /\ W \in Nat
      <4>1. r % S \in Slots /\ w % S \in Slots
        BY <1>2, LapAndOffset
      <4> QED
        BY <4>1 DEF Slots
    <3>4. ~(R < W) /\ (R >= W => w - r >= S + W - R) /\ ToNextLap(r) = S - R
      BY <2>2, <3>1, <3>2 DEF WriteIndex, ToNextLap
    <3> HIDE DEF R, W
    <3>5. r + ToNextLap(r) <= w
      BY <1>2, <3>3, <3>4
    <3>6. r' + ToNextLap(r)' <= w'
      BY <1>3, <2>1, <3>5 DEF ToNextLap
    <3> QED
      BY <2>5, <3>6 DEF Chosen
  <2>6. ASSUME pc' = "loop" PROVE Chosen'
    BY <2>6 DEF Chosen
  <2> QED
    BY <1>1, <1>3, <1>4, <2>1, <2>4, <2>5, <2>6, ReadStays
<1>10. CASE MainTag
  <2>1. UNCHANGED <<r, todo, resets, moved, idx_read, idx_write, buflen_to_read>>
        /\ pc = "tag" /\ pc' = "demod"
    BY <1>10 DEF MainTag, MainAt, contexts
  <2>2. Chosen'
    BY <1>3, <1>5, <2>1 DEF Chosen
  <2> QED
    BY <1>1, <1>3, <1>4, <2>1, <2>2, ReadStays
<1>11. CASE MainDemod
  <2>1. UNCHANGED <<r, todo, resets, moved, idx_read, idx_write, buflen_to_read>>
        /\ pc = "demod" /\ pc' = "load"
    BY <1>11 DEF MainDemod, MainAt, contexts, window
  <2>2. PICK o \in DemodOutcomes(buflen_to_read) : bytesread' = o.bytes /\ outcome' = o.end
    BY <1>11 DEF MainDemod
  <2>3. o.bytes <= buflen_to_read /\ (o.end = NotEnough => o.bytes < buflen_to_read)
    BY <1>2 DEF DemodOutcomes, NoWarning, NotEnough, Packet
  <2>4. Chosen'
    BY <1>3, <1>5, <2>1, <2>2, <2>3 DEF Chosen
  <2> QED
    BY <1>1, <1>3, <1>4, <2>1, <2>4, ReadStays
<1>12. CASE MainLoad
  <2>1. UNCHANGED <<r, todo, resets, moved, idx_read, idx_write, buflen_to_read,
                    bytesread, outcome>>
        /\ pc = "load" /\ pc' = "store" /\ reg' = [reg EXCEPT !["main"].a = r]
    BY <1>12 DEF MainLoad, MainAt, window, result
  <2>2. reg'["main"].a = r
    BY <1>2, <2>1
  <2>3. Chosen'
    BY <1>3, <1>5, <2>1, <2>2 DEF Chosen
  <2> QED
    BY <1>1, <1>3, <1>4, <2>1, <2>3, ReadStays
<1>13. CASE MainStore
  <2> DEFINE v == r + bytesread
  <2>1. UNCHANGED <<todo, resets, moved, idx_read, idx_write, buflen_to_read>>
        /\ pc = "store" /\ pc' \in {"update", "skip1", "loop"} /\ r' = reg["main"].a + bytesread
    BY <1>13 DEF MainStore, MainAt, contexts, window
  <2>2. /\ idx_read = r % S /\ idx_read + buflen_to_read <= S /\ r + buflen_to_read <= w
        /\ idx_write <= idx_read => buflen_to_read = S - idx_read
        /\ bytesread <= buflen_to_read /\ (outcome = NotEnough => bytesread < buflen_to_read)
        /\ reg["main"].a = r
    BY <1>5, <2>1 DEF Chosen
  <2>3. r' = v /\ v \in Nat /\ v >= r /\ v <= w
    BY <1>2, <2>1, <2>2
  <2>4. ASSUME pc' = "skip1" PROVE v + ToNextLap(v) <= w
    <3>1. outcome = NotEnough /\ idx_write <= idx_read
      BY <1>13, <2>4 DEF MainStore
    <3>2. idx_read \in Nat /\ idx_read + bytesread < S
      BY <1>2, <2>2, <3>1 DEF Slots
    <3>3. v % S = idx_read + bytesread
      <4>1. (r % S) + bytesread < S
        BY <2>2, <3>2
      <4> QED
        BY <1>2, <2>2, <4>1, Ahead
    <3>4. ToNextLap(v) = S - (idx_read + bytesread)
      BY <3>3 DEF ToNextLap
    <3>5. v + ToNextLap(v) = r + buflen_to_read
      BY <1>2, <2>2, <3>1, <3>2, <3>4
    <3> QED
      BY <2>2, <3>5
  <2> HIDE DEF v
  <2>5. Chosen'
    <3>1. pc' = "skip1" => r' + ToNextLap(r)' <= w'
      BY <1>3, <2>3, <2>4 DEF ToNextLap
    <3> QED
      BY <2>1, <3>1 DEF Chosen
  <2> QED
    BY <1>1, <1>3, <1>4, <2>1, <2>3, <2>5, ReadMoves
<1>14. CASE MainSkip
  <2>1. CASE pc \in {"skip1", "skip2"}
    <3>1. /\ UNCHANGED <<r, todo, resets>>
          /\ pc = "skip1" => pc' = "skip2" /\ reg' = [reg EXCEPT !["main"].a = r]
          /\ pc = "skip2" => pc' = "skip3" /\ reg' = [reg EXCEPT !["main"].b = r]
      BY <1>14, <2>1 DEF MainSkip, MainAt
    <3>2. /\ pc = "skip1" => reg'["main"].a = r
          /\ pc = "skip2" => reg'["main"].a = reg["main"].a /\ reg'["main"].b = r
      BY <1>2, <3>1
    <3>3. r + ToNextLap(r) <= w /\ (pc = "skip2" => reg["main"].a = r)
      BY <1>5, <2>1 DEF Chosen
    <3>4. r' + ToNextLap(r)' <= w'
      BY <1>3, <3>1, <3>3 DEF ToNextLap
    <3>5. Chosen'
      BY <2>1, <3>1, <3>2, <3>3, <3>4 DEF Chosen
    <3> QED
      BY <1>1, <1>3, <1>4, <3>1, <3>5, ReadStays
  <2>2. CASE pc \notin {"skip1", "skip2"}
    <3> DEFINE v == r + ToNextLap(r)
    <3>1. pc = "skip3" /\ pc' = "loop" /\ r' \in SkipValues(reg["main"])
          /\ UNCHANGED <<todo, resets>>
      BY <1>14, <2>2 DEF MainSkip, MainAt
    <3>2. reg["main"].a = r /\ reg["main"].b = r /\ v <= w
      BY <1>5, <3>1 DEF Chosen
    <3>3. r' = v
      BY <3>1, <3>2 DEF SkipValues
    <3>4. v \in Nat /\ v >= r
      <4>1. ToNextLap(r) \in 1 .. S
        BY <1>2, NextLap
      <4> QED
        BY <1>2, <4>1
    <3> HIDE DEF v
    <3>5. Chosen'
      BY <3>1 DEF Chosen
    <3> QED
      BY <1>1, <1>3, <1>4, <3>1, <3>2, <3>3, <3>4, <3>5, ReadMoves
  <2> QED
    BY <2>1, <2>2
<1> QED
  BY <1>6, <1>7, <1>8, <1>9, <1>10, <1>11, <1>12, <1>13, <1>14 DEF MainStep
-----------------------------------------------------------------------------
(* The theorems *)

LEMMA InitFresh == Init => FreshInv
<1> SUFFICES ASSUME Init PROVE FirstInv
  BY InitIInv DEF FreshInv
<1>1. 0 = S * 0 /\ 0 \in Nat
  BY SizePositive
<1>2. Laps(r)
  BY <1>1 DEF Laps, Init
<1> QED
  BY <1>2 DEF FirstInv, Before, Init

LEMMA NextFresh == FreshInv /\ [Next]_vars => FreshInv'
<1> SUFFICES ASSUME FreshInv, [Next]_vars PROVE FirstInv'
  BY NextIInv DEF FreshInv
<1>1. CASE SgpioIsr
  BY <1>1, SgpioFirst
<1>2. CASE UsbIsr
  BY <1>2, UsbFirst
<1>3. CASE MainStep
  BY <1>3, MainFirst
<1>4. CASE Execute("main")
  <2>1. todo["main"] # <<>> /\ resets' = resets
    BY <1>4 DEF Execute
  <2>2. ~(resets <= 1)
    BY <2>1 DEF FreshInv, FirstInv, Before, Session
  <2> QED
    BY <2>1, <2>2 DEF FirstInv
<1>5. CASE UNCHANGED vars
  <2>1. UNCHANGED <<r, w, streaming, transceiver_mode, follow_pending, pc, todo, reg, moved,
                    idx_read, idx_write, buflen_to_read, bytesread, outcome, mem, resets>>
    BY <1>5 DEF vars, positions, config, contexts, window, result
  <2>2. Before => Before'
    <3>1. \A k : ResetAt(k) => ResetAt(k)'
      BY <2>1 DEF ResetAt
    <3>2. \A k : (FixedAt(k) => FixedAt(k)') /\ (FollowAt(k) => FollowAt(k)')
      BY <2>1, <3>1 DEF FixedAt, FollowAt
    <3>3. (StartingFixed => StartingFixed') /\ (StartingFollow => StartingFollow')
      BY <2>1, <3>2 DEF StartingFixed, StartingFollow, Left, FixedOps, FollowOps, Access, Select
    <3>4. Laps(r) => Laps(r)'
      BY <2>1 DEF Laps
    <3> QED
      BY <2>1, <3>3, <3>4 DEF Before, Select
  <2>3. Session => Session'
    <3>1. Chosen => Chosen'
      BY <2>1 DEF Chosen, ToNextLap
    <3> QED
      BY <2>1, <3>1, ReadStays DEF FreshInv, IInv, Session
  <2> QED
    BY <2>1, <2>2, <2>3 DEF FreshInv, FirstInv
<1> QED
  BY <1>1, <1>2, <1>3, <1>4, <1>5 DEF Next

\* In every execution, as long as only the start of a session has reset the
\* positions, no session has begun or what Session says holds.
THEOREM FreshInvariance == Spec => []FreshInv
<1> QED
  BY InitFresh, NextFresh, PTL DEF Spec

\* Main never reads past the interrupt, nor falls behind it by more than a lap
\* and a skipped tail, from any request that starts a session to the first hop.
THEOREM ReadsFollowWrites == Spec => []ReadFollowsWrite
<1>1. FreshInv => ReadFollowsWrite
  <2> SUFFICES ASSUME FreshInv, todo["usb"] = <<>>, resets <= 1
               PROVE  r <= w /\ w - r < S + PACKET_SAMPLES_MAX
    BY DEF ReadFollowsWrite
  <2>1. r \in Nat /\ w \in Nat /\ S \in Nat \ {0} /\ PACKET_SAMPLES_MAX \in Nat
    BY Typed DEF FreshInv, IInv
  <2>2. CASE Session
    BY <2>2 DEF Session
  <2>3. CASE Before
    <3>1. r = w
      BY <2>3, StartingTodo DEF Before
    <3> QED
      BY <2>1, <3>1
  <2> QED
    BY <2>2, <2>3 DEF FreshInv, FirstInv
<1> QED
  BY FreshInvariance, <1>1, PTL

\* In that time, every byte of a window was stored in the lap main reads it in,
\* or lies in the tail the interrupt skips.
THEOREM ReadsFresh == Spec => []FreshOrTail
<1>1. FreshInv => FreshOrTail
  <2> SUFFICES ASSUME FreshInv, pc = "demod", ~moved, resets <= 1,
                      NEW k \in 0 .. buflen_to_read - 1
               PROVE  \/ mem[idx_read + k].pos = sample_pos_read + k
                      \/ idx_read + k > SAMPLE_BUFFER_SIZE - PACKET_SAMPLES_MAX
    BY DEF FreshOrTail
  <2>1. r \in Nat /\ w \in Nat /\ S \in Nat \ {0} /\ buflen_to_read \in Nat /\ idx_read \in Slots
    BY Typed DEF FreshInv, IInv
  <2>2. Session
    BY DEF FreshInv, FirstInv, Before
  <2>3. idx_read = r % S /\ idx_read + buflen_to_read <= S /\ r + buflen_to_read <= w
    BY <2>2 DEF Session, Chosen
  <2>4. k \in Nat /\ idx_read + k < S /\ r + k \in r .. w - 1
    BY <2>1, <2>3 DEF Slots
  <2>5. (r + k) % S = idx_read + k
    <3>1. (r % S) + k < S
      BY <2>3, <2>4
    <3> QED
      BY <2>1, <2>3, <2>4, <3>1, Ahead
  <2>6. Fresh(r + k)
    BY <2>2, <2>4 DEF Session, Stored
  <2> QED
    BY <2>5, <2>6 DEF Fresh
<1> QED
  BY FreshInvariance, <1>1, PTL
-----------------------------------------------------------------------------
(* Stores still to be made *)

\* How often a list of accesses still stores a position: no list the code
\* leaves to execute stores one more than twice.
StoresOnce(s, k) == \E i \in DOMAIN s : s[i].do = k
StoresTwice(s, k) == \E i, j \in DOMAIN s : i < j /\ s[i].do = k /\ s[j].do = k
Stores(s, k) == IF StoresTwice(s, k) THEN 2 ELSE IF StoresOnce(s, k) THEN 1 ELSE 0

AtMostTwice(s, k) ==
  \A h, i, j \in DOMAIN s :
    h < i /\ i < j => ~(s[h].do = k /\ s[i].do = k /\ s[j].do = k)

Preceded(s, first, second) ==
  \A i \in DOMAIN s : i > 1 /\ s[i].do = second => s[i - 1].do = first

\* What every list is, from its start or from the middle: both registers are
\* loaded before a store, a store of the write position is followed by one of
\* the read position, and the interrupt is enabled only after the last of these.
Straight(s) ==
  /\ Preceded(s, "loadW1", "loadW2") /\ Preceded(s, "loadW2", "storeW")
  /\ Preceded(s, "loadR1", "loadR2") /\ Preceded(s, "loadR2", "storeR")
  /\ \A i \in DOMAIN s : s[i].do = "storeW" =>
       i + 3 \in DOMAIN s /\ s[i + 3].do = "storeR"
  /\ \A i, j \in DOMAIN s : i < j /\ s[i].do = "on" => s[j].do # "storeR"
  /\ AtMostTwice(s, "storeW") /\ AtMostTwice(s, "storeR")

\* The access a list starts with.
NextIs(s, k) == s # <<>> /\ Head(s).do = k

LEMMA TailIs ==
  ASSUME NEW s \in Seq(Ops), s # <<>>
  PROVE  /\ Len(s) \in Nat \ {0} /\ DOMAIN s = 1 .. Len(s) /\ Head(s) = s[1]
         /\ Tail(s) \in Seq(Ops) /\ DOMAIN Tail(s) = 1 .. Len(s) - 1
         /\ \A i \in 1 .. Len(s) - 1 : Tail(s)[i] = s[i + 1]
<1> HIDE DEF Ops
<1>1. Len(s) \in Nat \ {0} /\ Tail(s) \in Seq(Ops) /\ Len(Tail(s)) = Len(s) - 1
  BY EmptySeq, HeadTailProperties
<1>2. \A i \in 1 .. Len(Tail(s)) : Tail(s)[i] = s[i + 1]
  OBVIOUS
<1> QED
  BY <1>1, <1>2

LEMMA StoresTyped ==
  ASSUME NEW s, NEW k
  PROVE  Stores(s, k) \in 0 .. 2
BY DEF Stores

LEMMA StoresTail ==
  ASSUME NEW s \in Seq(Ops), s # <<>>, NEW k, AtMostTwice(s, k)
  PROVE  Stores(Tail(s), k) = Stores(s, k) - (IF Head(s).do = k THEN 1 ELSE 0)
<1> DEFINE t == Tail(s)
           n == Len(s)
<1>1. /\ n \in Nat \ {0} /\ DOMAIN s = 1 .. n /\ Head(s) = s[1]
      /\ DOMAIN t = 1 .. n - 1 /\ \A i \in 1 .. n - 1 : t[i] = s[i + 1]
  BY TailIs
<1>2. ASSUME NEW i \in 2 .. n PROVE i - 1 \in 1 .. n - 1 /\ t[i - 1] = s[i]
  BY <1>1
<1> HIDE DEF t, n
<1>3. StoresOnce(t, k) <=> \E i \in 2 .. n : s[i].do = k
  <2>1. ASSUME NEW i \in 1 .. n - 1, t[i].do = k PROVE \E h \in 2 .. n : s[h].do = k
    <3>1. i + 1 \in 2 .. n /\ s[i + 1].do = k
      BY <1>1, <2>1
    <3> QED
      BY <3>1
  <2>2. ASSUME NEW i \in 2 .. n, s[i].do = k PROVE \E h \in 1 .. n - 1 : t[h].do = k
    <3>1. i - 1 \in 1 .. n - 1 /\ t[i - 1].do = k
      BY <1>2, <2>2
    <3> QED
      BY <3>1
  <2> QED
    BY <1>1, <2>1, <2>2 DEF StoresOnce
<1>4. StoresTwice(t, k) <=> \E i, j \in 2 .. n : i < j /\ s[i].do = k /\ s[j].do = k
  <2>1. ASSUME NEW i \in 1 .. n - 1, NEW j \in 1 .. n - 1, i < j, t[i].do = k, t[j].do = k
        PROVE  \E h, l \in 2 .. n : h < l /\ s[h].do = k /\ s[l].do = k
    <3>1. i + 1 \in 2 .. n /\ j + 1 \in 2 .. n /\ i + 1 < j + 1
      BY <1>1, <2>1
    <3>2. s[i + 1].do = k /\ s[j + 1].do = k
      BY <1>1, <2>1
    <3> QED
      BY <3>1, <3>2
  <2>2. ASSUME NEW i \in 2 .. n, NEW j \in 2 .. n, i < j, s[i].do = k, s[j].do = k
        PROVE  \E h, l \in 1 .. n - 1 : h < l /\ t[h].do = k /\ t[l].do = k
    <3>1. i - 1 \in 1 .. n - 1 /\ j - 1 \in 1 .. n - 1 /\ i - 1 < j - 1
      BY <1>1, <2>2
    <3>2. t[i - 1].do = k /\ t[j - 1].do = k
      BY <1>2, <2>2
    <3> QED
      BY <3>1, <3>2
  <2> QED
    BY <1>1, <2>1, <2>2 DEF StoresTwice
<1>5. CASE s[1].do = k
  <2>1. 1 \in DOMAIN s /\ \A i \in DOMAIN s : i # 1 <=> i \in 2 .. n
    BY <1>1
  <2>2. StoresOnce(s, k) /\ (StoresTwice(s, k) <=> StoresOnce(t, k))
    <3>1. StoresOnce(s, k)
      BY <1>5, <2>1 DEF StoresOnce
    <3>2. ASSUME StoresTwice(s, k) PROVE \E i \in 2 .. n : s[i].do = k
      <4>1. PICK i, j \in DOMAIN s : i < j /\ s[j].do = k
        BY <3>2 DEF StoresTwice
      <4>2. j \in 2 .. n
        BY <1>1, <4>1
      <4> QED
        BY <4>1, <4>2
    <3>3. ASSUME NEW i \in 2 .. n, s[i].do = k PROVE StoresTwice(s, k)
      <4>1. i \in DOMAIN s /\ 1 < i
        BY <1>1
      <4> QED
        BY <1>5, <2>1, <3>3, <4>1 DEF StoresTwice
    <3> QED
      BY <1>3, <3>1, <3>2, <3>3
  <2>3. ~StoresTwice(t, k)
    <3>1. ASSUME NEW i \in 2 .. n, NEW j \in 2 .. n, i < j, s[i].do = k, s[j].do = k
          PROVE  FALSE
      <4>1. i \in DOMAIN s /\ j \in DOMAIN s /\ 1 < i
        BY <1>1
      <4> QED
        BY <1>5, <2>1, <3>1, <4>1 DEF AtMostTwice
    <3> QED
      BY <1>4, <3>1
  <2> QED
    BY <1>1, <1>5, <2>2, <2>3 DEF Stores, t
<1>6. CASE s[1].do # k
  <2>1. \A i \in DOMAIN s : i \in 2 .. n \/ i = 1
    BY <1>1
  <2>2. \A i \in 2 .. n : i \in DOMAIN s
    BY <1>1
  <2>3. StoresOnce(s, k) <=> StoresOnce(t, k)
    BY <1>3, <1>6, <2>1, <2>2 DEF StoresOnce
  <2>4. StoresTwice(s, k) <=> StoresTwice(t, k)
    BY <1>4, <1>6, <2>1, <2>2 DEF StoresTwice
  <2> QED
    BY <1>1, <1>6, <2>3, <2>4 DEF Stores, t
<1> QED
  BY <1>5, <1>6

\* Dropping the first access of a list leaves a list of the same kind.
LEMMA StraightTail ==
  ASSUME NEW s \in Seq(Ops), s # <<>>, Straight(s)
  PROVE  Straight(Tail(s))
<1> DEFINE t == Tail(s)
           n == Len(s)
<1>1. /\ n \in Nat \ {0} /\ DOMAIN s = 1 .. n
      /\ DOMAIN t = 1 .. n - 1 /\ \A i \in 1 .. n - 1 : t[i] = s[i + 1]
  BY TailIs
<1> HIDE DEF t, n
<1>2. ASSUME NEW a, NEW b, Preceded(s, a, b) PROVE Preceded(t, a, b)
  <2> SUFFICES ASSUME NEW i \in 1 .. n - 1, i > 1, t[i].do = b PROVE t[i - 1].do = a
    BY <1>1 DEF Preceded
  <2>1. i + 1 \in 1 .. n /\ i + 1 > 1 /\ s[i + 1].do = b
    BY <1>1
  <2>2. s[(i + 1) - 1].do = a
    BY <1>1, <1>2, <2>1 DEF Preceded
  <2>3. i - 1 \in 1 .. n - 1 /\ (i + 1) - 1 = (i - 1) + 1
    BY <1>1
  <2> QED
    BY <1>1, <2>2, <2>3
<1>3. ASSUME NEW i \in 1 .. n - 1, t[i].do = "storeW"
      PROVE  i + 3 \in 1 .. n - 1 /\ t[i + 3].do = "storeR"
  <2>1. i + 1 \in 1 .. n /\ s[i + 1].do = "storeW"
    BY <1>1, <1>3
  <2>2. (i + 1) + 3 \in 1 .. n /\ s[(i + 1) + 3].do = "storeR"
    BY <1>1, <2>1 DEF Straight
  <2>3. i + 3 \in 1 .. n - 1 /\ (i + 1) + 3 = (i + 3) + 1
    BY <1>1, <2>2
  <2> QED
    BY <1>1, <2>2, <2>3
<1>4. ASSUME NEW i \in 1 .. n - 1, NEW j \in 1 .. n - 1, i < j, t[i].do = "on"
      PROVE  t[j].do # "storeR"
  <2>1. i + 1 \in 1 .. n /\ j + 1 \in 1 .. n /\ i + 1 < j + 1
    BY <1>1, <1>4
  <2>2. s[i + 1].do = "on" /\ t[j] = s[j + 1]
    BY <1>1, <1>4
  <2> QED
    BY <1>1, <2>1, <2>2 DEF Straight
<1>5. ASSUME NEW k, AtMostTwice(s, k) PROVE AtMostTwice(t, k)
  <2> SUFFICES ASSUME NEW h \in 1 .. n - 1, NEW i \in 1 .. n - 1, NEW j \in 1 .. n - 1,
                      h < i, i < j
               PROVE  ~(t[h].do = k /\ t[i].do = k /\ t[j].do = k)
    BY <1>1 DEF AtMostTwice
  <2>1. /\ h + 1 \in 1 .. n /\ i + 1 \in 1 .. n /\ j + 1 \in 1 .. n
        /\ h + 1 < i + 1 /\ i + 1 < j + 1
    BY <1>1
  <2>2. t[h] = s[h + 1] /\ t[i] = s[i + 1] /\ t[j] = s[j + 1]
    BY <1>1
  <2> QED
    BY <1>1, <1>5, <2>1, <2>2 DEF AtMostTwice
<1> QED
  BY <1>1, <1>2, <1>3, <1>4, <1>5 DEF Straight, t

\* What an access says of the one before it.
LEMMA NextAfter ==
  ASSUME NEW s \in Seq(Ops), s # <<>>, Straight(s)
  PROVE  /\ NextIs(Tail(s), "loadW2") => Head(s).do = "loadW1"
         /\ NextIs(Tail(s), "storeW") => Head(s).do = "loadW2"
         /\ NextIs(Tail(s), "loadR2") => Head(s).do = "loadR1"
         /\ NextIs(Tail(s), "storeR") => Head(s).do = "loadR2"
<1>1. ASSUME NEW a, NEW b, Preceded(s, a, b), NextIs(Tail(s), b) PROVE Head(s).do = a
  <2>1. Tail(s) # <<>> /\ Head(Tail(s)).do = b
    BY <1>1 DEF NextIs
  <2>2. /\ Head(s) = s[1] /\ DOMAIN s = 1 .. Len(s) /\ Len(s) \in Nat
        /\ Tail(s) \in Seq(Ops) /\ DOMAIN Tail(s) = 1 .. Len(s) - 1
        /\ \A i \in 1 .. Len(s) - 1 : Tail(s)[i] = s[i + 1]
    BY TailIs
  <2>3. 1 \in DOMAIN Tail(s) /\ Head(Tail(s)) = Tail(s)[1]
    BY <2>1, <2>2, TailIs
  <2>4. 2 \in DOMAIN s /\ s[2].do = b
    BY <2>1, <2>2, <2>3
  <2>5. s[2 - 1].do = a
    BY <1>1, <2>4 DEF Preceded
  <2> QED
    BY <2>2, <2>5
<1> QED
  BY <1>1 DEF Straight

\* No more stores of the write position are left than of the read position, and
\* none of the read position once the interrupt is to be enabled.
LEMMA StoresOrder ==
  ASSUME NEW s \in Seq(Ops), Straight(s)
  PROVE  /\ Stores(s, "storeW") <= Stores(s, "storeR")
         /\ s # <<>> /\ Head(s).do = "on" => Stores(s, "storeR") = 0
<1>1. Len(s) \in Nat /\ DOMAIN s = 1 .. Len(s)
  OBVIOUS
<1>2. \A i \in DOMAIN s : s[i].do = "storeW" => i + 3 \in DOMAIN s /\ s[i + 3].do = "storeR"
  BY DEF Straight
<1>3. StoresOnce(s, "storeW") => StoresOnce(s, "storeR")
  BY <1>2 DEF StoresOnce
<1>4. StoresTwice(s, "storeW") => StoresTwice(s, "storeR")
  <2> SUFFICES ASSUME NEW i \in DOMAIN s, NEW j \in DOMAIN s, i < j,
                      s[i].do = "storeW", s[j].do = "storeW"
               PROVE  StoresTwice(s, "storeR")
    BY DEF StoresTwice
  <2>1. i + 3 < j + 3
    BY <1>1
  <2> QED
    BY <1>2, <2>1 DEF StoresTwice
<1>5. ASSUME s # <<>>, Head(s).do = "on" PROVE Stores(s, "storeR") = 0
  <2>1. Head(s) = s[1] /\ 1 \in DOMAIN s
    BY <1>5, TailIs
  <2>2. \A j \in DOMAIN s : j # 1 => s[j].do # "storeR"
    BY <1>1, <1>5, <2>1 DEF Straight
  <2>3. ~StoresOnce(s, "storeR") /\ ~StoresTwice(s, "storeR")
    BY <1>1, <1>5, <2>1, <2>2 DEF StoresOnce, StoresTwice
  <2> QED
    BY <2>3 DEF Stores
<1>6. Stores(s, "storeW") <= Stores(s, "storeR")
  BY <1>3, <1>4 DEF Stores, StoresOnce, StoresTwice
<1> QED
  BY <1>5, <1>6
-----------------------------------------------------------------------------
(* The lists the code leaves to execute *)

\* The accesses of reset_counter, twice, after the first p and the first q.
ResetsAt(s, p, q) ==
  /\ s \in Seq(Ops) /\ p \in Nat /\ q \in Nat /\ p <= q /\ q + 6 <= Len(s)
  /\ \A i \in DOMAIN s :
       /\ s[i].do = "loadW1" <=> i \in {p + 1, q + 1}
       /\ s[i].do = "loadW2" <=> i \in {p + 2, q + 2}
       /\ s[i].do = "storeW" <=> i \in {p + 3, q + 3}
       /\ s[i].do = "loadR1" <=> i \in {p + 4, q + 4}
       /\ s[i].do = "loadR2" <=> i \in {p + 5, q + 5}
       /\ s[i].do = "storeR" <=> i \in {p + 6, q + 6}
       /\ s[i].do = "on" => i > q + 6

\* A list that has yet to make its first access.
Unbegun(s) ==
  /\ s \in Seq(Ops) /\ s # <<>> /\ Straight(s)
  /\ Head(s).do \notin {"loadW2", "storeW", "loadR2", "storeR"}

LEMMA ResetsUnbegun ==
  ASSUME NEW s, NEW p, NEW q, ResetsAt(s, p, q)
  PROVE  Unbegun(s) /\ (p = q => Stores(s, "storeW") <= 1 /\ Stores(s, "storeR") <= 1)
<1>1. /\ s \in Seq(Ops) /\ p \in Nat /\ q \in Nat /\ p <= q /\ q + 6 <= Len(s)
      /\ Len(s) \in Nat /\ DOMAIN s = 1 .. Len(s) /\ s # <<>> /\ Head(s) = s[1]
  <2>1. s \in Seq(Ops) /\ p \in Nat /\ q \in Nat /\ p <= q /\ q + 6 <= Len(s)
    BY DEF ResetsAt
  <2>2. s # <<>>
    BY <2>1, EmptySeq
  <2> QED
    BY <2>1, <2>2, TailIs
<1>2. \A i \in DOMAIN s :
        /\ s[i].do = "loadW1" <=> i \in {p + 1, q + 1}
        /\ s[i].do = "loadW2" <=> i \in {p + 2, q + 2}
        /\ s[i].do = "storeW" <=> i \in {p + 3, q + 3}
        /\ s[i].do = "loadR1" <=> i \in {p + 4, q + 4}
        /\ s[i].do = "loadR2" <=> i \in {p + 5, q + 5}
        /\ s[i].do = "storeR" <=> i \in {p + 6, q + 6}
        /\ s[i].do = "on" => i > q + 6
  BY DEF ResetsAt
<1>3. \A i \in DOMAIN s : i > 1 => i - 1 \in DOMAIN s
  BY <1>1
<1>4. Preceded(s, "loadW1", "loadW2") /\ Preceded(s, "loadW2", "storeW")
      /\ Preceded(s, "loadR1", "loadR2") /\ Preceded(s, "loadR2", "storeR")
  <2>1. ASSUME NEW a, NEW b, NEW n \in Nat,
               \A i \in DOMAIN s : i \in {p + n, q + n} => s[i].do = a,
               \A i \in DOMAIN s : s[i].do = b => i \in {p + (n + 1), q + (n + 1)}
        PROVE  Preceded(s, a, b)
    <3> SUFFICES ASSUME NEW i \in DOMAIN s, i > 1, s[i].do = b PROVE s[i - 1].do = a
      BY DEF Preceded
    <3>1. i \in {p + (n + 1), q + (n + 1)}
      BY <2>1
    <3>2. i - 1 \in DOMAIN s /\ i - 1 \in {p + n, q + n}
      BY <1>1, <1>3, <3>1
    <3> QED
      BY <2>1, <3>2
  <2>2. \A i \in DOMAIN s :
          /\ i \in {p + 1, q + 1} => s[i].do = "loadW1"
          /\ s[i].do = "loadW2" => i \in {p + (1 + 1), q + (1 + 1)}
    BY <1>2
  <2>3. \A i \in DOMAIN s :
          /\ i \in {p + 2, q + 2} => s[i].do = "loadW2"
          /\ s[i].do = "storeW" => i \in {p + (2 + 1), q + (2 + 1)}
    BY <1>2
  <2>4. \A i \in DOMAIN s :
          /\ i \in {p + 4, q + 4} => s[i].do = "loadR1"
          /\ s[i].do = "loadR2" => i \in {p + (4 + 1), q + (4 + 1)}
    BY <1>2
  <2>5. \A i \in DOMAIN s :
          /\ i \in {p + 5, q + 5} => s[i].do = "loadR2"
          /\ s[i].do = "storeR" => i \in {p + (5 + 1), q + (5 + 1)}
    BY <1>2
  <2> QED
    BY <2>1, <2>2, <2>3, <2>4, <2>5
<1>5. ASSUME NEW i \in DOMAIN s, s[i].do = "storeW"
      PROVE  i + 3 \in DOMAIN s /\ s[i + 3].do = "storeR"
  <2>1. i \in {p + 3, q + 3}
    BY <1>2, <1>5
  <2>2. i + 3 \in DOMAIN s /\ i + 3 \in {p + 6, q + 6}
    BY <1>1, <2>1
  <2> QED
    BY <1>2, <2>2
<1>6. ASSUME NEW i \in DOMAIN s, NEW j \in DOMAIN s, i < j, s[i].do = "on"
      PROVE  s[j].do # "storeR"
  <2>1. i > q + 6 /\ j > q + 6 /\ j > p + 6
    BY <1>1, <1>2, <1>6
  <2> QED
    BY <1>1, <1>2, <2>1
<1>7. /\ \A i \in DOMAIN s : s[i].do = "storeW" => i \in {p + 3, q + 3}
      /\ \A i \in DOMAIN s : s[i].do = "storeR" => i \in {p + 6, q + 6}
  BY <1>2
<1>8. ASSUME NEW k, NEW n \in Nat, \A i \in DOMAIN s : s[i].do = k => i \in {p + n, q + n}
      PROVE  AtMostTwice(s, k) /\ (p = q => Stores(s, k) <= 1)
  <2>1. AtMostTwice(s, k)
    <3> SUFFICES ASSUME NEW h \in DOMAIN s, NEW i \in DOMAIN s, NEW j \in DOMAIN s,
                        h < i, i < j, s[h].do = k, s[i].do = k, s[j].do = k
                 PROVE  FALSE
      BY DEF AtMostTwice
    <3>1. h \in {p + n, q + n} /\ i \in {p + n, q + n} /\ j \in {p + n, q + n}
      BY <1>8
    <3> QED
      BY <1>1, <3>1
  <2>2. ASSUME p = q PROVE ~StoresTwice(s, k)
    <3> SUFFICES ASSUME NEW i \in DOMAIN s, NEW j \in DOMAIN s, i < j,
                        s[i].do = k, s[j].do = k
                 PROVE  FALSE
      BY DEF StoresTwice
    <3>1. i \in {p + n, q + n} /\ j \in {p + n, q + n}
      BY <1>8
    <3> QED
      BY <1>1, <2>2, <3>1
  <2> QED
    BY <2>1, <2>2 DEF Stores
<1>9. /\ AtMostTwice(s, "storeW") /\ AtMostTwice(s, "storeR")
      /\ p = q => Stores(s, "storeW") <= 1 /\ Stores(s, "storeR") <= 1
  BY <1>7, <1>8
<1>10. Head(s).do \notin {"loadW2", "storeW", "loadR2", "storeR"}
  <2>1. 1 \in DOMAIN s /\ \A n \in Nat : n > 1 => 1 \notin {p + n, q + n}
    BY <1>1
  <2>2. 1 \notin {p + 2, q + 2} \cup {p + 3, q + 3} \cup {p + 5, q + 5} \cup {p + 6, q + 6}
    BY <2>1
  <2> QED
    BY <1>1, <1>2, <2>1, <2>2
<1>11. Straight(s)
  BY <1>4, <1>5, <1>6, <1>9 DEF Straight
<1> QED
  BY <1>1, <1>9, <1>10, <1>11 DEF Unbegun

LEMMA ChannelPieces ==
  ASSUME NEW c, NEW t, NEW a1, NEW a2, NEW a3, NEW a4, NEW a5, NEW a6,
         {c, t, a1, a2, a3, a4, a5, a6} \subseteq Ops
  PROVE  (<<a1, a2, a3, a4, a5, a6>> \o <<c, t>>) \o <<a1, a2, a3, a4, a5, a6>>
           = <<a1, a2, a3, a4, a5, a6, c, t, a1, a2, a3, a4, a5, a6>>
<1> DEFINE all == (<<a1, a2, a3, a4, a5, a6>> \o <<c, t>>) \o <<a1, a2, a3, a4, a5, a6>>
           ops == <<a1, a2, a3, a4, a5, a6, c, t, a1, a2, a3, a4, a5, a6>>
<1>1. Len(all) = Len(ops) /\ \A i \in 1 .. Len(all) : all[i] = ops[i]
  OBVIOUS
<1>2. all \in Seq(Ops) /\ ops \in Seq(Ops)
  OBVIOUS
<1> HIDE DEF all, ops
<1>3. all = ops
  BY <1>1, <1>2, SeqEqual
<1> QED
  BY <1>3 DEF all, ops

LEMMA OffPieces ==
  ASSUME NEW c, NEW o, NEW e, NEW a1, NEW a2, NEW a3, NEW a4, NEW a5, NEW a6,
         {c, o, e, a1, a2, a3, a4, a5, a6} \subseteq Ops
  PROVE  (<<c, o>> \o <<a1, a2, a3, a4, a5, a6>>) \o <<e>>
           = <<c, o, a1, a2, a3, a4, a5, a6, e>>
<1> DEFINE all == (<<c, o>> \o <<a1, a2, a3, a4, a5, a6>>) \o <<e>>
           ops == <<c, o, a1, a2, a3, a4, a5, a6, e>>
<1>1. Len(all) = Len(ops) /\ \A i \in 1 .. Len(all) : all[i] = ops[i]
  OBVIOUS
<1>2. all \in Seq(Ops) /\ ops \in Seq(Ops)
  OBVIOUS
<1> HIDE DEF all, ops
<1>3. all = ops
  BY <1>1, <1>2, SeqEqual
<1> QED
  BY <1>3 DEF all, ops

\* Where the code's lists reset the positions.
LEMMA ListsUnbegun ==
  ASSUME NEW ch \in Channels
  PROVE  /\ Unbegun(SetChannelOps(ch)) /\ ~StoresOnce(SetChannelOps(ch), "on")
         /\ Unbegun(RequestOps("start_fixed", ch))
         /\ Unbegun(RequestOps("off", ch))
         /\ Unbegun(RequestOps("start_follow", ch))
         /\ ~StoresOnce(RequestOps("start_follow", ch), "on")
         /\ \A k \in {"storeW", "storeR"} : Stores(RequestOps("start_follow", ch), k) = 0
         /\ Unbegun(RequestOps("follow_data", CHANNEL_START))
         /\ \A k \in {"storeW", "storeR"} :
              Stores(RequestOps("follow_data", CHANNEL_START), k) <= 1
<1> HIDE DEF S, r, w
<1> DEFINE Pick(name) == [do |-> name, ch |-> ch]
           channel == << Access("loadW1"), Access("loadW2"), Access("storeW"),
                         Access("loadR1"), Access("loadR2"), Access("storeR"),
                         Pick("current"), Pick("tune"),
                         Access("loadW1"), Access("loadW2"), Access("storeW"),
                         Access("loadR1"), Access("loadR2"), Access("storeR") >>
           off == << Select("current"), Access("off"),
                     Access("loadW1"), Access("loadW2"), Access("storeW"),
                     Access("loadR1"), Access("loadR2"), Access("storeR"),
                     Access("init") >>
<1>1. {Access("loadW1"), Access("loadW2"), Access("storeW"), Access("loadR1"),
       Access("loadR2"), Access("storeR"), Access("on"), Access("off"), Access("init"),
       Select("current"), Select("tune"), Pick("current"), Pick("tune")} \subseteq Ops
  BY ChannelAssumption DEF Access, Select, Ops
<1>2. SetChannelOps(ch) = channel
  <2>1. SetChannelOps(ch) =
          (<<Access("loadW1"), Access("loadW2"), Access("storeW"),
             Access("loadR1"), Access("loadR2"), Access("storeR")>>
             \o <<Pick("current"), Pick("tune")>>)
            \o <<Access("loadW1"), Access("loadW2"), Access("storeW"),
                 Access("loadR1"), Access("loadR2"), Access("storeR")>>
    BY DEF SetChannelOps, ResetCounterOps, Access
  <2> QED
    BY <1>1, <2>1, ChannelPieces
<1>3. RequestOps("off", ch) = off
  <2>1. RequestOps("off", ch) =
          (<<Select("current"), Access("off")>>
             \o <<Access("loadW1"), Access("loadW2"), Access("storeW"),
                  Access("loadR1"), Access("loadR2"), Access("storeR")>>)
            \o <<Access("init")>>
    BY DEF RequestOps, ResetCounterOps, Access, Select
  <2> QED
    BY <1>1, <2>1, OffPieces
<1>4. ResetsAt(channel, 0, 8)
  BY <1>1 DEF ResetsAt, Access
<1>5. ResetsAt(off, 2, 2)
  BY <1>1 DEF ResetsAt, Access, Select
<1>6. ResetsAt(FixedOps, 1, 9)
  <2>1. FixedOps \in Seq(Ops) /\ Len(FixedOps) = 16 /\ DOMAIN FixedOps = 1 .. 16
    BY OpsAre
  <2>2. \A i \in 1 .. 16 :
          /\ FixedOps[i].do = "loadW1" <=> i \in {1 + 1, 9 + 1}
          /\ FixedOps[i].do = "loadW2" <=> i \in {1 + 2, 9 + 2}
          /\ FixedOps[i].do = "storeW" <=> i \in {1 + 3, 9 + 3}
    BY DEF FixedOps, Access, Select
  <2>3. \A i \in 1 .. 16 :
          /\ FixedOps[i].do = "loadR1" <=> i \in {1 + 4, 9 + 4}
          /\ FixedOps[i].do = "loadR2" <=> i \in {1 + 5, 9 + 5}
          /\ FixedOps[i].do = "storeR" <=> i \in {1 + 6, 9 + 6}
          /\ FixedOps[i].do = "on" => i > 9 + 6
    BY DEF FixedOps, Access, Select
  <2> HIDE DEF Ops
  <2> QED
    BY <2>1, <2>2, <2>3 DEF ResetsAt
<1>7. ResetsAt(FollowOps, 0, 0)
  BY OpsAre DEF ResetsAt, FollowOps, Access, Select
<1>8. ~StoresOnce(channel, "on")
  BY DEF StoresOnce, Access
<1>9. RequestOps("start_follow", ch) = <<Select("current")>>
  BY OpsAre
<1>10. /\ Unbegun(<<Select("current")>>) /\ ~StoresOnce(<<Select("current")>>, "on")
       /\ \A k \in {"storeW", "storeR"} : Stores(<<Select("current")>>, k) = 0
  BY <1>1 DEF Unbegun, Straight, Preceded, AtMostTwice, Stores, StoresOnce, StoresTwice, Select
<1> HIDE DEF channel, off
<1> QED
  BY <1>2, <1>3, <1>4, <1>5, <1>6, <1>7, <1>8, <1>9, <1>10, OpsAre, ResetsUnbegun
-----------------------------------------------------------------------------
(* How far the read position can fall behind *)

\* Laps, for a product the provers need not open.
Lap(k) == S * k

LEMMA LapIs ==
  /\ \A k \in Int : Lap(k) \in Int /\ Lap(k + 1) = Lap(k) + S
  /\ \A k, l \in Int : k <= l => Lap(k) <= Lap(l)
  /\ Lap(0) = 0 /\ Lap(2) = S + S
<1>1. S \in Nat \ {0}
  BY SizePositive DEF S
<1>2. \A k \in Int : Lap(k) \in Int /\ Lap(k + 1) = Lap(k) + S
  BY <1>1 DEF Lap
<1>3. ASSUME NEW k \in Int, NEW l \in Int, k <= l PROVE Lap(k) <= Lap(l)
  <2>1. l - k \in Nat /\ S * (l - k) \in Nat
    BY <1>1, <1>3
  <2>2. S * l = S * k + S * (l - k)
    BY <1>1
  <2>3. S * k \in Int /\ S * l \in Int
    BY <1>1
  <2> QED
    BY <2>1, <2>2, <2>3 DEF Lap
<1>4. Lap(0) = 0 /\ Lap(2) = S + S
  BY <1>1 DEF Lap
<1> QED
  BY <1>2, <1>3, <1>4

\* A skip adds at most a lap to one of the two loads.
LEMMA SkipIs ==
  ASSUME NEW g \in [a : Nat, b : Nat], NEW v \in SkipValues(g)
  PROVE  /\ v \in Nat
         /\ \/ g.a <= v /\ v <= g.a + S
            \/ g.b <= v /\ v <= g.b + S
<1>1. ASSUME NEW p \in Nat PROVE ToNextLap(p) \in Nat /\ ToNextLap(p) <= S
  <2>1. SAMPLE_BUFFER_SIZE \in Nat /\ p % SAMPLE_BUFFER_SIZE \in Slots
    BY SizePositive, LapAndOffset
  <2> QED
    BY <2>1 DEF ToNextLap, Slots, S
<1>2. S \in Nat /\ g.a \in Nat /\ g.b \in Nat
  BY SizePositive DEF S
<1> QED
  BY <1>1, <1>2 DEF SkipValues

\* The stores of each position that the requests made so far still have to make;
\* a follow request that waits for its DATA stage has one of each to come.
Waiting == IF follow_pending THEN 1 ELSE 0
StoresW == Stores(todo["main"], "storeW") + Stores(todo["usb"], "storeW") + Waiting
StoresR == Stores(todo["main"], "storeR") + Stores(todo["usb"], "storeR") + Waiting

\* The values of a position that a context may still compute the next one from.
WriteHeld(c, x) == \/ (\E k \in {"loadW2", "storeW"} : NextIs(todo[c], k)) /\ x = reg[c].a
                   \/ NextIs(todo[c], "storeW") /\ x = reg[c].b
ReadHeld(c, y) == \/ (\E k \in {"loadR2", "storeR"} : NextIs(todo[c], k)) /\ y = reg[c].a
                  \/ NextIs(todo[c], "storeR") /\ y = reg[c].b
MainHolds(y) == \/ ReadHeld("main", y)
                \/ pc \in {"store", "skip2", "skip3"} /\ y = reg["main"].a
                \/ pc = "skip3" /\ y = reg["main"].b
Written(x) == x = w \/ WriteHeld("main", x) \/ WriteHeld("usb", x)
ReadFrom(y) == y = r \/ MainHolds(y) \/ ReadHeld("usb", y)

\* What the contexts have left to execute, and when.
Code ==
  /\ streaming => transceiver_mode = "BTLE"
  /\ todo["usb"] # <<>> \/ follow_pending => resets >= 1
  /\ todo["main"] # <<>> => pc \in {"hopped", "loop"}
  /\ follow_pending => ~StoresOnce(todo["usb"], "on")
  /\ Straight(todo["main"]) /\ Straight(todo["usb"])

\* The first request's two resets are over before the interrupt is enabled or
\* main is in an iteration.
Paid ==
  transceiver_mode = "BTLE" \/ pc # "loop" \/ todo["main"] # <<>> =>
    StoresR <= 2 * (resets - 1)

\* Nothing moves the read position while a request resets it.
UsbReads == \A y \in Nat : ReadHeld("usb", y) => y = r

\* A request moves the read position at most two laps past a value main holds.
MainBehind == \A y \in Nat : MainHolds(y) => r - y <= Lap(2 * (resets - 1) - StoresR)

\* Every value the write position may be computed from is at most two laps for
\* each request, less one for each reset of it to come, past every value the
\* read position may be computed from.
WritesAhead ==
  \A x, y \in Nat : Written(x) /\ ReadFrom(y) => x - y <= Lap(2 * resets - StoresW)

LagInv == Code /\ Paid /\ UsbReads /\ MainBehind /\ WritesAhead
LagIInv == IInv /\ LagInv

LEMMA Counts ==
  ASSUME TypeOK, Code
  PROVE  /\ StoresW \in Nat /\ StoresR \in Nat /\ StoresW <= StoresR
         /\ resets \in Nat /\ Waiting \in {0, 1}
<1>1. ASSUME NEW c \in {"main", "usb"}
      PROVE  /\ Stores(todo[c], "storeW") \in Nat /\ Stores(todo[c], "storeR") \in Nat
             /\ Stores(todo[c], "storeW") <= Stores(todo[c], "storeR")
  <2>1. todo[c] \in Seq(Ops) /\ Straight(todo[c])
    BY Typed DEF Code
  <2>2. Stores(todo[c], "storeW") <= Stores(todo[c], "storeR")
    BY <2>1, StoresOrder
  <2>3. \A k : Stores(todo[c], k) \in 0 .. 2
    BY StoresTyped
  <2> QED
    BY <2>2, <2>3
<1>2. Waiting \in {0, 1}
  BY DEF Waiting
<1>3. resets \in Nat
  BY Typed
<1>4. /\ Stores(todo["main"], "storeW") \in Nat /\ Stores(todo["main"], "storeR") \in Nat
      /\ Stores(todo["main"], "storeW") <= Stores(todo["main"], "storeR")
  BY <1>1
<1>5. /\ Stores(todo["usb"], "storeW") \in Nat /\ Stores(todo["usb"], "storeR") \in Nat
      /\ Stores(todo["usb"], "storeW") <= Stores(todo["usb"], "storeR")
  BY <1>1
<1> QED
  BY <1>2, <1>3, <1>4, <1>5 DEF StoresW, StoresR

\* WritesAhead survives a step that moves the values read from only forward, the
\* written ones by at most d, and the bound by d.
LEMMA StaysAhead ==
  ASSUME WritesAhead, TypeOK, NEW d \in Nat, NEW m \in Int,
         \A x \in Nat : Written(x)' => \E p \in Nat : Written(p) /\ x <= p + d,
         \A y \in Nat : ReadFrom(y)' => \E q \in Nat : ReadFrom(q) /\ q <= y,
         StoresW \in Nat, m = Lap(2 * resets' - StoresW'),
         Lap(2 * resets - StoresW) + d <= m
  PROVE  WritesAhead'
<1> SUFFICES ASSUME NEW x \in Nat, NEW y \in Nat, Written(x)', ReadFrom(y)'
             PROVE  x - y <= m
  BY DEF WritesAhead, Lap
<1>1. PICK p \in Nat : Written(p) /\ x <= p + d
  OBVIOUS
<1>2. PICK q \in Nat : ReadFrom(q) /\ q <= y
  OBVIOUS
<1>3. p - q <= Lap(2 * resets - StoresW)
  BY <1>1, <1>2 DEF WritesAhead
<1>4. Lap(2 * resets - StoresW) \in Int
  <2>1. resets \in Nat
    BY Typed
  <2>2. 2 * resets - StoresW \in Int
    BY <2>1
  <2> QED
    BY <2>2, LapIs
<1> QED
  BY <1>1, <1>2, <1>3, <1>4
-----------------------------------------------------------------------------
(* One access *)

Loads == {"loadW1", "loadW2", "loadR1", "loadR2"}
Settings == {"current", "tune", "retune", "on", "off", "init"}

LEMMA AccessIs ==
  ASSUME TypeOK, NEW c \in {"main", "usb"}, Execute(c)
  PROVE  LET do == Head(todo[c]).do
         IN  /\ do \in Loads \cup Settings \cup {"storeW", "storeR"}
             /\ todo[c] # <<>> /\ todo' = [todo EXCEPT ![c] = Tail(todo[c])]
             /\ c = "main" => todo["usb"] = <<>>
             /\ UNCHANGED <<pc, resets, follow_pending>>
             /\ do = "loadW1" => UNCHANGED <<r, w>> /\ reg' = [reg EXCEPT ![c].a = w]
             /\ do = "loadW2" => UNCHANGED <<r, w>> /\ reg' = [reg EXCEPT ![c].b = w]
             /\ do = "loadR1" => UNCHANGED <<r, w>> /\ reg' = [reg EXCEPT ![c].a = r]
             /\ do = "loadR2" => UNCHANGED <<r, w>> /\ reg' = [reg EXCEPT ![c].b = r]
             /\ do = "storeW" => UNCHANGED <<r, reg>> /\ w' \in SkipValues(reg[c])
             /\ do = "storeR" => UNCHANGED <<w, reg>> /\ r' \in SkipValues(reg[c])
             /\ do \in Settings => UNCHANGED <<r, w, reg>>
             /\ do \notin {"on", "off"} => UNCHANGED <<streaming, transceiver_mode>>
             /\ do = "off" => streaming' = FALSE /\ transceiver_mode' = "OFF"
             /\ do = "on" => transceiver_mode' = "BTLE"
<1> DEFINE op == Head(todo[c])
<1>1. todo[c] \in Seq(Ops) /\ todo[c] # <<>>
  BY Typed DEF Execute
<1>2. op.do \in Loads \cup Settings \cup {"storeW", "storeR"}
  <2>1. op \in Ops
    BY <1>1, HeadTailProperties
  <2> QED
    BY <2>1 DEF Ops, Loads, Settings
<1>3. /\ todo' = [todo EXCEPT ![c] = Tail(todo[c])] /\ UNCHANGED <<pc, resets>>
      /\ c = "main" => todo["usb"] = <<>>
  BY DEF Execute
<1>4. \/ Load(c, op) \/ StorePos(c, op) \/ SetCurrent(op) \/ Tune(op)
      \/ SetTransferMode(op) \/ InitConfig(op)
  BY DEF Execute
<1> HIDE DEF op
<1>5. CASE Load(c, op)
  BY <1>1, <1>2, <1>3, <1>5 DEF Load, positions, config, op, Loads, Settings, r, w
<1>6. CASE StorePos(c, op)
  BY <1>1, <1>2, <1>3, <1>6 DEF StorePos, config, op, Loads, Settings, r, w
<1>7. CASE SetCurrent(op) \/ Tune(op) \/ InitConfig(op)
  BY <1>1, <1>2, <1>3, <1>7
     DEF SetCurrent, Tune, InitConfig, positions, op, Loads, Settings, r, w
<1>8. CASE SetTransferMode(op)
  BY <1>1, <1>2, <1>3, <1>8 DEF SetTransferMode, positions, op, Loads, Settings, r, w
<1> QED
  BY <1>4, <1>5, <1>6, <1>7, <1>8

\* An access is dropped from its list, and from the stores to come.
LEMMA AccessCounts ==
  ASSUME LagIInv, NEW c \in {"main", "usb"}, Execute(c)
  PROVE  LET do == Head(todo[c]).do
         IN  /\ Straight(todo["main"])' /\ Straight(todo["usb"])'
             /\ StoresW' = StoresW - (IF do = "storeW" THEN 1 ELSE 0)
             /\ StoresR' = StoresR - (IF do = "storeR" THEN 1 ELSE 0)
             /\ StoresOnce(todo["usb"], "on")' => StoresOnce(todo["usb"], "on")
<1> DEFINE s == todo[c]
<1>1. TypeOK /\ Code
  BY DEF LagIInv, LagInv, IInv
<1>2. /\ s \in Seq(Ops) /\ s # <<>> /\ Straight(s) /\ AtMostTwice(s, "storeW")
      /\ AtMostTwice(s, "storeR")
  <2>1. s \in Seq(Ops) /\ s # <<>>
    BY <1>1, Typed DEF Execute
  <2>2. Straight(s)
    BY <1>1 DEF Code
  <2> QED
    BY <2>1, <2>2 DEF Straight
<1>3. todo' = [todo EXCEPT ![c] = Tail(s)] /\ follow_pending' = follow_pending
      /\ todo \in [{"main", "usb"} -> Seq(Ops)]
  BY <1>1, AccessIs, Typed
<1>4. todo'[c] = Tail(s) /\ \A e \in {"main", "usb"} : e # c => todo'[e] = todo[e]
  BY <1>3
<1> HIDE DEF s
<1>5. Straight(Tail(s))
  BY <1>2, StraightTail
<1>6. /\ Stores(Tail(s), "storeW") = Stores(s, "storeW") - (IF Head(s).do = "storeW" THEN 1 ELSE 0)
      /\ Stores(Tail(s), "storeR") = Stores(s, "storeR") - (IF Head(s).do = "storeR" THEN 1 ELSE 0)
  BY <1>2, StoresTail
<1>7. StoresOnce(Tail(s), "on") => StoresOnce(s, "on")
  <2> SUFFICES ASSUME NEW i \in DOMAIN Tail(s), Tail(s)[i].do = "on"
               PROVE  StoresOnce(s, "on")
    BY DEF StoresOnce
  <2>1. i + 1 \in DOMAIN s /\ s[i + 1].do = "on"
    BY <1>2, TailIs
  <2> QED
    BY <2>1 DEF StoresOnce
<1>8. Straight(todo'["main"]) /\ Straight(todo'["usb"])
  BY <1>1, <1>4, <1>5 DEF Code
<1>9. \A e \in {"main", "usb"}, k \in {"storeW", "storeR"} :
        /\ Stores(todo[e], k) \in Int
        /\ Stores(todo'[e], k) = Stores(todo[e], k)
             - (IF e = c /\ Head(s).do = k THEN 1 ELSE 0)
  <2>1. \A e \in {"main", "usb"}, k \in {"storeW", "storeR"} : Stores(todo[e], k) \in Int
    BY StoresTyped
  <2> QED
    BY <1>4, <1>6, <2>1 DEF s
<1>10. Waiting' = Waiting /\ Waiting \in Int
  BY <1>3 DEF Waiting
<1>11. /\ StoresW' = StoresW - (IF Head(s).do = "storeW" THEN 1 ELSE 0)
       /\ StoresR' = StoresR - (IF Head(s).do = "storeR" THEN 1 ELSE 0)
  <2> DEFINE one(e, k) == IF e = c /\ Head(s).do = k THEN 1 ELSE 0
  <2>1. \A k \in {"storeW", "storeR"} :
          one("main", k) + one("usb", k) = (IF Head(s).do = k THEN 1 ELSE 0)
    OBVIOUS
  <2>2. \A e \in {"main", "usb"}, k \in {"storeW", "storeR"} :
          one(e, k) \in Int /\ Stores(todo'[e], k) = Stores(todo[e], k) - one(e, k)
    BY <1>9
  <2> HIDE DEF one
  <2> QED
    BY <1>9, <1>10, <2>1, <2>2 DEF StoresW, StoresR
<1>12. StoresOnce(todo'["usb"], "on") => StoresOnce(todo["usb"], "on")
  BY <1>4, <1>7 DEF s
<1> QED
  BY <1>8, <1>11, <1>12 DEF s, Straight, StoresOnce

\* After an access a context holds what it held before, or the position it has
\* just loaded; after any access that is not a load it holds nothing.
LEMMA AccessHolds ==
  ASSUME LagIInv, NEW c \in {"main", "usb"}, Execute(c), NEW x \in Nat
  PROVE  LET do == Head(todo[c]).do
         IN  /\ WriteHeld(c, x)' => do \in {"loadW1", "loadW2"} /\ (x = w \/ WriteHeld(c, x))
             /\ ReadHeld(c, x)' => do \in {"loadR1", "loadR2"} /\ (x = r \/ ReadHeld(c, x))
<1> DEFINE s == todo[c]
           do == Head(s).do
<1>1. TypeOK /\ Code
  BY DEF LagIInv, LagInv, IInv
<1>2. s \in Seq(Ops) /\ s # <<>> /\ Straight(s)
  <2>1. s \in Seq(Ops) /\ s # <<>>
    BY <1>1, Typed DEF Execute
  <2> QED
    BY <1>1, <2>1 DEF Code
<1>3. todo'[c] = Tail(s) /\ reg \in [{"main", "usb"} -> [a : Nat, b : Nat]]
  <2>1. todo' = [todo EXCEPT ![c] = Tail(s)]
    BY <1>1, AccessIs
  <2> QED
    BY <1>1, <2>1, Typed
<1>4. /\ do = "loadW1" => reg'[c].a = w
      /\ do = "loadW2" => reg'[c].b = w /\ reg'[c].a = reg[c].a
      /\ do = "loadR1" => reg'[c].a = r
      /\ do = "loadR2" => reg'[c].b = r /\ reg'[c].a = reg[c].a
  <2>1. /\ do = "loadW1" => reg' = [reg EXCEPT ![c].a = w]
        /\ do = "loadW2" => reg' = [reg EXCEPT ![c].b = w]
        /\ do = "loadR1" => reg' = [reg EXCEPT ![c].a = r]
        /\ do = "loadR2" => reg' = [reg EXCEPT ![c].b = r]
    BY <1>1, AccessIs
  <2> QED
    BY <1>3, <2>1
<1>5. /\ NextIs(Tail(s), "loadW2") => do = "loadW1"
      /\ NextIs(Tail(s), "storeW") => do = "loadW2"
      /\ NextIs(Tail(s), "loadR2") => do = "loadR1"
      /\ NextIs(Tail(s), "storeR") => do = "loadR2"
  BY <1>2, NextAfter
<1>6. /\ NextIs(todo'[c], "loadW2") => do = "loadW1"
      /\ NextIs(todo'[c], "storeW") => do = "loadW2"
      /\ NextIs(todo'[c], "loadR2") => do = "loadR1"
      /\ NextIs(todo'[c], "storeR") => do = "loadR2"
  BY <1>3, <1>5
<1>7. \A k : NextIs(s, k) <=> do = k
  BY <1>2 DEF NextIs
<1> HIDE DEF s, do
<1>8. ASSUME WriteHeld(c, x)'
      PROVE  do \in {"loadW1", "loadW2"} /\ (x = w \/ WriteHeld(c, x))
  <2>1. \/ (\E k \in {"loadW2", "storeW"} : NextIs(todo'[c], k)) /\ x = reg'[c].a
        \/ NextIs(todo'[c], "storeW") /\ x = reg'[c].b
    BY <1>8 DEF WriteHeld, NextIs
  <2>2. do = "loadW1" \/ do = "loadW2"
    BY <1>6, <2>1
  <2>3. CASE do = "loadW1"
    BY <1>4, <1>6, <2>1, <2>3
  <2>4. CASE do = "loadW2"
    <3>1. x = reg[c].a \/ x = w
      BY <1>4, <2>1, <2>4
    <3>2. x = reg[c].a => WriteHeld(c, x)
      BY <1>7, <2>4 DEF WriteHeld, s
    <3> QED
      BY <2>4, <3>1, <3>2
  <2> QED
    BY <2>2, <2>3, <2>4
<1>9. ASSUME ReadHeld(c, x)'
      PROVE  do \in {"loadR1", "loadR2"} /\ (x = r \/ ReadHeld(c, x))
  <2>1. \/ (\E k \in {"loadR2", "storeR"} : NextIs(todo'[c], k)) /\ x = reg'[c].a
        \/ NextIs(todo'[c], "storeR") /\ x = reg'[c].b
    BY <1>9 DEF ReadHeld, NextIs
  <2>2. do = "loadR1" \/ do = "loadR2"
    BY <1>6, <2>1
  <2>3. CASE do = "loadR1"
    BY <1>4, <1>6, <2>1, <2>3
  <2>4. CASE do = "loadR2"
    <3>1. x = reg[c].a \/ x = r
      BY <1>4, <2>1, <2>4
    <3>2. x = reg[c].a => ReadHeld(c, x)
      BY <1>7, <2>4 DEF ReadHeld, s
    <3> QED
      BY <2>4, <3>1, <3>2
  <2> QED
    BY <2>2, <2>3, <2>4
<1> QED
  BY <1>8, <1>9 DEF s, do

\* An access leaves what the other contexts hold alone.
LEMMA OthersHold ==
  ASSUME TypeOK, NEW c \in {"main", "usb"}, Execute(c),
         NEW e \in {"main", "usb"}, e # c, NEW x \in Nat
  PROVE  /\ WriteHeld(e, x)' <=> WriteHeld(e, x)
         /\ ReadHeld(e, x)' <=> ReadHeld(e, x)
         /\ e = "main" => (MainHolds(x)' <=> MainHolds(x))
<1>1. /\ todo' = [todo EXCEPT ![c] = Tail(todo[c])] /\ pc' = pc
      /\ \/ reg' = [reg EXCEPT ![c].a = w] \/ reg' = [reg EXCEPT ![c].b = w]
         \/ reg' = [reg EXCEPT ![c].a = r] \/ reg' = [reg EXCEPT ![c].b = r]
         \/ reg' = reg
  BY AccessIs DEF Loads
<1>2. todo'[e] = todo[e] /\ reg'[e] = reg[e]
  BY <1>1, Typed
<1>3. /\ WriteHeld(e, x)' <=> WriteHeld(e, x)
      /\ ReadHeld(e, x)' <=> ReadHeld(e, x)
  BY <1>2 DEF WriteHeld, ReadHeld, NextIs
<1>4. e = "main" => (MainHolds(x)' <=> MainHolds(x))
  BY <1>1, <1>2, <1>3 DEF MainHolds
<1> QED
  BY <1>3, <1>4

LEMMA ExecuteCode ==
  ASSUME LagIInv, NEW c \in {"main", "usb"}, Execute(c)
  PROVE  Code' /\ Paid'
<1> DEFINE do == Head(todo[c]).do
<1>1. TypeOK /\ Code /\ Paid
  BY DEF LagIInv, LagInv, IInv
<1>2. /\ UNCHANGED <<pc, resets, follow_pending>> /\ todo[c] # <<>>
      /\ todo' = [todo EXCEPT ![c] = Tail(todo[c])]
      /\ c = "main" => todo["usb"] = <<>>
      /\ do \notin {"on", "off"} => UNCHANGED <<streaming, transceiver_mode>>
      /\ do = "off" => streaming' = FALSE /\ transceiver_mode' = "OFF"
      /\ do = "on" => transceiver_mode' = "BTLE"
  BY <1>1, AccessIs
<1>3. /\ \A e \in {"main", "usb"} : e # c => todo'[e] = todo[e]
      /\ \A e \in {"main", "usb"} : todo'[e] # <<>> => todo[e] # <<>>
  BY <1>1, <1>2, Typed
<1>4. /\ Straight(todo["main"])' /\ Straight(todo["usb"])'
      /\ StoresR' = StoresR - (IF do = "storeR" THEN 1 ELSE 0)
      /\ StoresOnce(todo["usb"], "on")' => StoresOnce(todo["usb"], "on")
  BY AccessCounts
<1>5. StoresR \in Nat /\ resets \in Nat
  BY <1>1, Counts
<1> HIDE DEF do
<1>6. StoresR' <= StoresR /\ StoresR' \in Int
  BY <1>4, <1>5
<1>7. streaming' => transceiver_mode' = "BTLE"
  BY <1>1, <1>2 DEF Code
<1>8. follow_pending' => ~StoresOnce(todo["usb"], "on")'
  BY <1>1, <1>2, <1>4 DEF Code
<1>9. todo'["usb"] # <<>> \/ follow_pending' => resets' >= 1
  BY <1>1, <1>2, <1>3 DEF Code
<1>10. todo'["main"] # <<>> => pc' \in {"hopped", "loop"}
  BY <1>1, <1>2, <1>3 DEF Code
<1>11. Code'
  BY <1>4, <1>7, <1>8, <1>9, <1>10 DEF Code
<1>12. Paid'
  <2>1. CASE transceiver_mode = "BTLE" \/ pc # "loop" \/ todo["main"] # <<>>
    <3>1. StoresR <= 2 * (resets - 1)
      BY <1>1, <2>1 DEF Paid
    <3>2. StoresR' <= 2 * (resets' - 1)
      BY <1>2, <1>5, <1>6, <3>1
    <3> QED
      BY <3>2 DEF Paid
  <2>2. CASE ~(transceiver_mode = "BTLE" \/ pc # "loop" \/ todo["main"] # <<>>)
    <3>1. c = "usb" /\ pc' = "loop" /\ todo'["main"] = <<>>
      BY <1>2, <1>3, <2>2
    <3>2. CASE do # "on"
      <4>1. transceiver_mode' # "BTLE"
        BY <1>2, <2>2, <3>2
      <4> QED
        BY <3>1, <4>1 DEF Paid
    <3>3. CASE do = "on"
      <4>1. todo["usb"] \in Seq(Ops) /\ todo["usb"] # <<>> /\ Straight(todo["usb"])
        BY <1>1, <1>2, <3>1, Typed DEF Code
      <4>2. Head(todo["usb"]).do = "on"
        BY <3>1, <3>3 DEF do
      <4>3. Stores(todo["usb"], "storeR") = 0
        BY <4>1, <4>2, StoresOrder
      <4>4. ~follow_pending
        <5>1. StoresOnce(todo["usb"], "on")
          BY <4>1, <4>2, TailIs DEF StoresOnce
        <5> QED
          BY <1>1, <5>1 DEF Code
      <4>5. Stores(todo["main"], "storeR") = 0
        BY <2>2, EmptySeq DEF Stores, StoresOnce, StoresTwice
      <4>6. StoresR = 0
        BY <4>3, <4>4, <4>5 DEF StoresR, Waiting
      <4>7. resets' >= 1
        BY <1>1, <1>2, <4>1 DEF Code
      <4>8. StoresR' <= 2 * (resets' - 1)
        BY <1>2, <1>5, <1>6, <4>6, <4>7
      <4> QED
        BY <4>8 DEF Paid
    <3> QED
      BY <3>2, <3>3
  <2> QED
    BY <2>1, <2>2
<1> QED
  BY <1>11, <1>12

LEMMA ExecuteReads ==
  ASSUME LagIInv, NEW c \in {"main", "usb"}, Execute(c), TypeOK'
  PROVE  UsbReads' /\ MainBehind'
<1> DEFINE do == Head(todo[c]).do
           left == 2 * (resets - 1) - StoresR
<1>1. TypeOK /\ Code /\ Paid /\ UsbReads /\ MainBehind
  BY DEF LagIInv, LagInv, IInv
<1>2. /\ UNCHANGED <<pc, resets>> /\ todo[c] # <<>>
      /\ c = "main" => todo["usb"] = <<>>
      /\ do = "storeR" => r' \in SkipValues(reg[c])
      /\ do # "storeR" => r' = r
  BY <1>1, AccessIs DEF Loads, Settings
<1>3. /\ StoresR' = StoresR - (IF do = "storeR" THEN 1 ELSE 0)
      /\ StoresR \in Nat /\ resets \in Nat /\ r \in Nat /\ r' \in Nat /\ left \in Int
      /\ S \in Nat
  <2>1. StoresR' = StoresR - (IF do = "storeR" THEN 1 ELSE 0)
    BY AccessCounts
  <2>2. StoresR \in Nat /\ resets \in Nat
    BY <1>1, Counts
  <2>3. r \in Nat /\ r' \in Nat /\ S \in Nat
    BY <1>1, Typed DEF TypeOK, r
  <2> QED
    BY <2>1, <2>2, <2>3
<1>4. (2 * (resets - 1) - StoresR)' = left + (IF do = "storeR" THEN 1 ELSE 0)
  BY <1>2, <1>3
<1> HIDE DEF do, left
<1>5. ASSUME NEW y \in Nat, ReadHeld("usb", y)' PROVE y = r'
  <2>1. CASE c = "usb"
    <3>1. do \in {"loadR1", "loadR2"} /\ (y = r \/ ReadHeld("usb", y))
      BY <1>5, <2>1, AccessHolds DEF do
    <3> QED
      BY <1>1, <1>2, <3>1 DEF UsbReads
  <2>2. CASE c = "main"
    <3>1. ReadHeld("usb", y)
      BY <1>1, <1>5, <2>2, OthersHold
    <3> QED
      BY <1>2, <2>2, <3>1 DEF ReadHeld, NextIs
  <2> QED
    BY <2>1, <2>2
<1>6. ASSUME NEW y \in Nat, MainHolds(y)'
      PROVE  r' - y <= Lap(left + (IF do = "storeR" THEN 1 ELSE 0))
  <2>1. CASE c = "main"
    <3>1. pc' \in {"hopped", "loop"}
      BY <1>1, <1>2, <2>1 DEF Code
    <3>2. ReadHeld("main", y)'
      BY <1>6, <3>1 DEF MainHolds
    <3>3. do \in {"loadR1", "loadR2"} /\ (y = r \/ ReadHeld("main", y))
      BY <2>1, <3>2, AccessHolds DEF do
    <3>4. r - y <= Lap(left)
      <4>1. CASE y = r
        <5>1. 0 <= left
          BY <1>1, <1>2, <1>3, <2>1 DEF Paid, left
        <5>2. 0 <= Lap(left)
          BY <1>3, <5>1, LapIs
        <5> QED
          BY <1>3, <4>1, <5>2
      <4>2. CASE ReadHeld("main", y)
        <5>1. MainHolds(y)
          BY <4>2 DEF MainHolds
        <5> QED
          BY <1>1, <5>1 DEF MainBehind, left
      <4> QED
        BY <3>3, <4>1, <4>2
    <3>5. left + (IF do = "storeR" THEN 1 ELSE 0) = left /\ r' = r
      BY <1>2, <1>3, <3>3
    <3> QED
      BY <3>4, <3>5
  <2>2. CASE c = "usb"
    <3>1. MainHolds(y)
      BY <1>1, <1>6, <2>2, OthersHold
    <3>2. r - y <= Lap(left) /\ Lap(left) \in Int /\ Lap(left + 1) = Lap(left) + S
      BY <1>1, <1>3, <3>1, LapIs DEF MainBehind, left
    <3>3. CASE do = "storeR"
      <4>1. reg["usb"] \in [a : Nat, b : Nat]
        BY <1>1, Typed
      <4>2. NextIs(todo["usb"], "storeR")
        BY <1>2, <2>2, <3>3 DEF NextIs, do
      <4>3. reg["usb"].a = r /\ reg["usb"].b = r
        BY <1>1, <4>1, <4>2 DEF UsbReads, ReadHeld
      <4>4. r' <= r + S
        BY <1>2, <2>2, <3>3, <4>1, <4>3, SkipIs
      <4>5. r' - y <= Lap(left + 1)
        BY <1>3, <3>2, <4>4
      <4> QED
        BY <3>3, <4>5
    <3>4. CASE do # "storeR"
      <4>1. left + (IF do = "storeR" THEN 1 ELSE 0) = left /\ r' = r
        BY <1>2, <1>3, <3>4
      <4> QED
        BY <3>2, <4>1
    <3> QED
      BY <3>3, <3>4
  <2> QED
    BY <2>1, <2>2
<1>7. UsbReads'
  BY <1>5 DEF UsbReads
<1>8. MainBehind'
  <2> SUFFICES ASSUME NEW y \in Nat, MainHolds(y)'
               PROVE  r' - y <= Lap(2 * (resets - 1) - StoresR)'
    BY DEF MainBehind
  <2>1. Lap(2 * (resets - 1) - StoresR)' = Lap(left + (IF do = "storeR" THEN 1 ELSE 0))
    BY <1>4 DEF Lap, S
  <2> QED
    BY <1>6, <2>1
<1> QED
  BY <1>7, <1>8

LEMMA ExecuteWrites ==
  ASSUME LagIInv, NEW c \in {"main", "usb"}, Execute(c), TypeOK'
  PROVE  WritesAhead'
<1> DEFINE do == Head(todo[c]).do
           left == 2 * resets - StoresW
           one == IF do = "storeW" THEN 1 ELSE 0
           d == IF do = "storeW" THEN S ELSE 0
<1>1. TypeOK /\ Code /\ WritesAhead
  BY DEF LagIInv, LagInv, IInv
<1>2. /\ UNCHANGED <<pc, resets>> /\ todo[c] # <<>>
      /\ do = "storeW" => w' \in SkipValues(reg[c])
      /\ do = "storeR" => r' \in SkipValues(reg[c])
      /\ do # "storeW" => w' = w
      /\ do # "storeR" => r' = r
  BY <1>1, AccessIs DEF Loads, Settings
<1>3. StoresW' = StoresW - one /\ StoresW \in Nat /\ resets \in Nat /\ left \in Int
      /\ S \in Nat /\ d \in Nat /\ r \in Nat /\ w \in Nat
  <2>1. StoresW' = StoresW - one
    BY AccessCounts
  <2>2. StoresW \in Nat /\ resets \in Nat
    BY <1>1, Counts
  <2>3. S \in Nat /\ r \in Nat /\ w \in Nat
    BY <1>1, Typed
  <2> QED
    BY <2>1, <2>2, <2>3
<1>4. reg[c] \in [a : Nat, b : Nat]
  BY <1>1, Typed
<1>5. \A k : do = k => NextIs(todo[c], k)
  BY <1>2 DEF NextIs
<1>6. 2 * resets' - StoresW' = left + one
  BY <1>2, <1>3
<1> HIDE DEF do, left
<1>7. ASSUME NEW x \in Nat, Written(x)' PROVE \E p \in Nat : Written(p) /\ x <= p + d
  <2>1. ASSUME Written(x) PROVE \E p \in Nat : Written(p) /\ x <= p + d
    <3>1. x <= x + d
      BY <1>3
    <3> QED
      BY <2>1, <3>1
  <2>2. CASE x = w'
    <3>1. CASE do # "storeW"
      <4>1. Written(x)
        BY <1>2, <2>2, <3>1 DEF Written
      <4> QED
        BY <2>1, <4>1
    <3>2. CASE do = "storeW"
      <4>1. \/ w' <= reg[c].a + S
            \/ w' <= reg[c].b + S
        BY <1>2, <1>4, <3>2, SkipIs
      <4>2. WriteHeld(c, reg[c].a) /\ WriteHeld(c, reg[c].b)
        BY <1>5, <3>2 DEF WriteHeld
      <4>3. Written(reg[c].a) /\ Written(reg[c].b)
        BY <4>2 DEF Written
      <4>4. d = S
        BY <3>2
      <4> QED
        BY <1>4, <2>2, <4>1, <4>3, <4>4
    <3> QED
      BY <3>1, <3>2
  <2>3. CASE WriteHeld(c, x)'
    <3>1. x = w \/ WriteHeld(c, x)
      BY <2>3, AccessHolds
    <3>2. Written(x)
      BY <3>1 DEF Written
    <3> QED
      BY <2>1, <3>2
  <2>4. ASSUME NEW e \in {"main", "usb"}, e # c, WriteHeld(e, x)'
        PROVE  \E p \in Nat : Written(p) /\ x <= p + d
    <3>1. WriteHeld(e, x)
      BY <1>1, <2>4, OthersHold
    <3>2. Written(x)
      BY <3>1 DEF Written
    <3> QED
      BY <2>1, <3>2
  <2>5. x = w' \/ WriteHeld("main", x)' \/ WriteHeld("usb", x)'
    BY <1>7 DEF Written
  <2> QED
    BY <2>2, <2>3, <2>4, <2>5
<1>8. ASSUME NEW y \in Nat, ReadFrom(y)' PROVE \E q \in Nat : ReadFrom(q) /\ q <= y
  <2>1. ASSUME ReadFrom(y) PROVE \E q \in Nat : ReadFrom(q) /\ q <= y
    BY <2>1
  <2>2. CASE y = r'
    <3>1. CASE do # "storeR"
      <4>1. ReadFrom(y)
        BY <1>2, <2>2, <3>1 DEF ReadFrom
      <4> QED
        BY <2>1, <4>1
    <3>2. CASE do = "storeR"
      <4>1. \/ reg[c].a <= r'
            \/ reg[c].b <= r'
        BY <1>2, <1>4, <3>2, SkipIs
      <4>2. ReadHeld(c, reg[c].a) /\ ReadHeld(c, reg[c].b)
        BY <1>5, <3>2 DEF ReadHeld
      <4>3. ReadFrom(reg[c].a) /\ ReadFrom(reg[c].b)
        BY <4>2 DEF ReadFrom, MainHolds
      <4> QED
        BY <1>4, <2>2, <4>1, <4>3
    <3> QED
      BY <3>1, <3>2
  <2>3. CASE ReadHeld(c, y)'
    <3>1. y = r \/ ReadHeld(c, y)
      BY <2>3, AccessHolds
    <3>2. ReadFrom(y)
      BY <3>1 DEF ReadFrom, MainHolds
    <3> QED
      BY <2>1, <3>2
  <2>4. CASE c = "main" /\ ReadHeld("usb", y)'
    <3>1. ReadHeld("usb", y)
      BY <1>1, <2>4, OthersHold
    <3>2. ReadFrom(y)
      BY <3>1 DEF ReadFrom
    <3> QED
      BY <2>1, <3>2
  <2>5. CASE c = "usb" /\ MainHolds(y)'
    <3>1. MainHolds(y)
      BY <1>1, <2>5, OthersHold
    <3>2. ReadFrom(y)
      BY <3>1 DEF ReadFrom
    <3> QED
      BY <2>1, <3>2
  <2>6. c = "main" /\ MainHolds(y)' => ReadHeld("main", y)'
    <3>1. c = "main" => pc' \in {"hopped", "loop"}
      BY <1>1, <1>2 DEF Code
    <3> QED
      BY <3>1 DEF MainHolds
  <2>7. y = r' \/ MainHolds(y)' \/ ReadHeld("usb", y)'
    BY <1>8 DEF ReadFrom
  <2> QED
    BY <2>2, <2>3, <2>4, <2>5, <2>6, <2>7
<1>9. Lap(left) + d <= Lap(left + one) /\ Lap(left + one) \in Int
  <2>1. left \in Int /\ S \in Nat
    BY <1>3
  <2>2. Lap(left) \in Int /\ Lap(left + 1) = Lap(left) + S
    BY <2>1, LapIs
  <2>3. left + 0 = left
    BY <2>1
  <2> QED
    BY <2>1, <2>2, <2>3
<1>10. Lap(left + one) = Lap(2 * resets' - StoresW')
  BY <1>6
<1> HIDE DEF d, one
<1>11. Lap(2 * resets - StoresW) + d <= Lap(left + one)
  BY <1>9 DEF left
<1> QED
  BY <1>1, <1>3, <1>7, <1>8, <1>9, <1>10, <1>11, StaysAhead

LEMMA ExecuteLag ==
  ASSUME LagIInv, NEW c \in {"main", "usb"}, Execute(c), TypeOK'
  PROVE  LagInv'
BY ExecuteCode, ExecuteReads, ExecuteWrites DEF LagInv
-----------------------------------------------------------------------------
(* The interrupt *)

LEMMA SameContexts ==
  ASSUME UNCHANGED <<todo, reg, pc, follow_pending>>
  PROVE  /\ StoresW' = StoresW /\ StoresR' = StoresR
         /\ \A c, x : /\ WriteHeld(c, x)' <=> WriteHeld(c, x)
                      /\ ReadHeld(c, x)' <=> ReadHeld(c, x)
         /\ \A y : MainHolds(y)' <=> MainHolds(y)
<1>1. StoresW' = StoresW /\ StoresR' = StoresR
  BY DEF StoresW, StoresR, Waiting, Stores, StoresOnce, StoresTwice
<1>2. \A c, x : /\ WriteHeld(c, x)' <=> WriteHeld(c, x)
                /\ ReadHeld(c, x)' <=> ReadHeld(c, x)
  BY DEF WriteHeld, ReadHeld, NextIs
<1>3. \A y : MainHolds(y)' <=> MainHolds(y)
  BY <1>2 DEF MainHolds
<1> QED
  BY <1>1, <1>2, <1>3

\* The interrupt leaves the write position where it is, or less than two laps
\* past the read position.
LEMMA SgpioMoves ==
  ASSUME TypeOK, TypeOK', SgpioIsr
  PROVE  r' = r /\ (w' = w \/ w' - r <= S + S)
<1>1. /\ S \in Nat \ {0} /\ BLOCK \in Nat \ {0} /\ r \in Nat /\ w \in Nat
      /\ PACKET_SAMPLES_MAX \in Nat /\ PACKET_SAMPLES_MAX + BLOCK < S
  BY Typed
<1>2. r' = r
  BY DEF SgpioIsr, IsrDrop, IsrSignal, IsrNoise, positions, r
<1>3. CASE IsrDrop
  BY <1>2, <1>3 DEF IsrDrop, positions, w
<1>4. CASE IsrSignal
  <2>1. w' = w + BLOCK /\ w - r < S - BLOCK
    BY <1>1, <1>4 DEF IsrSignal, Full, S, r, w
  <2> QED
    BY <1>1, <1>2, <2>1
<1>5. CASE IsrNoise
  <2>1. w - r < S - BLOCK
    BY <1>1, <1>5 DEF IsrNoise, Full, S, r, w
  <2>2. w' = w \/ w' = w + ToNextLap(w)
    BY <1>5 DEF IsrNoise, w
  <2>3. ToNextLap(w) \in Nat /\ ToNextLap(w) <= S
    <3>1. w % S \in Slots /\ S \in Nat
      BY <1>1, LapAndOffset DEF S
    <3> QED
      BY <3>1 DEF ToNextLap, Slots, S
  <2> QED
    BY <1>1, <1>2, <2>1, <2>2, <2>3
<1> QED
  BY <1>3, <1>4, <1>5 DEF SgpioIsr

LEMMA SgpioLag ==
  ASSUME LagIInv, SgpioIsr, TypeOK'
  PROVE  LagInv'
<1>1. TypeOK /\ Code /\ Paid /\ UsbReads /\ MainBehind /\ WritesAhead
  BY DEF LagIInv, LagInv, IInv
<1>2. /\ UNCHANGED <<todo, reg, pc, follow_pending, resets>>
      /\ UNCHANGED <<streaming, transceiver_mode>>
  BY DEF SgpioIsr, contexts, config
<1>3. r' = r /\ (w' = w \/ w' - r <= S + S)
  BY <1>1, SgpioMoves
<1>4. /\ StoresW' = StoresW /\ StoresR' = StoresR
      /\ \A c, x : /\ WriteHeld(c, x)' <=> WriteHeld(c, x)
                   /\ ReadHeld(c, x)' <=> ReadHeld(c, x)
      /\ \A y : MainHolds(y)' <=> MainHolds(y)
  BY <1>2, SameContexts
<1>5. Code' /\ Paid'
  BY <1>1, <1>2, <1>4 DEF Code, Paid, Straight, StoresOnce, Preceded, AtMostTwice
<1>6. UsbReads'
  BY <1>1, <1>3, <1>4 DEF UsbReads
<1>7. MainBehind'
  BY <1>1, <1>2, <1>3, <1>4 DEF MainBehind, Lap, S
<1>8. ASSUME NEW x \in Nat, NEW y \in Nat, Written(x)', ReadFrom(y)'
      PROVE  x - y <= Lap(2 * resets - StoresW)
  <2>1. ReadFrom(y)
    BY <1>3, <1>4, <1>8 DEF ReadFrom
  <2>2. CASE Written(x)
    BY <1>1, <2>1, <2>2 DEF WritesAhead
  <2>3. CASE ~Written(x)
    <3>1. x = w' /\ w' # w
      BY <1>4, <1>8, <2>3 DEF Written
    <3>2. x - r <= S + S
      BY <1>3, <3>1
    <3>3. StoresR <= 2 * (resets - 1)
      <4>1. streaming
        BY DEF SgpioIsr, IsrDrop, IsrSignal, IsrNoise
      <4> QED
        BY <1>1, <4>1 DEF Code, Paid
    <3>4. resets \in Nat /\ StoresR \in Nat /\ StoresW \in Nat /\ StoresW <= StoresR
      BY <1>1, Counts
    <3>5. r \in Nat /\ S \in Nat
      BY <1>1, Typed
    <3>6. y = r \/ r - y <= Lap(2 * (resets - 1) - StoresR)
      BY <1>1, <2>1 DEF ReadFrom, UsbReads, MainBehind
    <3> DEFINE k == 2 * (resets - 1) - StoresR
               m == 2 * resets - StoresW
    <3>7. k \in Int /\ k + 1 \in Int /\ m \in Int /\ 0 <= k /\ (k + 1) + 1 <= m
      BY <3>3, <3>4
    <3> HIDE DEF k, m
    <3>8. /\ Lap(k) \in Int /\ Lap(m) \in Int /\ 0 <= Lap(k)
          /\ Lap((k + 1) + 1) = Lap(k) + S + S /\ Lap((k + 1) + 1) <= Lap(m)
      <4>1. Lap(k) \in Int /\ Lap(m) \in Int /\ Lap(k + 1) = Lap(k) + S
            /\ Lap((k + 1) + 1) = Lap(k + 1) + S
        BY <3>7, LapIs
      <4>2. Lap(0) <= Lap(k) /\ Lap(0) = 0
        BY <3>7, LapIs
      <4>3. Lap((k + 1) + 1) <= Lap(m)
        BY <3>7, LapIs
      <4> QED
        BY <3>5, <4>1, <4>2, <4>3
    <3>9. y = r \/ r - y <= Lap(k)
      BY <3>6 DEF k
    <3>10. x - y <= Lap(m)
      BY <3>2, <3>5, <3>8, <3>9
    <3> QED
      BY <3>10 DEF m
  <2> QED
    BY <2>2, <2>3
<1>9. WritesAhead'
  <2> SUFFICES ASSUME NEW x \in Nat, NEW y \in Nat, Written(x)', ReadFrom(y)'
               PROVE  x - y <= Lap(2 * resets - StoresW)'
    BY DEF WritesAhead
  <2>1. Lap(2 * resets - StoresW)' = Lap(2 * resets - StoresW)
    BY <1>2, <1>4 DEF Lap, S
  <2> QED
    BY <1>8, <2>1
<1> QED
  BY <1>5, <1>6, <1>7, <1>9 DEF LagInv
-----------------------------------------------------------------------------
(* A request or a hop begins *)

LEMMA StoresNext == StoresW' \in Nat /\ StoresR' \in Nat
<1>1. /\ Stores(todo'["main"], "storeW") \in 0 .. 2 /\ Stores(todo'["usb"], "storeW") \in 0 .. 2
      /\ Stores(todo'["main"], "storeR") \in 0 .. 2 /\ Stores(todo'["usb"], "storeR") \in 0 .. 2
  BY StoresTyped
<1>2. Waiting' \in {0, 1}
  BY DEF Waiting
<1>3. /\ StoresW' = Stores(todo'["main"], "storeW") + Stores(todo'["usb"], "storeW") + Waiting'
      /\ StoresR' = Stores(todo'["main"], "storeR") + Stores(todo'["usb"], "storeR") + Waiting'
  BY DEF StoresW, StoresR, Stores, StoresOnce, StoresTwice
<1> QED
  BY <1>1, <1>2, <1>3

LEMMA BoundGrows ==
  ASSUME NEW a \in Nat, NEW b, NEW s \in Nat, NEW t \in Nat, NEW n \in Nat,
         b = a + n, t <= s + 2 * n
  PROVE  /\ 2 * a - s \in Int /\ 2 * b - t \in Int /\ 2 * a - s <= 2 * b - t
         /\ 2 * (a - 1) - s \in Int /\ 2 * (b - 1) - t \in Int
         /\ 2 * (a - 1) - s <= 2 * (b - 1) - t
OBVIOUS

\* A context that had nothing to execute begins a list; each list pays for its
\* resets with the request it counts, or with the one that waited.
LEMMA ListStarts ==
  ASSUME LagIInv, TypeOK', NEW c \in {"main", "usb"}, NEW ops, NEW n \in Nat,
         todo[c] = <<>>, todo' = [todo EXCEPT ![c] = ops], Unbegun(ops),
         UNCHANGED <<positions, reg, streaming, transceiver_mode>>,
         resets' = resets + n, resets' >= 1,
         StoresW' <= StoresW + 2 * n, StoresR' <= StoresR + 2 * n,
         c = "usb" => pc' = pc /\ (follow_pending' => ~StoresOnce(ops, "on")),
         c = "main" => /\ pc # "loop" /\ pc' \in {"hopped", "loop"}
                       /\ UNCHANGED follow_pending
  PROVE  LagInv'
<1>1. TypeOK /\ Code /\ Paid /\ UsbReads /\ MainBehind /\ WritesAhead
  BY DEF LagIInv, LagInv, IInv
<1>2. /\ todo'[c] = ops /\ \A e \in {"main", "usb"} : e # c => todo'[e] = todo[e]
      /\ r' = r /\ w' = w
  BY <1>1, Typed DEF positions, r, w
<1>3. ASSUME NEW e \in {"main", "usb"}, NEW x
      PROVE  /\ WriteHeld(e, x)' => WriteHeld(e, x)
             /\ ReadHeld(e, x)' => ReadHeld(e, x)
  <2>1. CASE e = c
    <3>1. \A k \in {"loadW2", "storeW", "loadR2", "storeR"} : ~NextIs(todo'[e], k)
      BY <1>2, <2>1 DEF Unbegun, NextIs
    <3> QED
      BY <3>1 DEF WriteHeld, ReadHeld, NextIs
  <2>2. CASE e # c
    <3>1. todo'[e] = todo[e] /\ reg'[e] = reg[e]
      BY <1>2, <2>2
    <3> QED
      BY <3>1 DEF WriteHeld, ReadHeld, NextIs
  <2> QED
    BY <2>1, <2>2
<1>4. ASSUME NEW y, MainHolds(y)' PROVE MainHolds(y)
  <2>1. CASE c = "usb"
    BY <1>3, <1>4, <2>1 DEF MainHolds
  <2>2. CASE c = "main"
    <3>1. ReadHeld("main", y)'
      BY <1>4, <2>2 DEF MainHolds
    <3> QED
      BY <1>3, <3>1 DEF MainHolds
  <2> QED
    BY <2>1, <2>2
<1>5. /\ StoresW \in Nat /\ StoresR \in Nat /\ resets \in Nat /\ r \in Nat
  BY <1>1, Counts, Typed
<1>6. Code'
  <2>1. Straight(todo'["main"]) /\ Straight(todo'["usb"])
    BY <1>1, <1>2 DEF Code, Unbegun
  <2>2. follow_pending' => ~StoresOnce(todo'["usb"], "on")
    BY <1>1, <1>2 DEF Code
  <2>3. todo'["main"] # <<>> => pc' \in {"hopped", "loop"}
    BY <1>1, <1>2 DEF Code
  <2> QED
    BY <1>1, <2>1, <2>2, <2>3 DEF Code, Straight, StoresOnce, Preceded, AtMostTwice
<1>7. StoresW' \in Nat /\ StoresR' \in Nat
  BY StoresNext
<1>8. Paid'
  <2> SUFFICES ASSUME transceiver_mode' = "BTLE" \/ pc' # "loop" \/ todo'["main"] # <<>>
               PROVE  StoresR' <= 2 * (resets' - 1)
    BY DEF Paid
  <2>1. transceiver_mode = "BTLE" \/ pc # "loop" \/ todo["main"] # <<>>
    BY <1>2
  <2>2. StoresR <= 2 * (resets - 1)
    BY <1>1, <2>1 DEF Paid
  <2> QED
    BY <1>5, <1>7, <2>2
<1>9. UsbReads'
  BY <1>1, <1>2, <1>3 DEF UsbReads
<1>10. MainBehind'
  <2> SUFFICES ASSUME NEW y \in Nat, MainHolds(y)'
               PROVE  r' - y <= Lap(2 * (resets - 1) - StoresR)'
    BY DEF MainBehind
  <2> DEFINE k == 2 * (resets - 1) - StoresR
             l == 2 * (resets' - 1) - StoresR'
  <2>1. r - y <= Lap(k)
    BY <1>1, <1>4 DEF MainBehind
  <2>2. k \in Int /\ l \in Int /\ k <= l
    BY <1>5, <1>7, BoundGrows
  <2>3. Lap(2 * (resets - 1) - StoresR)' = Lap(l)
    BY DEF Lap, S
  <2> HIDE DEF k, l
  <2>4. Lap(k) \in Int /\ Lap(l) \in Int /\ Lap(k) <= Lap(l)
    BY <2>2, LapIs
  <2>5. r - y <= Lap(l)
    BY <1>5, <2>1, <2>4
  <2> QED
    BY <1>2, <2>3, <2>5
<1>11. WritesAhead'
  <2> DEFINE k == 2 * resets - StoresW
             l == 2 * resets' - StoresW'
  <2>1. k \in Int /\ l \in Int /\ k <= l
    BY <1>5, <1>7, BoundGrows
  <2>2. \A x \in Nat : Written(x)' => Written(x)
    BY <1>2, <1>3 DEF Written
  <2>3. \A y \in Nat : ReadFrom(y)' => ReadFrom(y)
    BY <1>2, <1>3, <1>4 DEF ReadFrom
  <2> HIDE DEF k, l
  <2>4. Lap(k) \in Int /\ Lap(l) \in Int /\ Lap(k) + 0 <= Lap(l)
    <3>1. Lap(k) \in Int /\ Lap(l) \in Int /\ Lap(k) <= Lap(l)
      BY <2>1, LapIs
    <3> QED
      BY <3>1
  <2>5. \A x \in Nat : Written(x)' => \E p \in Nat : Written(p) /\ x <= p + 0
    BY <2>2
  <2>6. \A y \in Nat : ReadFrom(y)' => \E q \in Nat : ReadFrom(q) /\ q <= y
    BY <2>3
  <2>7. Lap(2 * resets - StoresW) + 0 <= Lap(l) /\ Lap(l) = Lap(2 * resets' - StoresW')
    BY <2>4 DEF k, l
  <2> QED
    BY <1>1, <1>5, <2>4, <2>5, <2>6, <2>7, StaysAhead
<1> QED
  BY <1>6, <1>8, <1>9, <1>10, <1>11 DEF LagInv

LEMMA NothingStored == \A k : Stores(<<>>, k) = 0
BY EmptySeq DEF Stores, StoresOnce, StoresTwice

LEMMA UsbLag ==
  ASSUME LagIInv, UsbIsr, TypeOK'
  PROVE  LagInv'
<1>1. TypeOK /\ Code
  BY DEF LagIInv, LagInv, IInv
<1>2. todo \in [{"main", "usb"} -> Seq(Ops)] /\ resets \in Nat
  BY <1>1, Typed
<1>3. ASSUME NEW ops, todo["usb"] = <<>>,
             todo' = [todo EXCEPT !["usb"] = ops]
      PROVE  /\ StoresW = Stores(todo["main"], "storeW") + Waiting
             /\ StoresR = Stores(todo["main"], "storeR") + Waiting
             /\ StoresW' = Stores(todo["main"], "storeW") + Stores(ops, "storeW") + Waiting'
             /\ StoresR' = Stores(todo["main"], "storeR") + Stores(ops, "storeR") + Waiting'
             /\ \A k \in {"storeW", "storeR"} :
                  Stores(todo["main"], k) \in 0 .. 2 /\ Stores(ops, k) \in 0 .. 2
  <2>1. todo'["main"] = todo["main"] /\ todo'["usb"] = ops
    BY <1>2, <1>3
  <2>2. \A k \in {"storeW", "storeR"} :
          Stores(todo["main"], k) \in 0 .. 2 /\ Stores(ops, k) \in 0 .. 2
    BY StoresTyped
  <2>3. Waiting \in {0, 1}
    BY DEF Waiting
  <2>4. \A k : Stores(todo["usb"], k) = 0
    BY <1>3, NothingStored
  <2>5. /\ StoresW' = Stores(todo'["main"], "storeW") + Stores(todo'["usb"], "storeW") + Waiting'
        /\ StoresR' = Stores(todo'["main"], "storeR") + Stores(todo'["usb"], "storeR") + Waiting'
    BY DEF StoresW, StoresR, Stores, StoresOnce, StoresTwice
  <2> QED
    BY <2>1, <2>2, <2>3, <2>4, <2>5 DEF StoresW, StoresR
<1>4. ASSUME NEW request \in Requests, NEW ch \in Channels, UsbRequest(request, ch)
      PROVE  LagInv'
  <2> DEFINE ops == RequestOps(request, ch)
  <2>1. /\ todo["usb"] = <<>> /\ todo' = [todo EXCEPT !["usb"] = ops]
        /\ (follow_pending' <=> request = "start_follow") /\ resets' = resets + 1
        /\ UNCHANGED <<positions, reg, streaming, transceiver_mode>> /\ pc' = pc
    BY <1>4 DEF UsbRequest
  <2>2. Unbegun(ops) /\ (request = "start_follow" => ~StoresOnce(ops, "on"))
    <3>1. request \in {"channel", "off", "start_fixed", "start_follow"}
      BY ChannelAssumption
    <3>2. CASE request = "channel"
      <4>1. ops = SetChannelOps(ch)
        BY <3>2 DEF RequestOps
      <4> QED
        BY <3>2, <4>1, ListsUnbegun
    <3>3. CASE request # "channel"
      BY <3>1, <3>3, ListsUnbegun
    <3> QED
      BY <3>2, <3>3
  <2>3. /\ Stores(ops, "storeW") + Waiting' <= 2
        /\ Stores(ops, "storeR") + Waiting' <= 2
    <3>1. \A k : Stores(ops, k) \in 0 .. 2
      BY StoresTyped
    <3>2. CASE request = "start_follow"
      <4>1. \A k \in {"storeW", "storeR"} : Stores(ops, k) = 0
        BY <3>2, ListsUnbegun
      <4>2. Waiting' \in {0, 1}
        BY DEF Waiting
      <4> QED
        BY <4>1, <4>2
    <3>3. CASE request # "start_follow"
      <4>1. Waiting' = 0
        BY <2>1, <3>3 DEF Waiting
      <4> QED
        BY <3>1, <4>1
    <3> QED
      BY <3>2, <3>3
  <2> HIDE DEF ops
  <2>4. StoresW' <= StoresW + 2 * 1 /\ StoresR' <= StoresR + 2 * 1
    <3>1. Waiting \in {0, 1} /\ Waiting' \in {0, 1}
      BY DEF Waiting
    <3>2. /\ StoresW = Stores(todo["main"], "storeW") + Waiting
          /\ StoresR = Stores(todo["main"], "storeR") + Waiting
          /\ StoresW' = Stores(todo["main"], "storeW") + Stores(ops, "storeW") + Waiting'
          /\ StoresR' = Stores(todo["main"], "storeR") + Stores(ops, "storeR") + Waiting'
          /\ Stores(todo["main"], "storeW") \in 0 .. 2 /\ Stores(ops, "storeW") \in 0 .. 2
          /\ Stores(todo["main"], "storeR") \in 0 .. 2 /\ Stores(ops, "storeR") \in 0 .. 2
      BY <1>3, <2>1
    <3> QED
      BY <2>3, <3>1, <3>2
  <2>5. resets' >= 1
    BY <1>2, <2>1
  <2>6. follow_pending' => ~StoresOnce(ops, "on")
    BY <2>1, <2>2
  <2> QED
    BY <2>1, <2>2, <2>4, <2>5, <2>6, ListStarts
<1>5. ASSUME UsbFollowData PROVE LagInv'
  <2> DEFINE ops == RequestOps("follow_data", CHANNEL_START)
  <2>1. /\ todo["usb"] = <<>> /\ todo' = [todo EXCEPT !["usb"] = ops]
        /\ follow_pending = TRUE /\ follow_pending' = FALSE /\ resets' = resets + 0
        /\ UNCHANGED <<positions, reg, streaming, transceiver_mode>> /\ pc' = pc
    <3>1. resets' = resets
      BY <1>5 DEF UsbFollowData
    <3> QED
      BY <1>1, <1>2, <1>5, <3>1 DEF UsbFollowData, TypeOK
  <2>2. /\ Unbegun(ops)
        /\ Stores(ops, "storeW") <= 1 /\ Stores(ops, "storeR") <= 1
    BY ListsUnbegun, ChannelAssumption
  <2> HIDE DEF ops
  <2>3. Waiting = 1 /\ Waiting' = 0
    BY <2>1 DEF Waiting
  <2>4. StoresW' <= StoresW + 2 * 0 /\ StoresR' <= StoresR + 2 * 0
    <3>1. /\ StoresW = Stores(todo["main"], "storeW") + Waiting
          /\ StoresR = Stores(todo["main"], "storeR") + Waiting
          /\ StoresW' = Stores(todo["main"], "storeW") + Stores(ops, "storeW") + Waiting'
          /\ StoresR' = Stores(todo["main"], "storeR") + Stores(ops, "storeR") + Waiting'
          /\ Stores(todo["main"], "storeW") \in 0 .. 2 /\ Stores(ops, "storeW") \in 0 .. 2
          /\ Stores(todo["main"], "storeR") \in 0 .. 2 /\ Stores(ops, "storeR") \in 0 .. 2
      BY <1>3, <2>1
    <3> QED
      BY <2>2, <2>3, <3>1
  <2>5. resets' >= 1
    <3>1. resets >= 1
      BY <1>1, <2>1 DEF Code
    <3> QED
      BY <1>2, <2>1, <3>1
  <2> QED
    BY <2>1, <2>2, <2>4, <2>5, ListStarts
<1>6. ASSUME Execute("usb") PROVE LagInv'
  BY <1>6, ExecuteLag
<1> QED
  BY <1>4, <1>5, <1>6 DEF UsbIsr
-----------------------------------------------------------------------------
(* An iteration of main *)

\* A step of an iteration leaves main with what it held, or the read position;
\* the read position only moves forward from what main held.
LEMMA MainMoves ==
  ASSUME LagIInv, TypeOK', todo["main"] = <<>>, todo["usb"] = <<>>,
         UNCHANGED <<sample_pos_write, todo, resets, config>>,
         transceiver_mode = "BTLE" \/ pc # "loop",
         \A y \in Nat : MainHolds(y)' => r' = r /\ (y = r \/ MainHolds(y)),
         \E q \in Nat : (q = r \/ MainHolds(q)) /\ q <= r'
  PROVE  LagInv'
<1>1. TypeOK /\ Code /\ Paid /\ MainBehind /\ WritesAhead
  BY DEF LagIInv, LagInv, IInv
<1>2. /\ todo' = todo /\ resets' = resets /\ w' = w
      /\ UNCHANGED <<follow_pending, streaming, transceiver_mode>>
  BY DEF config, w
<1>3. StoresW' = StoresW /\ StoresR' = StoresR
  BY <1>2 DEF StoresW, StoresR, Waiting, Stores, StoresOnce, StoresTwice
<1>4. StoresW \in Nat /\ StoresR \in Nat /\ resets \in Nat /\ r \in Nat /\ w \in Nat
  BY <1>1, Counts, Typed
<1>5. StoresR <= 2 * (resets - 1)
  BY <1>1 DEF Paid
<1>6. \A c \in {"main", "usb"} : \A x :
        ~WriteHeld(c, x) /\ ~ReadHeld(c, x) /\ ~WriteHeld(c, x)' /\ ~ReadHeld(c, x)'
  BY <1>2 DEF WriteHeld, ReadHeld, NextIs
<1>7. Code'
  BY <1>1, <1>2 DEF Code, Straight, StoresOnce, Preceded, AtMostTwice
<1>8. Paid'
  BY <1>2, <1>3, <1>5 DEF Paid
<1>9. UsbReads'
  BY <1>6 DEF UsbReads
<1> DEFINE k == 2 * (resets - 1) - StoresR
<1>10. Lap(k) \in Int /\ 0 <= Lap(k)
  <2>1. k \in Int /\ 0 <= k
    BY <1>4, <1>5
  <2> HIDE DEF k
  <2>2. Lap(0) <= Lap(k) /\ Lap(0) = 0
    BY <2>1, LapIs
  <2>3. Lap(k) \in Int
    BY <2>1, LapIs
  <2> QED
    BY <2>2, <2>3
<1>11. MainBehind'
  <2> SUFFICES ASSUME NEW y \in Nat, MainHolds(y)'
               PROVE  r' - y <= Lap(2 * (resets - 1) - StoresR)'
    BY DEF MainBehind
  <2>1. r' = r /\ (y = r \/ MainHolds(y))
    OBVIOUS
  <2>2. r - y <= Lap(k)
    <3>1. CASE y = r
      BY <1>4, <1>10, <3>1
    <3>2. CASE MainHolds(y)
      BY <1>1, <3>2 DEF MainBehind
    <3> QED
      BY <2>1, <3>1, <3>2
  <2>3. Lap(2 * (resets - 1) - StoresR)' = Lap(k)
    BY <1>2, <1>3 DEF Lap, S
  <2> QED
    BY <2>1, <2>2, <2>3
<1>12. WritesAhead'
  <2> DEFINE m == Lap(2 * resets - StoresW)
  <2>1. \A x \in Nat : Written(x)' => \E p \in Nat : Written(p) /\ x <= p + 0
    <3>1. \A x \in Nat : Written(x)' => x = w
      BY <1>2, <1>6 DEF Written
    <3>2. Written(w) /\ w <= w + 0
      BY <1>4 DEF Written
    <3> QED
      BY <1>4, <3>1, <3>2
  <2>2. ASSUME NEW y \in Nat, ReadFrom(y)' PROVE \E q \in Nat : ReadFrom(q) /\ q <= y
    <3>1. CASE MainHolds(y)'
      <4>1. ReadFrom(y)
        BY <3>1 DEF ReadFrom
      <4> QED
        BY <4>1
    <3>2. CASE y = r'
      <4>1. PICK q \in Nat : (q = r \/ MainHolds(q)) /\ q <= r'
        OBVIOUS
      <4> QED
        BY <3>2, <4>1 DEF ReadFrom
    <3> QED
      BY <1>6, <2>2, <3>1, <3>2 DEF ReadFrom
  <2>3. m \in Int /\ m = Lap(2 * resets' - StoresW')
    <3>1. 2 * resets - StoresW \in Int
      BY <1>4
    <3> QED
      BY <1>2, <1>3, <3>1, LapIs
  <2>4. Lap(2 * resets - StoresW) + 0 <= m
    BY <2>3
  <2> HIDE DEF m
  <2> QED
    BY <1>1, <1>4, <2>1, <2>2, <2>3, <2>4, StaysAhead
<1> QED
  BY <1>7, <1>8, <1>9, <1>11, <1>12 DEF LagInv

\* Main hops: a list of set_channel begins.
LEMMA HopStarts ==
  ASSUME LagIInv, TypeOK', NEW ch \in Channels, MainAt(pc), pc # "loop",
         todo' = [todo EXCEPT !["main"] = SetChannelOps(ch)], resets' = resets + 1,
         UNCHANGED <<positions, config, reg>>, pc' \in {"hopped", "loop"}
  PROVE  LagInv'
<1> DEFINE ops == SetChannelOps(ch)
<1>1. TypeOK /\ Code /\ todo["main"] = <<>>
  BY DEF LagIInv, LagInv, IInv, MainAt
<1>2. todo \in [{"main", "usb"} -> Seq(Ops)] /\ resets \in Nat
  BY <1>1, Typed
<1>3. Unbegun(ops)
  BY ListsUnbegun
<1>4. UNCHANGED <<positions, reg, streaming, transceiver_mode>> /\ UNCHANGED follow_pending
  BY DEF config
<1> HIDE DEF ops
<1>5. todo' = [todo EXCEPT !["main"] = ops]
  BY DEF ops
<1>6. StoresW' <= StoresW + 2 * 1 /\ StoresR' <= StoresR + 2 * 1
  <2>1. todo'["main"] = ops /\ todo'["usb"] = todo["usb"]
    BY <1>2, <1>5
  <2>2. Waiting' = Waiting /\ Waiting \in {0, 1}
    BY <1>4 DEF Waiting
  <2>3. /\ Stores(ops, "storeW") \in 0 .. 2 /\ Stores(todo["usb"], "storeW") \in 0 .. 2
        /\ Stores(ops, "storeR") \in 0 .. 2 /\ Stores(todo["usb"], "storeR") \in 0 .. 2
    BY StoresTyped
  <2>4. Stores(todo["main"], "storeW") = 0 /\ Stores(todo["main"], "storeR") = 0
    BY <1>1, NothingStored
  <2>5. /\ StoresW' = Stores(todo'["main"], "storeW") + Stores(todo'["usb"], "storeW") + Waiting'
        /\ StoresR' = Stores(todo'["main"], "storeR") + Stores(todo'["usb"], "storeR") + Waiting'
    BY DEF StoresW, StoresR, Stores, StoresOnce, StoresTwice
  <2>6. /\ StoresW' = Stores(ops, "storeW") + Stores(todo["usb"], "storeW") + Waiting
        /\ StoresR' = Stores(ops, "storeR") + Stores(todo["usb"], "storeR") + Waiting
    BY <2>1, <2>2, <2>5
  <2>7. /\ StoresW = 0 + Stores(todo["usb"], "storeW") + Waiting
        /\ StoresR = 0 + Stores(todo["usb"], "storeR") + Waiting
    BY <2>4 DEF StoresW, StoresR
  <2> QED
    BY <2>2, <2>3, <2>6, <2>7
<1>7. resets' >= 1
  BY <1>2
<1> QED
  BY <1>1, <1>3, <1>4, <1>5, <1>6, <1>7, ListStarts

LEMMA MainLag ==
  ASSUME LagIInv, MainStep, TypeOK'
  PROVE  LagInv'
<1>1. TypeOK /\ Code /\ MainBehind
  BY DEF LagIInv, LagInv, IInv
<1>2. UNCHANGED <<sample_pos_write, config>> /\ r \in Nat /\ r' \in Nat
  BY <1>1, Typed DEF MainStep, TypeOK, r
<1>3. /\ todo \in [{"main", "usb"} -> Seq(Ops)] /\ resets \in Nat /\ bytesread \in Nat
      /\ reg["main"] \in [a : Nat, b : Nat] /\ reg \in [{"main", "usb"} -> [a : Nat, b : Nat]]
  BY <1>1, Typed
\* Most steps change neither what main holds nor the positions.
<1>4. ASSUME todo["main"] = <<>>, todo["usb"] = <<>>, UNCHANGED <<todo, resets>>,
             transceiver_mode = "BTLE" \/ pc # "loop", r' = r,
             pc' \notin {"store", "skip2", "skip3"}
      PROVE  LagInv'
  <2>1. \A y \in Nat : MainHolds(y)' => r' = r /\ (y = r \/ MainHolds(y))
    BY <1>4 DEF MainHolds, ReadHeld, NextIs
  <2>2. \E q \in Nat : (q = r \/ MainHolds(q)) /\ q <= r'
    BY <1>2, <1>4
  <2> QED
    BY <1>2, <1>4, <2>1, <2>2, MainMoves
<1>5. CASE MainLoop
  BY <1>4, <1>5 DEF MainLoop, MainAt, contexts, r
<1>6. CASE MainSpin
  BY <1>4, <1>6 DEF MainSpin, MainAt, contexts, r
<1>7. CASE MainHop
  <2>1. CASE pc' = "check" /\ UNCHANGED <<todo, resets>>
    BY <1>4, <1>7, <2>1 DEF MainHop, MainAt, r
  <2>2. CASE ~(pc' = "check" /\ UNCHANGED <<todo, resets>>)
    <3>1. /\ next_channel_trigger # -1 /\ resets' = resets + 1 /\ pc' = "hopped"
          /\ todo' = [todo EXCEPT !["main"] = SetChannelOps(next_channel_trigger)]
          /\ MainAt(pc) /\ pc # "loop" /\ UNCHANGED <<sample_pos_read, reg>>
      BY <1>7, <2>2 DEF MainHop, MainAt
    <3>2. next_channel_trigger \in Channels
      BY <1>1, <3>1, ChannelAssumption DEF TypeOK
    <3> QED
      BY <1>2, <3>1, <3>2, HopStarts DEF positions
  <2> QED
    BY <2>1, <2>2
<1>8. CASE MainHopped
  BY <1>4, <1>8 DEF MainHopped, MainAt, contexts, r
<1>9. CASE MainCheck
  BY <1>4, <1>9 DEF MainCheck, MainAt, contexts, r
<1>10. CASE MainIdxRead
  BY <1>4, <1>10 DEF MainIdxRead, MainAt, contexts, r
<1>11. CASE MainIdxWrite
  <2>1. pc' \in {"loop", "tag", "skip1"}
    BY <1>11 DEF MainIdxWrite
  <2> QED
    BY <1>4, <1>11, <2>1 DEF MainIdxWrite, MainAt, contexts, r
<1>12. CASE MainTag
  BY <1>4, <1>12 DEF MainTag, MainAt, contexts, r
<1>13. CASE MainDemod
  BY <1>4, <1>13 DEF MainDemod, MainAt, contexts, r
<1>14. CASE MainLoad
  <2>1. /\ todo["main"] = <<>> /\ todo["usb"] = <<>> /\ pc = "load" /\ pc' = "store"
        /\ UNCHANGED <<todo, resets>> /\ r' = r /\ reg'["main"].a = r
    BY <1>3, <1>14 DEF MainLoad, MainAt, r
  <2>2. \A y \in Nat : MainHolds(y)' => r' = r /\ (y = r \/ MainHolds(y))
    BY <2>1 DEF MainHolds, ReadHeld, NextIs
  <2>3. \E q \in Nat : (q = r \/ MainHolds(q)) /\ q <= r'
    BY <1>2, <2>1
  <2> QED
    BY <1>2, <2>1, <2>2, <2>3, MainMoves
<1>15. CASE MainStore
  <2>1. /\ todo["main"] = <<>> /\ todo["usb"] = <<>> /\ pc = "store"
        /\ pc' \in {"update", "skip1", "loop"}
        /\ UNCHANGED <<todo, resets>> /\ r' = reg["main"].a + bytesread
    BY <1>15 DEF MainStore, MainAt, contexts, r
  <2>2. \A y \in Nat : MainHolds(y)' => r' = r /\ (y = r \/ MainHolds(y))
    BY <2>1 DEF MainHolds, ReadHeld, NextIs
  <2>3. \E q \in Nat : (q = r \/ MainHolds(q)) /\ q <= r'
    <3>1. MainHolds(reg["main"].a)
      BY <2>1 DEF MainHolds
    <3>2. reg["main"].a \in Nat /\ reg["main"].a <= r'
      BY <1>3, <2>1
    <3> QED
      BY <3>1, <3>2
  <2> QED
    BY <1>2, <2>1, <2>2, <2>3, MainMoves
<1>16. CASE MainSkip
  <2>1. /\ todo["main"] = <<>> /\ todo["usb"] = <<>> /\ UNCHANGED <<todo, resets>>
        /\ \/ pc = "skip1" /\ pc' = "skip2" /\ r' = r /\ reg'["main"].a = r
           \/ /\ pc = "skip2" /\ pc' = "skip3" /\ r' = r
              /\ reg'["main"].b = r /\ reg'["main"].a = reg["main"].a
           \/ pc = "skip3" /\ pc' = "loop" /\ r' \in SkipValues(reg["main"])
    BY <1>3, <1>16 DEF MainSkip, MainAt, r
  <2>2. \A y \in Nat : MainHolds(y)' => r' = r /\ (y = r \/ MainHolds(y))
    BY <2>1 DEF MainHolds, ReadHeld, NextIs
  <2>3. \E q \in Nat : (q = r \/ MainHolds(q)) /\ q <= r'
    <3>1. CASE pc # "skip3"
      BY <1>2, <2>1, <3>1
    <3>2. CASE pc = "skip3"
      <4>1. \/ reg["main"].a <= r'
            \/ reg["main"].b <= r'
        BY <1>3, <2>1, <3>2, SkipIs
      <4>2. MainHolds(reg["main"].a) /\ MainHolds(reg["main"].b)
        BY <3>2 DEF MainHolds
      <4> QED
        BY <1>3, <4>1, <4>2
    <3> QED
      BY <3>1, <3>2
  <2> QED
    BY <1>2, <2>1, <2>2, <2>3, MainMoves
<1>17. CASE MainUpdate
  <2>1. /\ MainAt(pc) /\ pc = "update" /\ pc' = "loop" /\ UNCHANGED <<sample_pos_read, reg>>
    BY <1>17 DEF MainUpdate, MainAt
  <2>2. CASE UNCHANGED <<todo, resets>>
    BY <1>4, <2>1, <2>2 DEF MainAt, r
  <2>3. CASE ~UNCHANGED <<todo, resets>>
    <3>1. PICK ch \in HopChannels :
            /\ resets' = resets + 1
            /\ todo' = [todo EXCEPT !["main"] = SetChannelOps(ch)]
      BY <1>17, <2>3 DEF MainUpdate
    <3>2. ch \in Channels
      BY ChannelAssumption
    <3> QED
      BY <1>2, <2>1, <3>1, <3>2, HopStarts DEF positions
  <2> QED
    BY <2>2, <2>3
<1> QED
  BY <1>5, <1>6, <1>7, <1>8, <1>9, <1>10, <1>11, <1>12, <1>13, <1>14, <1>15, <1>16,
     <1>17 DEF MainStep
-----------------------------------------------------------------------------
LEMMA InitLag == Init => LagIInv
<1> SUFFICES ASSUME Init PROVE LagIInv
  OBVIOUS
<1>1. /\ r = 0 /\ w = 0 /\ resets = 0 /\ pc = "loop" /\ transceiver_mode = "OFF"
      /\ todo["main"] = <<>> /\ todo["usb"] = <<>> /\ follow_pending = FALSE
      /\ streaming = FALSE
  BY DEF Init, r, w
<1>2. StoresW = 0
  BY <1>1, NothingStored DEF StoresW, Waiting
<1>3. \A c \in {"main", "usb"} : \A x : ~WriteHeld(c, x) /\ ~ReadHeld(c, x)
  BY <1>1 DEF WriteHeld, ReadHeld, NextIs
<1>4. Straight(<<>>)
  BY EmptySeq DEF Straight, Preceded, AtMostTwice
<1>5. Code
  BY <1>1, <1>4 DEF Code
<1>6. Paid /\ UsbReads /\ MainBehind
  BY <1>1, <1>3 DEF Paid, UsbReads, MainBehind, MainHolds
<1>7. WritesAhead
  <2>1. \A x \in Nat : Written(x) => x = 0
    BY <1>1, <1>3 DEF Written
  <2>2. \A y \in Nat : ReadFrom(y) => y = 0
    BY <1>1, <1>3 DEF ReadFrom, MainHolds
  <2>3. Lap(2 * resets - StoresW) = 0
    <3>1. 2 * resets - StoresW = 0
      BY <1>1, <1>2
    <3> QED
      BY <3>1, LapIs
  <2> QED
    BY <2>1, <2>2, <2>3 DEF WritesAhead
<1> QED
  BY <1>5, <1>6, <1>7, InitIInv DEF LagIInv, LagInv

LEMMA NextLag == LagIInv /\ [Next]_vars => LagIInv'
<1> SUFFICES ASSUME LagIInv, [Next]_vars PROVE LagIInv'
  OBVIOUS
<1>1. IInv /\ LagInv
  BY DEF LagIInv
<1>2. IInv' /\ TypeOK'
  BY <1>1, NextIInv DEF IInv
<1>3. CASE SgpioIsr
  BY <1>2, <1>3, SgpioLag DEF LagIInv
<1>4. CASE UsbIsr
  BY <1>2, <1>4, UsbLag DEF LagIInv
<1>5. CASE MainStep
  BY <1>2, <1>5, MainLag DEF LagIInv
<1>6. CASE Execute("main")
  BY <1>2, <1>6, ExecuteLag DEF LagIInv
<1>7. CASE UNCHANGED vars
  <2>1. /\ UNCHANGED <<todo, reg, pc, follow_pending, resets>> /\ r' = r /\ w' = w
        /\ UNCHANGED <<streaming, transceiver_mode>>
    BY <1>7 DEF vars, positions, contexts, config, r, w
  <2>2. /\ StoresW' = StoresW /\ StoresR' = StoresR
        /\ \A c, x : /\ WriteHeld(c, x)' <=> WriteHeld(c, x)
                     /\ ReadHeld(c, x)' <=> ReadHeld(c, x)
        /\ \A y : MainHolds(y)' <=> MainHolds(y)
    BY <2>1, SameContexts
  <2>3. Code' /\ Paid'
    BY <1>1, <2>1, <2>2
       DEF LagInv, Code, Paid, Straight, StoresOnce, Preceded, AtMostTwice
  <2>4. UsbReads' /\ MainBehind' /\ WritesAhead'
    BY <1>1, <2>1, <2>2
       DEF LagInv, UsbReads, MainBehind, WritesAhead, Written, ReadFrom, Lap, S
  <2> QED
    BY <1>2, <2>3, <2>4 DEF LagIInv, LagInv
<1> QED
  BY <1>3, <1>4, <1>5, <1>6, <1>7 DEF Next

\* In every execution, whatever requests and hops interrupt whatever accesses,
\* what the contexts have left to execute and the values they hold are as LagInv
\* says.
THEOREM LagInvariance == Spec => []LagIInv
<1> QED
  BY InitLag, NextLag, PTL DEF Spec

\* However many requests and hops tear each other's resets, each leaves main at
\* most two laps of old samples to read.
THEOREM LagsByRequests == Spec => []LagPerRequest
<1>1. LagIInv => LagPerRequest
  <2> SUFFICES ASSUME LagIInv PROVE w - r <= 2 * resets * SAMPLE_BUFFER_SIZE
    BY DEF LagPerRequest, r, w
  <2>1. TypeOK /\ Code /\ WritesAhead
    BY DEF LagIInv, LagInv, IInv
  <2>2. r \in Nat /\ w \in Nat /\ S \in Nat
    BY <2>1, Typed
  <2>3. StoresW \in Nat /\ resets \in Nat
    BY <2>1, Counts
  <2>4. w - r <= Lap(2 * resets - StoresW)
    BY <2>1, <2>2 DEF WritesAhead, Written, ReadFrom
  <2>5. 2 * resets - StoresW \in Int /\ 2 * resets \in Int
        /\ 2 * resets - StoresW <= 2 * resets
    BY <2>3
  <2>6. /\ Lap(2 * resets - StoresW) \in Int /\ Lap(2 * resets) \in Int
        /\ Lap(2 * resets - StoresW) <= Lap(2 * resets)
    BY <2>5, LapIs
  <2>7. Lap(2 * resets) = 2 * resets * SAMPLE_BUFFER_SIZE
    BY <2>2, <2>3 DEF Lap, S
  <2> QED
    BY <2>2, <2>4, <2>6, <2>7
<1> QED
  BY LagInvariance, <1>1, PTL
-----------------------------------------------------------------------------
(* Neither side waits for ever *)

\* The host does nothing but start sessions: in a session, only main and the
\* interrupt move the positions.
OnlyStarts == Requests \subseteq {"start_fixed", "start_follow"}

\* The longest packet, what demod_buffer looks ahead and a block fit in a lap,
\* as 32768 bytes are more than any packet takes.
Roomy == PACKET_SAMPLES_MAX + LOOKAHEAD + BLOCK < SAMPLE_BUFFER_SIZE

\* The write position is less than a lap past p, or at the start of a lap: then a
\* full ring leaves main a window it can advance in.
Near(p) == w - p < S \/ Laps(w)

\* x was loaded from the write position before y, with the read position where
\* it is, at the start of a lap.
Loaded(x, y) == x = y \/ (x - r < S - BLOCK /\ y <= r + S)

\* Between two stores of the read position there is one of the write position.
Alternate(s) ==
  \A i, j \in DOMAIN s : i < j /\ s[i].do = "storeR" /\ s[j].do = "storeR" =>
    \E h \in DOMAIN s : i < h /\ s[h].do = "storeW"

LeftR == Stores(todo["main"], "storeR")
LeftW == Stores(todo["main"], "storeW")

Lists == /\ Alternate(todo["main"])
         /\ \A c \in {"main", "usb"} : ~StoresOnce(todo[c], "off")

\* Before the session, the requests leave both positions at the start of a lap.
Quiet ==
  transceiver_mode = "OFF" =>
    /\ pc = "loop" /\ todo["main"] = <<>> /\ Laps(r) /\ Laps(w)
    /\ \A x \in Nat : WriteHeld("usb", x) => x = w

\* In the session, no request has a position left to store.
Undisturbed ==
  transceiver_mode = "BTLE" =>
    ~follow_pending /\ Stores(todo["usb"], "storeW") = 0 /\ Stores(todo["usb"], "storeR") = 0

\* Nothing but main moves the read position while main is about to.
MainReads == \A y \in Nat : MainHolds(y) => y = r

\* A hop may throw the write position any way with its first reset; its second
\* finds the read position at the start of a lap and leaves both near each other.
HopNears ==
  /\ LeftR = 0 => Near(r)
  /\ LeftR = 1 =>
       /\ Laps(r) /\ (LeftW = 0 => Near(r + S))
       /\ NextIs(todo["main"], "loadW2") => Loaded(reg["main"].a, w)
       /\ NextIs(todo["main"], "storeW") => Loaded(reg["main"].a, reg["main"].b)

StallInv == Lists /\ Quiet /\ Undisturbed /\ MainReads /\ HopNears
StallIInv == LagIInv /\ StallInv
-----------------------------------------------------------------------------
(* Where skips end *)

\* A skip from before the end of a lap ends with it.
LEMMA SkipWithin ==
  ASSUME NEW p \in Nat, NEW q \in Nat, Laps(q), p < q + S
  PROVE  p + ToNextLap(p) <= q + S
<1>1. PICK n \in Nat : p = S * n + (p % S)
  BY LapAndOffset DEF S
<1>2. PICK m \in Nat : q = S * m
  BY DEF Laps
<1>3. S \in Nat \ {0} /\ p % S \in 0 .. S - 1 /\ ToNextLap(p) = S - (p % S)
  BY LapAndOffset, SizePositive DEF Slots, S, ToNextLap
<1>4. n <= m
  <2>1. ASSUME n > m PROVE FALSE
    <3>1. Lap(m + 1) <= Lap(n) /\ Lap(m + 1) = Lap(m) + S
      BY <1>1, <1>2, <2>1, LapIs
    <3> QED
      BY <1>1, <1>2, <1>3, <3>1 DEF Lap
  <2> QED
    BY <2>1
<1>5. Lap(n) <= Lap(m) /\ Lap(n) \in Int /\ Lap(m) \in Int
  BY <1>4, LapIs
<1>6. p + ToNextLap(p) = Lap(n) + S /\ q = Lap(m)
  BY <1>1, <1>2, <1>3 DEF Lap
<1> QED
  BY <1>3, <1>5, <1>6

\* Whichever of its two loads a reset of the write position adds the skip to, it
\* ends less than a lap past the next lap, or at the start of one.
LEMMA SkipNears ==
  ASSUME TypeOK, NEW g \in [a : Nat, b : Nat], NEW v \in SkipValues(g),
         Laps(r), Loaded(g.a, g.b)
  PROVE  v - (r + S) < S \/ Laps(v)
<1>1. /\ S \in Nat \ {0} /\ BLOCK \in Nat \ {0} /\ r \in Nat /\ BLOCK < S
      /\ g.a \in Nat /\ g.b \in Nat
  <2>1. PACKET_SAMPLES_MAX \in Nat /\ PACKET_SAMPLES_MAX + BLOCK < S
        /\ BLOCK \in Nat \ {0} /\ S \in Nat \ {0} /\ r \in Nat
    BY Typed
  <2> QED
    BY <2>1
<1>2. /\ ToNextLap(g.a) \in 1 .. S /\ ToNextLap(g.b) \in 1 .. S
      /\ Laps(g.a + ToNextLap(g.a)) /\ Laps(r + S)
  <2>1. Laps(r + ToNextLap(r)) /\ ToNextLap(r) = S
    BY <1>1, NextLap
  <2> QED
    BY <1>1, <2>1, NextLap
<1>3. CASE g.a = g.b
  BY <1>2, <1>3 DEF SkipValues
<1>4. CASE g.a - r < S - BLOCK /\ g.b <= r + S
  <2>1. CASE v = g.a + ToNextLap(g.b)
    BY <1>1, <1>2, <1>4, <2>1
  <2>2. CASE v = g.b + ToNextLap(g.a)
    <3>1. CASE g.b < r + S
      BY <1>1, <1>2, <2>2, <3>1
    <3>2. CASE g.b = r + S
      <4>1. CASE ToNextLap(g.a) < S
        BY <1>1, <1>2, <2>2, <3>2, <4>1
      <4>2. CASE ToNextLap(g.a) = S
        <5>1. (r + S) + ToNextLap(r + S) = v /\ Laps((r + S) + ToNextLap(r + S))
          <6>1. r + S \in Nat
            BY <1>1
          <6>2. ToNextLap(r + S) = S /\ Laps((r + S) + ToNextLap(r + S))
            BY <1>2, <6>1, NextLap
          <6> QED
            BY <2>2, <3>2, <4>2, <6>2
        <5> QED
          BY <5>1
      <4> QED
        BY <1>1, <1>2, <4>1, <4>2
    <3> QED
      BY <1>1, <1>4, <3>1, <3>2
  <2> QED
    BY <2>1, <2>2 DEF SkipValues
<1> QED
  BY <1>3, <1>4 DEF Loaded

\* The interrupt leaves the write position, or moves it while the ring is not
\* full: by a block, or to the next lap.
LEMMA SgpioNears ==
  ASSUME TypeOK, SgpioIsr
  PROVE  /\ r' = r
         /\ \/ w' = w
            \/ /\ w - r < S - BLOCK
               /\ w' - r < S \/ Laps(w')
               /\ w' - (r + S) < S
               /\ Laps(r) => w' <= r + S
<1>1. /\ S \in Nat \ {0} /\ BLOCK \in Nat \ {0} /\ r \in Nat /\ w \in Nat
  BY Typed
<1>2. r' = r
  BY DEF SgpioIsr, IsrDrop, IsrSignal, IsrNoise, positions, r
<1>3. CASE IsrDrop
  BY <1>2, <1>3 DEF IsrDrop, positions, w
<1>4. CASE IsrSignal
  <2>1. w' = w + BLOCK /\ w - r < S - BLOCK
    BY <1>1, <1>4 DEF IsrSignal, Full, S, r, w
  <2> QED
    BY <1>1, <1>2, <2>1
<1>5. CASE IsrNoise
  <2>1. w - r < S - BLOCK
    BY <1>1, <1>5 DEF IsrNoise, Full, S, r, w
  <2>2. w' = w \/ w' = w + ToNextLap(w)
    BY <1>5 DEF IsrNoise, w
  <2>3. ToNextLap(w) \in 1 .. S /\ Laps(w + ToNextLap(w))
    BY <1>1, NextLap
  <2>4. Laps(r) => w + ToNextLap(w) <= r + S
    <3>1. w < r + S
      BY <1>1, <2>1
    <3> QED
      BY <1>1, <3>1, SkipWithin
  <2> DEFINE v == w + ToNextLap(w)
  <2>5. v \in Nat /\ v - (r + S) < S /\ (Laps(r) => v <= r + S) /\ (w' = w \/ w' = v)
    BY <1>1, <2>1, <2>2, <2>3, <2>4
  <2>6. w' = v => Laps(w')
    BY <2>3
  <2> HIDE DEF v
  <2> QED
    BY <1>1, <1>2, <2>1, <2>5, <2>6
<1> QED
  BY <1>3, <1>4, <1>5 DEF SgpioIsr

-----------------------------------------------------------------------------
(* Lists of a session that is only started *)

LEMMA AlternateTail ==
  ASSUME NEW s \in Seq(Ops), s # <<>>, Alternate(s)
  PROVE  /\ Alternate(Tail(s))
         /\ Head(s).do = "storeR" /\ StoresOnce(Tail(s), "storeR") =>
              StoresOnce(Tail(s), "storeW")
<1> DEFINE t == Tail(s)
           n == Len(s)
<1>1. /\ n \in Nat \ {0} /\ DOMAIN s = 1 .. n /\ Head(s) = s[1]
      /\ DOMAIN t = 1 .. n - 1 /\ \A i \in 1 .. n - 1 : t[i] = s[i + 1]
  BY TailIs
<1>2. ASSUME NEW i \in 2 .. n PROVE i - 1 \in 1 .. n - 1 /\ t[i - 1] = s[i]
  BY <1>1
<1> HIDE DEF t, n
<1>3. ASSUME NEW i \in 1 .. n - 1, NEW j \in 1 .. n - 1, i < j,
             t[i].do = "storeR", t[j].do = "storeR"
      PROVE  \E h \in 1 .. n - 1 : i < h /\ t[h].do = "storeW"
  <2>1. /\ i + 1 \in 1 .. n /\ j + 1 \in 1 .. n /\ i + 1 < j + 1
        /\ s[i + 1].do = "storeR" /\ s[j + 1].do = "storeR"
    BY <1>1, <1>3
  <2>2. PICK h \in 1 .. n : i + 1 < h /\ s[h].do = "storeW"
    BY <1>1, <2>1 DEF Alternate
  <2>3. h - 1 \in 1 .. n - 1 /\ i < h - 1 /\ t[h - 1].do = "storeW"
    BY <1>1, <1>2, <2>2
  <2> QED
    BY <2>3
<1>4. ASSUME s[1].do = "storeR", NEW j \in 1 .. n - 1, t[j].do = "storeR"
      PROVE  \E h \in 1 .. n - 1 : t[h].do = "storeW"
  <2>1. 1 \in 1 .. n /\ j + 1 \in 1 .. n /\ 1 < j + 1 /\ s[j + 1].do = "storeR"
    BY <1>1, <1>4
  <2>2. PICK h \in 1 .. n : 1 < h /\ s[h].do = "storeW"
    BY <1>1, <1>4, <2>1 DEF Alternate
  <2>3. h - 1 \in 1 .. n - 1 /\ t[h - 1].do = "storeW"
    BY <1>1, <1>2, <2>2
  <2> QED
    BY <2>3
<1> QED
  BY <1>1, <1>3, <1>4 DEF Alternate, StoresOnce, t

LEMMA ListsOfStarts ==
  ASSUME NEW ch \in Channels
  PROVE  /\ Alternate(SetChannelOps(ch)) /\ Stores(SetChannelOps(ch), "storeR") = 2
         /\ ~StoresOnce(SetChannelOps(ch), "off")
         /\ ~StoresOnce(RequestOps("start_fixed", ch), "off")
         /\ ~StoresOnce(RequestOps("start_follow", ch), "off")
         /\ ~StoresOnce(RequestOps("follow_data", CHANNEL_START), "off")
<1> HIDE DEF S, r, w
<1> DEFINE Pick(name) == [do |-> name, ch |-> ch]
           channel == << Access("loadW1"), Access("loadW2"), Access("storeW"),
                         Access("loadR1"), Access("loadR2"), Access("storeR"),
                         Pick("current"), Pick("tune"),
                         Access("loadW1"), Access("loadW2"), Access("storeW"),
                         Access("loadR1"), Access("loadR2"), Access("storeR") >>
<1>1. {Access("loadW1"), Access("loadW2"), Access("storeW"), Access("loadR1"),
       Access("loadR2"), Access("storeR"), Pick("current"), Pick("tune")} \subseteq Ops
  BY ChannelAssumption DEF Access, Ops
<1>2. SetChannelOps(ch) = channel
  <2>1. SetChannelOps(ch) =
          (<<Access("loadW1"), Access("loadW2"), Access("storeW"),
             Access("loadR1"), Access("loadR2"), Access("storeR")>>
             \o <<Pick("current"), Pick("tune")>>)
            \o <<Access("loadW1"), Access("loadW2"), Access("storeW"),
                 Access("loadR1"), Access("loadR2"), Access("storeR")>>
    BY DEF SetChannelOps, ResetCounterOps, Access
  <2> QED
    BY <1>1, <2>1, ChannelPieces
<1>3. Len(channel) = 14 /\ DOMAIN channel = 1 .. 14
  OBVIOUS
<1>4. /\ channel[6].do = "storeR" /\ channel[11].do = "storeW" /\ channel[14].do = "storeR"
      /\ \A i \in 1 .. 14 : channel[i].do = "storeR" => i = 6 \/ i = 14
      /\ \A i \in 1 .. 14 : channel[i].do # "off"
  BY DEF Access
<1> HIDE DEF channel
<1>5. Alternate(channel) /\ StoresTwice(channel, "storeR") /\ ~StoresOnce(channel, "off")
  <2>1. ASSUME NEW i \in 1 .. 14, NEW j \in 1 .. 14, i < j,
               channel[i].do = "storeR", channel[j].do = "storeR"
        PROVE  \E h \in 1 .. 14 : i < h /\ channel[h].do = "storeW"
    <3>1. i = 6 /\ 11 \in 1 .. 14 /\ i < 11
      BY <1>4, <2>1
    <3> QED
      BY <1>4, <3>1
  <2>2. 6 \in 1 .. 14 /\ 14 \in 1 .. 14 /\ 6 < 14
    OBVIOUS
  <2> QED
    BY <1>3, <1>4, <2>1, <2>2 DEF Alternate, StoresTwice, StoresOnce
<1>6. Stores(channel, "storeR") = 2
  BY <1>5 DEF Stores
<1>7. ~StoresOnce(FixedOps, "off")
  <2>1. \A i \in 1 .. 16 : FixedOps[i].do # "off"
    BY DEF FixedOps, Access, Select
  <2>2. DOMAIN FixedOps = 1 .. 16
    BY OpsAre
  <2> QED
    BY <2>1, <2>2 DEF StoresOnce
<1>8. ~StoresOnce(FollowOps, "off")
  <2>1. \A i \in 1 .. 8 : FollowOps[i].do # "off"
    BY DEF FollowOps, Access, Select
  <2>2. DOMAIN FollowOps = 1 .. 8
    BY OpsAre
  <2> QED
    BY <2>1, <2>2 DEF StoresOnce
<1>9. ~StoresOnce(<<Select("current")>>, "off")
  BY DEF StoresOnce, Select
<1> QED
  BY <1>2, <1>5, <1>6, <1>7, <1>8, <1>9, OpsAre

-----------------------------------------------------------------------------
(* The interrupt *)

LEMMA SameTodo ==
  ASSUME UNCHANGED todo
  PROVE  /\ LeftR' = LeftR /\ LeftW' = LeftW /\ (Lists' <=> Lists)
         /\ \A c, k : /\ Stores(todo[c], k)' = Stores(todo[c], k)
                      /\ NextIs(todo[c], k)' <=> NextIs(todo[c], k)
<1>1. LeftR' = LeftR /\ LeftW' = LeftW
  BY DEF LeftR, LeftW, Stores, StoresOnce, StoresTwice
<1>2. Lists' <=> Lists
  BY DEF Lists, Alternate, StoresOnce
<1>3. \A c, k : /\ Stores(todo[c], k)' = Stores(todo[c], k)
                /\ NextIs(todo[c], k)' <=> NextIs(todo[c], k)
  BY DEF Stores, StoresOnce, StoresTwice, NextIs
<1> QED
  BY <1>1, <1>2, <1>3

LEMMA LeftTyped == LeftR \in 0 .. 2 /\ LeftW \in 0 .. 2
BY StoresTyped DEF LeftR, LeftW

LEMMA SgpioStall ==
  ASSUME StallIInv, SgpioIsr, TypeOK'
  PROVE  StallInv'
<1>1. TypeOK /\ Code /\ Lists /\ Undisturbed /\ MainReads /\ HopNears
  BY DEF StallIInv, StallInv, LagIInv, LagInv, IInv
<1>2. /\ UNCHANGED <<todo, reg, pc, follow_pending>> /\ UNCHANGED transceiver_mode
      /\ streaming
  BY DEF SgpioIsr, IsrDrop, IsrSignal, IsrNoise, contexts, config
<1>3. transceiver_mode = "BTLE"
  BY <1>1, <1>2 DEF Code
<1>4. /\ r' = r
      /\ \/ w' = w
         \/ /\ w - r < S - BLOCK
            /\ w' - r < S \/ Laps(w')
            /\ w' - (r + S) < S
            /\ Laps(r) => w' <= r + S
  BY <1>1, SgpioNears
<1>5. /\ LeftR' = LeftR /\ LeftW' = LeftW /\ (Lists' <=> Lists)
      /\ \A c, k : /\ Stores(todo[c], k)' = Stores(todo[c], k)
                   /\ NextIs(todo[c], k)' <=> NextIs(todo[c], k)
  BY <1>2, SameTodo
<1>6. Lists' /\ Quiet' /\ Undisturbed'
  BY <1>1, <1>2, <1>3, <1>5 DEF Quiet, Undisturbed
<1>7. MainReads'
  <2>1. \A y : MainHolds(y)' <=> MainHolds(y)
    BY <1>2, SameContexts
  <2> QED
    BY <1>1, <1>4, <2>1 DEF MainReads
<1>8. HopNears'
  <2>1. Laps(r)' <=> Laps(r)
    BY <1>4 DEF Laps, S
  <2>2. ASSUME Near(r) PROVE Near(r)'
    BY <1>4, <2>2 DEF Near, Laps, S
  <2>3. ASSUME Near(r + S) PROVE Near(r + S)'
    BY <1>4, <2>3 DEF Near, Laps, S
  <2>4. ASSUME Laps(r), Loaded(reg["main"].a, w) PROVE Loaded(reg["main"].a, w)'
    BY <1>2, <1>4, <2>4 DEF Loaded, S
  <2>5. ASSUME Loaded(reg["main"].a, reg["main"].b)
        PROVE  Loaded(reg["main"].a, reg["main"].b)'
    BY <1>2, <1>4, <2>5 DEF Loaded, S
  <2> QED
    BY <1>1, <1>5, <2>1, <2>2, <2>3, <2>4, <2>5 DEF HopNears
<1> QED
  BY <1>6, <1>7, <1>8 DEF StallInv

-----------------------------------------------------------------------------
(* One access *)

LEMMA HeadCounts ==
  ASSUME NEW s \in Seq(Ops), s # <<>>, Straight(s)
  PROVE  /\ StoresOnce(s, Head(s).do)
         /\ \A k : StoresOnce(Tail(s), k) => StoresOnce(s, k)
         /\ \A k \in {"storeW", "storeR"} :
              /\ Stores(Tail(s), k) = Stores(s, k) - (IF Head(s).do = k THEN 1 ELSE 0)
              /\ Stores(s, k) \in 0 .. 2 /\ (Head(s).do = k => Stores(s, k) >= 1)
<1>1. /\ Len(s) \in Nat \ {0} /\ DOMAIN s = 1 .. Len(s) /\ Head(s) = s[1]
      /\ DOMAIN Tail(s) = 1 .. Len(s) - 1
      /\ \A i \in 1 .. Len(s) - 1 : Tail(s)[i] = s[i + 1]
  BY TailIs
<1>2. StoresOnce(s, Head(s).do)
  BY <1>1 DEF StoresOnce
<1>3. ASSUME NEW k, StoresOnce(Tail(s), k) PROVE StoresOnce(s, k)
  <2>1. PICK i \in 1 .. Len(s) - 1 : Tail(s)[i].do = k
    BY <1>1, <1>3 DEF StoresOnce
  <2>2. i + 1 \in DOMAIN s /\ s[i + 1].do = k
    BY <1>1, <2>1
  <2> QED
    BY <2>2 DEF StoresOnce
<1>4. AtMostTwice(s, "storeW") /\ AtMostTwice(s, "storeR")
  BY DEF Straight
<1>5. \A k \in {"storeW", "storeR"} :
        Stores(Tail(s), k) = Stores(s, k) - (IF Head(s).do = k THEN 1 ELSE 0)
  BY <1>4, StoresTail
<1>6. ASSUME NEW k PROVE Stores(s, k) \in 0 .. 2 /\ (Head(s).do = k => Stores(s, k) >= 1)
  BY <1>2 DEF Stores
<1> QED
  BY <1>2, <1>3, <1>5, <1>6

\* What an access changes besides the positions.
LEMMA ExecuteLists ==
  ASSUME StallIInv, NEW c \in {"main", "usb"}, Execute(c)
  PROVE  LET do == Head(todo[c]).do
         IN  /\ Lists' /\ do # "off" /\ todo[c] # <<>>
             /\ todo[c] \in Seq(Ops) /\ Straight(todo[c])
             /\ todo'[c] = Tail(todo[c])
             /\ \A e \in {"main", "usb"} : e # c => todo'[e] = todo[e] /\ reg'[e] = reg[e]
             /\ UNCHANGED <<pc, follow_pending>>
             /\ do = "on" => transceiver_mode' = "BTLE"
             /\ do # "on" => transceiver_mode' = transceiver_mode
<1> DEFINE s == todo[c]
           do == Head(s).do
<1>1. TypeOK /\ Code /\ Lists
  BY DEF StallIInv, StallInv, LagIInv, LagInv, IInv
<1>2. s \in Seq(Ops) /\ s # <<>> /\ Straight(s)
  <2>1. s \in Seq(Ops) /\ s # <<>>
    BY <1>1, Typed DEF Execute
  <2> QED
    BY <1>1, <2>1 DEF Code
<1>3. /\ todo' = [todo EXCEPT ![c] = Tail(s)] /\ UNCHANGED <<pc, follow_pending>>
      /\ \/ reg' = [reg EXCEPT ![c].a = w] \/ reg' = [reg EXCEPT ![c].b = w]
         \/ reg' = [reg EXCEPT ![c].a = r] \/ reg' = [reg EXCEPT ![c].b = r]
         \/ reg' = reg
      /\ do = "on" => transceiver_mode' = "BTLE"
      /\ do \notin {"on", "off"} => transceiver_mode' = transceiver_mode
  BY <1>1, AccessIs DEF Loads
<1>4. /\ todo'[c] = Tail(s)
      /\ \A e \in {"main", "usb"} : e # c => todo'[e] = todo[e] /\ reg'[e] = reg[e]
  BY <1>1, <1>3, Typed
<1>5. /\ StoresOnce(s, do) /\ (StoresOnce(Tail(s), "off") => StoresOnce(s, "off"))
      /\ (Alternate(s) => Alternate(Tail(s)))
  BY <1>2, HeadCounts, AlternateTail
<1>6. do # "off"
  BY <1>1, <1>5 DEF Lists
<1>7. \A e \in {"main", "usb"} : todo'[e] = todo[e] \/ (e = c /\ todo'[e] = Tail(s))
  BY <1>4
<1> HIDE DEF do
<1>8. Alternate(todo'["main"])
  <2>1. CASE todo'["main"] = todo["main"]
    BY <1>1, <2>1 DEF Lists
  <2>2. CASE c = "main" /\ todo'["main"] = Tail(s)
    BY <1>1, <1>5, <2>2 DEF Lists
  <2> QED
    BY <1>7, <2>1, <2>2
<1>9. ASSUME NEW e \in {"main", "usb"} PROVE ~StoresOnce(todo'[e], "off")
  <2>1. CASE todo'[e] = todo[e]
    BY <1>1, <2>1 DEF Lists
  <2>2. CASE e = c /\ todo'[e] = Tail(s)
    BY <1>1, <1>5, <2>2 DEF Lists
  <2> QED
    BY <1>7, <2>1, <2>2
<1>10. Lists'
  BY <1>8, <1>9 DEF Lists, Alternate, StoresOnce
<1> HIDE DEF s
<1>11. /\ s \in Seq(Ops) /\ s # <<>> /\ Straight(s) /\ todo'[c] = Tail(s) /\ do # "off"
       /\ do # "on" => transceiver_mode' = transceiver_mode
  BY <1>2, <1>3, <1>4, <1>6
<1> QED
  BY <1>3, <1>4, <1>10, <1>11 DEF s, do

\* A request's access: before the session, both positions move from the start of
\* a lap to the start of a lap; in the session, neither moves.
LEMMA UsbExecuteStall ==
  ASSUME StallIInv, Execute("usb"), TypeOK'
  PROVE  StallInv'
<1> DEFINE s == todo["usb"]
           do == Head(s).do
<1>1. /\ TypeOK /\ Code /\ Quiet /\ Undisturbed /\ MainReads /\ HopNears /\ UsbReads
      /\ transceiver_mode \in {"OFF", "BTLE"}
  BY DEF StallIInv, StallInv, LagIInv, LagInv, IInv, TypeOK
<1>2. /\ Lists' /\ s \in Seq(Ops) /\ s # <<>> /\ Straight(s)
      /\ todo'["usb"] = Tail(s)
      /\ todo'["main"] = todo["main"] /\ reg'["main"] = reg["main"]
      /\ UNCHANGED <<pc, follow_pending>>
      /\ do = "on" => transceiver_mode' = "BTLE"
      /\ do # "on" => transceiver_mode' = transceiver_mode
  BY ExecuteLists
<1>3. /\ do = "storeW" => r' = r /\ w' \in SkipValues(reg["usb"])
      /\ do = "storeR" => w' = w /\ r' \in SkipValues(reg["usb"])
      /\ do \notin {"storeW", "storeR"} => r' = r /\ w' = w
  BY <1>1, AccessIs DEF Loads, Settings
<1>4. /\ StoresOnce(s, do)
      /\ \A k \in {"storeW", "storeR"} :
           /\ Stores(Tail(s), k) = Stores(s, k) - (IF do = k THEN 1 ELSE 0)
           /\ Stores(s, k) \in 0 .. 2 /\ (do = k => Stores(s, k) >= 1)
  BY <1>2, HeadCounts
<1>5. r \in Nat /\ w \in Nat /\ reg["usb"] \in [a : Nat, b : Nat]
  BY <1>1, Typed
<1>6. \A k : do = k => NextIs(s, k)
  BY <1>2 DEF NextIs
<1>7. ASSUME NEW x \in Nat
      PROVE  /\ WriteHeld("usb", x)' => do \in {"loadW1", "loadW2"} /\ (x = w \/ WriteHeld("usb", x))
             /\ MainHolds(x)' <=> MainHolds(x)
  <2>1. LagIInv
    BY DEF StallIInv
  <2> QED
    BY <1>1, <2>1, AccessHolds, OthersHold DEF do
<1>8. /\ LeftR' = Stores(todo'["main"], "storeR") /\ LeftW' = Stores(todo'["main"], "storeW")
      /\ \A k : Stores(todo["usb"], k)' = Stores(todo'["usb"], k)
  BY DEF LeftR, LeftW, Stores, StoresOnce, StoresTwice
<1>9. LeftR' = LeftR /\ LeftW' = LeftW
  BY <1>2, <1>8 DEF LeftR, LeftW
<1> HIDE DEF do
<1>10. CASE transceiver_mode = "BTLE"
  <2>1. ~follow_pending /\ Stores(s, "storeW") = 0 /\ Stores(s, "storeR") = 0
    BY <1>1, <1>10 DEF Undisturbed
  <2>2. do # "storeW" /\ do # "storeR"
    BY <1>4, <2>1
  <2>3. r' = r /\ w' = w /\ transceiver_mode' = "BTLE"
    BY <1>2, <1>3, <1>10, <2>2
  <2>4. Stores(Tail(s), "storeW") = 0 /\ Stores(Tail(s), "storeR") = 0
    BY <1>4, <2>1, <2>2
  <2>5. Undisturbed'
    BY <1>2, <1>8, <2>1, <2>4 DEF Undisturbed
  <2>6. MainReads'
    BY <1>1, <1>7, <2>3 DEF MainReads
  <2>7. /\ Near(r)' <=> Near(r)
        /\ Near(r + S)' <=> Near(r + S)
        /\ Laps(r)' <=> Laps(r)
    BY <2>3 DEF Near, Laps, S
  <2>8. /\ Loaded(reg["main"].a, w)' <=> Loaded(reg["main"].a, w)
        /\ Loaded(reg["main"].a, reg["main"].b)' <=> Loaded(reg["main"].a, reg["main"].b)
    BY <1>2, <2>3 DEF Loaded, S
  <2>9. \A k : NextIs(todo["main"], k)' <=> NextIs(todo["main"], k)
    BY <1>2 DEF NextIs
  <2>10. HopNears'
    BY <1>1, <1>9, <2>7, <2>8, <2>9 DEF HopNears
  <2>11. Quiet'
    BY <2>3 DEF Quiet
  <2> QED
    BY <1>2, <2>5, <2>6, <2>10, <2>11 DEF StallInv
<1>11. CASE transceiver_mode = "OFF"
  <2>1. /\ pc = "loop" /\ todo["main"] = <<>> /\ Laps(r) /\ Laps(w)
        /\ \A x \in Nat : WriteHeld("usb", x) => x = w
    BY <1>1, <1>11 DEF Quiet
  <2>2. Laps(r') /\ Laps(w')
    <3>1. CASE do = "storeW"
      <4>1. WriteHeld("usb", reg["usb"].a) /\ WriteHeld("usb", reg["usb"].b)
        BY <1>6, <3>1 DEF WriteHeld
      <4>2. reg["usb"].a = w /\ reg["usb"].b = w
        BY <1>5, <2>1, <4>1
      <4>3. SkipValues(reg["usb"]) = {w + S} /\ Laps(w + S)
        BY <1>1, <1>5, <2>1, <4>2, WholeLap
      <4>4. r' = r /\ w' = w + S
        BY <1>3, <3>1, <4>3
      <4> QED
        BY <2>1, <4>3, <4>4
    <3>2. CASE do = "storeR"
      <4>1. ReadHeld("usb", reg["usb"].a) /\ ReadHeld("usb", reg["usb"].b)
        BY <1>6, <3>2 DEF ReadHeld
      <4>2. reg["usb"].a = r /\ reg["usb"].b = r
        BY <1>1, <1>5, <4>1 DEF UsbReads
      <4>3. SkipValues(reg["usb"]) = {r + S} /\ Laps(r + S)
        BY <1>1, <1>5, <2>1, <4>2, WholeLap
      <4>4. w' = w /\ r' = r + S
        BY <1>3, <3>2, <4>3
      <4> QED
        BY <2>1, <4>3, <4>4
    <3>3. CASE do \notin {"storeW", "storeR"}
      <4>1. r' = r /\ w' = w
        BY <1>3, <3>3
      <4> QED
        BY <2>1, <4>1
    <3> QED
      BY <3>1, <3>2, <3>3
  <2>3. pc' = "loop" /\ todo'["main"] = <<>>
    BY <1>2, <2>1
  <2>4. ASSUME NEW x \in Nat, WriteHeld("usb", x)' PROVE x = w'
    <3>1. do \in {"loadW1", "loadW2"} /\ (x = w \/ WriteHeld("usb", x))
      BY <1>7, <2>4
    <3> QED
      BY <1>3, <2>1, <3>1
  <2>5. Quiet'
    BY <2>2, <2>3, <2>4 DEF Quiet, Laps, S
  <2>6. Undisturbed'
    <3>1. CASE do # "on"
      BY <1>2, <1>11, <3>1 DEF Undisturbed
    <3>2. CASE do = "on"
      <4>1. Stores(s, "storeW") <= Stores(s, "storeR") /\ Stores(s, "storeR") = 0
        BY <1>2, <3>2, StoresOrder DEF do
      <4>2. Stores(Tail(s), "storeW") = 0 /\ Stores(Tail(s), "storeR") = 0
        BY <1>4, <3>2, <4>1
      <4>3. ~follow_pending
        BY <1>1, <1>4, <3>2 DEF Code
      <4> QED
        BY <1>2, <1>8, <4>2, <4>3 DEF Undisturbed
    <3> QED
      BY <3>1, <3>2
  <2>7. MainReads'
    BY <2>3 DEF MainReads, MainHolds, ReadHeld, NextIs
  <2>8. HopNears'
    <3>1. LeftR' = 0
      BY <1>8, <2>3, NothingStored
    <3>2. Near(r)'
      BY <2>2 DEF Near, Laps, S
    <3> QED
      BY <3>1, <3>2 DEF HopNears
  <2> QED
    BY <1>2, <2>5, <2>6, <2>7, <2>8 DEF StallInv
<1> QED
  BY <1>1, <1>10, <1>11

\* An access of a hop: its second reset leaves the write position near the read
\* position, wherever the interrupt came between the accesses.
LEMMA MainExecuteStall ==
  ASSUME StallIInv, Execute("main"), TypeOK'
  PROVE  StallInv'
<1> DEFINE s == todo["main"]
           do == Head(s).do
           A == reg["main"].a
           B == reg["main"].b
<1>1. /\ TypeOK /\ Code /\ Lists /\ Quiet /\ Undisturbed /\ MainReads /\ HopNears
      /\ transceiver_mode \in {"OFF", "BTLE"}
  BY DEF StallIInv, StallInv, LagIInv, LagInv, IInv, TypeOK
<1>2. /\ Lists' /\ s \in Seq(Ops) /\ s # <<>> /\ Straight(s)
      /\ todo'["main"] = Tail(s)
      /\ todo'["usb"] = todo["usb"] /\ UNCHANGED <<pc, follow_pending>>
      /\ do = "on" => transceiver_mode' = "BTLE"
      /\ do # "on" => transceiver_mode' = transceiver_mode
  BY ExecuteLists
<1>3. transceiver_mode = "BTLE" /\ transceiver_mode' = "BTLE"
  BY <1>1, <1>2 DEF Quiet
<1>4. /\ r \in Nat /\ w \in Nat /\ reg \in [{"main", "usb"} -> [a : Nat, b : Nat]]
      /\ A \in Nat /\ B \in Nat /\ S \in Nat \ {0}
  <2>1. /\ r \in Nat /\ w \in Nat /\ reg \in [{"main", "usb"} -> [a : Nat, b : Nat]]
        /\ S \in Nat \ {0}
    BY <1>1, Typed
  <2> QED
    BY <2>1
<1>5. /\ do = "storeW" => r' = r /\ w' \in SkipValues(reg["main"])
      /\ do = "storeR" => w' = w /\ r' \in SkipValues(reg["main"])
      /\ do \notin {"storeW", "storeR"} => r' = r /\ w' = w
      /\ do = "loadW1" => reg'["main"].a = w
      /\ do = "loadW2" => reg'["main"].b = w /\ reg'["main"].a = A
  <2>1. /\ do = "storeW" => r' = r /\ w' \in SkipValues(reg["main"])
        /\ do = "storeR" => w' = w /\ r' \in SkipValues(reg["main"])
        /\ do \notin {"storeW", "storeR"} => r' = r /\ w' = w
    BY <1>1, AccessIs DEF Loads, Settings
  <2>2. /\ do = "loadW1" => reg' = [reg EXCEPT !["main"].a = w]
        /\ do = "loadW2" => reg' = [reg EXCEPT !["main"].b = w]
    BY <1>1, AccessIs
  <2> QED
    BY <1>4, <2>1, <2>2
<1>6. /\ \A k \in {"storeW", "storeR"} :
           /\ Stores(Tail(s), k) = Stores(s, k) - (IF do = k THEN 1 ELSE 0)
           /\ Stores(s, k) \in 0 .. 2 /\ (do = k => Stores(s, k) >= 1)
  BY <1>2, HeadCounts
<1>7. /\ LeftR = Stores(s, "storeR") /\ LeftW = Stores(s, "storeW")
      /\ LeftR' = Stores(Tail(s), "storeR") /\ LeftW' = Stores(Tail(s), "storeW")
  <2>1. LeftR' = Stores(todo'["main"], "storeR") /\ LeftW' = Stores(todo'["main"], "storeW")
    BY DEF LeftR, LeftW, Stores, StoresOnce, StoresTwice
  <2> QED
    BY <1>2, <2>1 DEF LeftR, LeftW
<1>8. /\ NextIs(todo["main"], "loadW2")' => do = "loadW1"
      /\ NextIs(todo["main"], "storeW")' => do = "loadW2"
  <2>1. \A k : NextIs(todo["main"], k)' <=> NextIs(Tail(s), k)
    BY <1>2 DEF NextIs
  <2> QED
    BY <1>2, <2>1, NextAfter
<1>9. \A k : do = k => NextIs(s, k)
  BY <1>2 DEF NextIs
<1>10. MainReads'
  <2> SUFFICES ASSUME NEW y \in Nat, MainHolds(y)' PROVE y = r'
    BY DEF MainReads
  <2>1. pc' \in {"hopped", "loop"}
    BY <1>1, <1>2 DEF Code
  <2>2. ReadHeld("main", y)'
    BY <2>1 DEF MainHolds
  <2>3. do \in {"loadR1", "loadR2"} /\ (y = r \/ ReadHeld("main", y))
    <3>1. LagIInv
      BY DEF StallIInv
    <3> QED
      BY <2>2, <3>1, AccessHolds DEF do
  <2>4. y = r
    BY <1>1, <2>3 DEF MainReads, MainHolds
  <2> QED
    BY <1>5, <2>3, <2>4
<1>11. Undisturbed'
  <2>1. Stores(todo["usb"], "storeW")' = Stores(todo'["usb"], "storeW")
        /\ Stores(todo["usb"], "storeR")' = Stores(todo'["usb"], "storeR")
    BY DEF Stores, StoresOnce, StoresTwice
  <2> QED
    BY <1>1, <1>2, <1>3, <2>1 DEF Undisturbed
<1>12. Quiet'
  BY <1>3 DEF Quiet
<1> HIDE DEF do
<1>13. CASE do = "storeR"
  <2>1. A = r /\ B = r
    <3>1. MainHolds(A) /\ MainHolds(B)
      BY <1>9, <1>13 DEF MainHolds, ReadHeld
    <3> QED
      BY <1>1, <1>4, <3>1 DEF MainReads
  <2>2. r' = r + ToNextLap(r) /\ w' = w
    BY <1>5, <1>13, <2>1 DEF SkipValues
  <2>3. Laps(r + ToNextLap(r)) /\ (Laps(r) => ToNextLap(r) = S)
    BY <1>4, NextLap
  <2>4. Laps(r)'
    BY <2>2, <2>3 DEF Laps, S
  <2>5. ~NextIs(todo["main"], "loadW2")' /\ ~NextIs(todo["main"], "storeW")'
    BY <1>8, <1>13
  <2>6. LeftR' = LeftR - 1 /\ LeftR \in 1 .. 2 /\ LeftW' \in 0 .. 2
    <3>1. Stores(Tail(s), "storeW") \in 0 .. 2
      BY StoresTyped
    <3> QED
      BY <1>6, <1>7, <1>13, <3>1
  <2>7. ASSUME LeftR' = 1 PROVE LeftW' # 0
    <3>1. StoresOnce(Tail(s), "storeR")
      BY <1>7, <2>7 DEF Stores, StoresTwice, StoresOnce
    <3>2. StoresOnce(Tail(s), "storeW")
      BY <1>1, <1>2, <1>13, <3>1, AlternateTail DEF Lists, do
    <3> QED
      BY <1>7, <3>2 DEF Stores
  <2>8. ASSUME LeftR' = 0 PROVE Near(r)'
    <3>1. LeftR = 1
      BY <2>6, <2>8
    <3>2. LeftW = 0
      <4>1. Straight(Tail(s)) /\ Tail(s) \in Seq(Ops)
        BY <1>2, StraightTail, TailIs
      <4>2. Stores(Tail(s), "storeW") <= Stores(Tail(s), "storeR")
        BY <4>1, StoresOrder
      <4>3. Stores(Tail(s), "storeW") = Stores(s, "storeW") /\ Stores(s, "storeW") \in 0 .. 2
        BY <1>6, <1>13
      <4> QED
        BY <1>7, <2>8, <4>2, <4>3
    <3>3. Laps(r) /\ Near(r + S)
      BY <1>1, <3>1, <3>2 DEF HopNears
    <3>4. r' = r + S
      BY <2>2, <2>3, <3>3
    <3> QED
      BY <2>2, <3>3, <3>4 DEF Near, Laps, S
  <2>9. HopNears'
    BY <2>4, <2>5, <2>7, <2>8 DEF HopNears
  <2> QED
    BY <1>2, <1>10, <1>11, <1>12, <2>9 DEF StallInv
<1>14. CASE do = "storeW"
  <2>1. ~NextIs(todo["main"], "loadW2")' /\ ~NextIs(todo["main"], "storeW")'
    BY <1>8, <1>14
  <2>2. LeftR' = LeftR /\ LeftR # 0
    <3>1. Stores(s, "storeW") <= Stores(s, "storeR")
      BY <1>2, StoresOrder
    <3>2. /\ Stores(s, "storeW") \in 0 .. 2 /\ Stores(s, "storeW") >= 1
          /\ Stores(s, "storeR") \in 0 .. 2
      BY <1>6, <1>14
    <3>3. Stores(Tail(s), "storeR") = Stores(s, "storeR")
      BY <1>6, <1>14, <3>2
    <3> QED
      BY <1>7, <3>1, <3>2, <3>3
  <2>3. ASSUME LeftR = 1 PROVE Laps(r)' /\ Near(r + S)'
    <3>1. Laps(r) /\ Loaded(A, B)
      BY <1>1, <1>9, <1>14, <2>3 DEF HopNears
    <3>2. reg["main"] \in [a : Nat, b : Nat]
      BY <1>4
    <3>3. r' = r /\ w' \in SkipValues(reg["main"])
      BY <1>5, <1>14
    <3>4. w' - (r + S) < S \/ Laps(w')
      BY <1>1, <3>1, <3>2, <3>3, SkipNears
    <3> QED
      BY <3>1, <3>3, <3>4 DEF Near, Laps, S
  <2>4. HopNears'
    BY <2>1, <2>2, <2>3 DEF HopNears
  <2> QED
    BY <1>2, <1>10, <1>11, <1>12, <2>4 DEF StallInv
<1>15. CASE do \notin {"storeR", "storeW"}
  <2>1. r' = r /\ w' = w
    BY <1>5, <1>15
  <2>2. LeftR' = LeftR /\ LeftW' = LeftW
    <3>1. \A k \in {"storeW", "storeR"} : Stores(Tail(s), k) = Stores(s, k)
      BY <1>6, <1>15
    <3> QED
      BY <1>7, <3>1
  <2>3. /\ Near(r)' <=> Near(r)
        /\ Near(r + S)' <=> Near(r + S)
        /\ Laps(r)' <=> Laps(r)
    BY <2>1 DEF Near, Laps, S
  <2>4. ASSUME NextIs(todo["main"], "loadW2")' PROVE Loaded(reg["main"].a, w)'
    <3>1. reg'["main"].a = w'
      BY <1>5, <1>8, <2>1, <2>4
    <3> QED
      BY <3>1 DEF Loaded, S
  <2>5. ASSUME NextIs(todo["main"], "storeW")', LeftR = 1
        PROVE  Loaded(reg["main"].a, reg["main"].b)'
    <3>1. do = "loadW2" /\ reg'["main"].a = A /\ reg'["main"].b = w
      BY <1>5, <1>8, <2>5
    <3>2. Loaded(A, w)
      BY <1>1, <1>9, <2>5, <3>1 DEF HopNears
    <3> QED
      BY <2>1, <3>1, <3>2 DEF Loaded, S
  <2>6. HopNears'
    BY <1>1, <2>2, <2>3, <2>4, <2>5 DEF HopNears
  <2> QED
    BY <1>2, <1>10, <1>11, <1>12, <2>6 DEF StallInv
<1> QED
  BY <1>13, <1>14, <1>15

-----------------------------------------------------------------------------
(* Requests, and main's iteration *)

LEMMA RequestStall ==
  ASSUME StallIInv, TypeOK', NEW ops, todo["usb"] = <<>>, transceiver_mode = "OFF",
         todo' = [todo EXCEPT !["usb"] = ops], Unbegun(ops), ~StoresOnce(ops, "off"),
         UNCHANGED <<positions, reg, pc, transceiver_mode>>
  PROVE  StallInv'
<1>1. /\ TypeOK /\ Lists /\ Quiet /\ MainReads /\ HopNears
  BY DEF StallIInv, StallInv, LagIInv, IInv
<1>2. /\ todo'["usb"] = ops /\ todo'["main"] = todo["main"]
      /\ r' = r /\ w' = w /\ reg' = reg /\ pc' = pc /\ transceiver_mode' = "OFF"
  BY <1>1, Typed DEF positions, r, w
<1>3. pc = "loop" /\ todo["main"] = <<>> /\ Laps(r) /\ Laps(w)
  BY <1>1 DEF Quiet
<1>4. Lists'
  <2>1. \A e \in {"main", "usb"} : ~StoresOnce(todo'[e], "off")
    BY <1>1, <1>2 DEF Lists
  <2> QED
    BY <1>1, <1>2, <2>1 DEF Lists, Alternate, StoresOnce
<1>5. Quiet'
  <2>1. \A x : ~WriteHeld("usb", x)'
    <3>1. \A k \in {"loadW2", "storeW"} : ~NextIs(ops, k)
      BY DEF Unbegun, NextIs
    <3> QED
      BY <1>2, <3>1 DEF WriteHeld, NextIs
  <2> QED
    BY <1>2, <1>3, <2>1 DEF Quiet, Laps, S
<1>6. Undisturbed'
  BY <1>2 DEF Undisturbed
<1>7. MainReads'
  BY <1>2, <1>3 DEF MainReads, MainHolds, ReadHeld, NextIs
<1>8. HopNears'
  <2>1. LeftR' = 0
    <3>1. LeftR' = Stores(todo'["main"], "storeR")
      BY DEF LeftR, Stores, StoresOnce, StoresTwice
    <3> QED
      BY <1>2, <1>3, <3>1, NothingStored
  <2>2. Near(r)'
    BY <1>2, <1>3 DEF Near, Laps, S
  <2> QED
    BY <2>1, <2>2 DEF HopNears
<1> QED
  BY <1>4, <1>5, <1>6, <1>7, <1>8 DEF StallInv

LEMMA UsbStall ==
  ASSUME StallIInv, OnlyStarts, UsbIsr, TypeOK'
  PROVE  StallInv'
<1>1. TypeOK /\ Undisturbed /\ transceiver_mode \in {"OFF", "BTLE"}
  BY DEF StallIInv, StallInv, LagIInv, IInv, TypeOK
<1>2. ASSUME NEW request \in Requests, NEW ch \in Channels, UsbRequest(request, ch)
      PROVE  StallInv'
  <2> DEFINE ops == RequestOps(request, ch)
  <2>1. request \in {"start_fixed", "start_follow"}
    BY DEF OnlyStarts
  <2>2. /\ todo["usb"] = <<>> /\ todo' = [todo EXCEPT !["usb"] = ops]
        /\ UNCHANGED <<positions, reg, pc, transceiver_mode>>
    BY <1>2 DEF UsbRequest
  <2>3. transceiver_mode = "OFF"
    BY <1>2, <2>1 DEF UsbRequest, Legal
  <2>4. Unbegun(ops) /\ ~StoresOnce(ops, "off")
    BY <2>1, ListsUnbegun, ListsOfStarts
  <2> HIDE DEF ops
  <2> QED
    BY <2>2, <2>3, <2>4, RequestStall
<1>3. ASSUME UsbFollowData PROVE StallInv'
  <2> DEFINE ops == RequestOps("follow_data", CHANNEL_START)
  <2>1. /\ todo["usb"] = <<>> /\ todo' = [todo EXCEPT !["usb"] = ops] /\ follow_pending
        /\ UNCHANGED <<positions, reg, pc, transceiver_mode>>
    BY <1>3 DEF UsbFollowData
  <2>2. transceiver_mode = "OFF"
    BY <1>1, <2>1 DEF Undisturbed
  <2>3. Unbegun(ops) /\ ~StoresOnce(ops, "off")
    BY ListsUnbegun, ListsOfStarts, ChannelAssumption
  <2> HIDE DEF ops
  <2> QED
    BY <2>1, <2>2, <2>3, RequestStall
<1> QED
  BY <1>2, <1>3, UsbExecuteStall DEF UsbIsr

LEMMA ReadNears ==
  ASSUME NEW p \in Nat, NEW q \in Nat, p <= q, NEW v \in Nat, v - p < S
  PROVE  v - q < S
BY SizePositive DEF S

\* A step of an iteration moves the read position only forward, and main holds no
\* other.
LEMMA IterationStall ==
  ASSUME StallIInv, TypeOK', todo["main"] = <<>>, transceiver_mode = "BTLE",
         UNCHANGED <<sample_pos_write, todo, config>>, r <= r',
         \A y \in Nat : MainHolds(y)' => y = r'
  PROVE  StallInv'
<1>1. TypeOK /\ Lists /\ Undisturbed /\ HopNears
  BY DEF StallIInv, StallInv, LagIInv, IInv
<1>2. w' = w /\ todo' = todo /\ transceiver_mode' = "BTLE" /\ follow_pending' = follow_pending
  BY DEF config, w
<1>3. /\ LeftR' = LeftR /\ (Lists' <=> Lists)
      /\ \A c, k : Stores(todo[c], k)' = Stores(todo[c], k)
  BY <1>2, SameTodo
<1>4. LeftR = 0
  BY NothingStored DEF LeftR
<1>5. Near(r)'
  <2>1. Near(r) /\ r \in Nat /\ w \in Nat /\ S \in Nat
    BY <1>1, <1>4, Typed DEF HopNears
  <2>2. r' \in Nat
    BY DEF TypeOK, r
  <2>3. w - r < S => w' - r' < S
    <3>1. w - r < S => w - r' < S
      BY <2>1, <2>2, ReadNears
    <3> QED
      BY <1>2, <3>1
  <2>4. Laps(w) => Laps(w)'
    BY <1>2 DEF Laps, S
  <2> QED
    BY <2>1, <2>3, <2>4 DEF Near, Laps, S
<1>6. HopNears'
  BY <1>3, <1>4, <1>5 DEF HopNears
<1>7. Quiet' /\ Undisturbed'
  BY <1>1, <1>2, <1>3 DEF Quiet, Undisturbed
<1>8. MainReads'
  BY DEF MainReads
<1> QED
  BY <1>1, <1>3, <1>6, <1>7, <1>8 DEF StallInv

LEMMA HopStall ==
  ASSUME StallIInv, TypeOK', NEW ch \in Channels, transceiver_mode = "BTLE",
         todo' = [todo EXCEPT !["main"] = SetChannelOps(ch)],
         UNCHANGED <<config, reg>>, pc' \in {"hopped", "loop"}
  PROVE  StallInv'
<1> DEFINE ops == SetChannelOps(ch)
<1>1. TypeOK /\ Lists /\ Undisturbed
  BY DEF StallIInv, StallInv, LagIInv, IInv
<1>2. /\ todo'["main"] = ops /\ todo'["usb"] = todo["usb"]
      /\ transceiver_mode' = "BTLE" /\ follow_pending' = follow_pending
  BY <1>1, Typed DEF config
<1>3. /\ Unbegun(ops) /\ Alternate(ops) /\ Stores(ops, "storeR") = 2
      /\ ~StoresOnce(ops, "off")
  BY ListsUnbegun, ListsOfStarts
<1> HIDE DEF ops
<1>4. Lists'
  <2>1. \A e \in {"main", "usb"} : ~StoresOnce(todo'[e], "off")
    BY <1>1, <1>2, <1>3 DEF Lists
  <2>2. Alternate(todo'["main"])
    BY <1>2, <1>3
  <2> QED
    BY <2>1, <2>2 DEF Lists, Alternate, StoresOnce
<1>5. Quiet' /\ Undisturbed'
  <2>1. \A k : Stores(todo["usb"], k)' = Stores(todo'["usb"], k)
    BY DEF Stores, StoresOnce, StoresTwice
  <2> QED
    BY <1>1, <1>2, <2>1 DEF Quiet, Undisturbed
<1>6. MainReads'
  <2>1. \A k \in {"loadR2", "storeR"} : ~NextIs(ops, k)
    BY <1>3 DEF Unbegun, NextIs
  <2> QED
    BY <1>2, <2>1 DEF MainReads, MainHolds, ReadHeld, NextIs
<1>7. HopNears'
  <2>1. LeftR' = Stores(todo'["main"], "storeR")
    BY DEF LeftR, Stores, StoresOnce, StoresTwice
  <2>2. LeftR' = 2
    BY <1>2, <1>3, <2>1
  <2> QED
    BY <2>2 DEF HopNears
<1> QED
  BY <1>4, <1>5, <1>6, <1>7 DEF StallInv

LEMMA MainStall ==
  ASSUME StallIInv, MainStep, TypeOK'
  PROVE  StallInv'
<1>1. /\ TypeOK /\ Quiet /\ MainReads /\ transceiver_mode \in {"OFF", "BTLE"}
  BY DEF StallIInv, StallInv, LagIInv, IInv, TypeOK
<1>2. UNCHANGED <<sample_pos_write, config>> /\ r \in Nat /\ r' \in Nat
  BY <1>1, Typed DEF MainStep, TypeOK, r
<1>3. /\ bytesread \in Nat /\ reg["main"] \in [a : Nat, b : Nat]
      /\ reg \in [{"main", "usb"} -> [a : Nat, b : Nat]]
  BY <1>1, Typed
<1>4. transceiver_mode = "BTLE" /\ MainAt(pc)
  <2>1. pc # "loop" \/ transceiver_mode = "BTLE"
    BY DEF MainStep, MainLoop, MainSpin, MainHop, MainHopped, MainCheck, MainIdxRead,
           MainIdxWrite, MainTag, MainDemod, MainLoad, MainStore, MainSkip, MainUpdate, MainAt
  <2>2. MainAt(pc)
    BY DEF MainStep, MainLoop, MainSpin, MainHop, MainHopped, MainCheck, MainIdxRead,
           MainIdxWrite, MainTag, MainDemod, MainLoad, MainStore, MainSkip, MainUpdate, MainAt
  <2> QED
    BY <1>1, <2>1, <2>2 DEF Quiet
<1>5. todo["main"] = <<>>
  BY <1>4 DEF MainAt
\* Most steps change neither what main holds nor the positions.
<1>6. ASSUME UNCHANGED todo, r' = r, pc' \notin {"store", "skip2", "skip3"}
      PROVE  StallInv'
  <2>1. \A y \in Nat : MainHolds(y)' => y = r'
    BY <1>5, <1>6 DEF MainHolds, ReadHeld, NextIs
  <2>2. r <= r'
    BY <1>2, <1>6
  <2> QED
    BY <1>2, <1>4, <1>5, <1>6, <2>1, <2>2, IterationStall
<1>7. CASE MainLoop \/ MainSpin \/ MainHopped \/ MainCheck \/ MainIdxRead
  BY <1>6, <1>7 DEF MainLoop, MainSpin, MainHopped, MainCheck, MainIdxRead, contexts, r
<1>8. CASE MainHop
  <2>1. CASE pc' = "check" /\ UNCHANGED todo
    BY <1>6, <1>8, <2>1 DEF MainHop, r
  <2>2. CASE ~(pc' = "check" /\ UNCHANGED todo)
    <3>1. /\ next_channel_trigger # -1 /\ pc' = "hopped" /\ UNCHANGED reg
          /\ todo' = [todo EXCEPT !["main"] = SetChannelOps(next_channel_trigger)]
      BY <1>8, <2>2 DEF MainHop
    <3>2. next_channel_trigger \in Channels
      BY <1>1, <3>1, ChannelAssumption DEF TypeOK
    <3> QED
      BY <1>2, <1>4, <3>1, <3>2, HopStall
  <2> QED
    BY <2>1, <2>2
<1>9. CASE MainIdxWrite
  <2>1. pc' \in {"loop", "tag", "skip1"}
    BY <1>9 DEF MainIdxWrite
  <2> QED
    BY <1>6, <1>9, <2>1 DEF MainIdxWrite, contexts, r
<1>10. CASE MainTag \/ MainDemod
  BY <1>6, <1>10 DEF MainTag, MainDemod, contexts, r
<1>11. CASE MainLoad
  <2>1. pc' = "store" /\ UNCHANGED todo /\ r' = r /\ reg'["main"].a = r
    BY <1>3, <1>11 DEF MainLoad, r
  <2>2. \A y \in Nat : MainHolds(y)' => y = r'
    BY <1>5, <2>1 DEF MainHolds, ReadHeld, NextIs
  <2> QED
    BY <1>2, <1>4, <1>5, <2>1, <2>2, IterationStall
<1>12. CASE MainStore
  <2>1. /\ pc = "store" /\ pc' \in {"update", "skip1", "loop"} /\ UNCHANGED todo
        /\ r' = reg["main"].a + bytesread
    BY <1>12 DEF MainStore, MainAt, contexts, r
  <2>2. reg["main"].a = r
    <3>1. MainHolds(reg["main"].a)
      BY <2>1 DEF MainHolds
    <3> QED
      BY <1>1, <1>3, <3>1 DEF MainReads
  <2>3. \A y \in Nat : MainHolds(y)' => y = r'
    BY <1>5, <2>1 DEF MainHolds, ReadHeld, NextIs
  <2>4. r <= r'
    BY <1>2, <1>3, <2>1, <2>2
  <2> QED
    BY <1>2, <1>4, <1>5, <2>1, <2>3, <2>4, IterationStall
<1>13. CASE MainSkip
  <2>1. /\ UNCHANGED todo
        /\ \/ pc = "skip1" /\ pc' = "skip2" /\ r' = r /\ reg'["main"].a = r
           \/ /\ pc = "skip2" /\ pc' = "skip3" /\ r' = r
              /\ reg'["main"].b = r /\ reg'["main"].a = reg["main"].a
           \/ pc = "skip3" /\ pc' = "loop" /\ r' \in SkipValues(reg["main"])
    BY <1>3, <1>13 DEF MainSkip, MainAt, r
  <2>2. pc \in {"skip2", "skip3"} => reg["main"].a = r
    <3>1. pc \in {"skip2", "skip3"} => MainHolds(reg["main"].a)
      BY DEF MainHolds
    <3> QED
      BY <1>1, <1>3, <3>1 DEF MainReads
  <2>3. pc = "skip3" => reg["main"].b = r
    <3>1. pc = "skip3" => MainHolds(reg["main"].b)
      BY DEF MainHolds
    <3> QED
      BY <1>1, <1>3, <3>1 DEF MainReads
  <2>4. \A y \in Nat : MainHolds(y)' => y = r'
    BY <1>5, <2>1, <2>2 DEF MainHolds, ReadHeld, NextIs
  <2>5. r <= r'
    <3>1. CASE r' = r
      BY <1>2, <3>1
    <3>2. CASE r' \in SkipValues(reg["main"]) /\ pc = "skip3"
      <4>1. r' >= reg["main"].a \/ r' >= reg["main"].b
        BY <1>3, <3>2, SkipIs
      <4> QED
        BY <1>2, <2>2, <2>3, <3>2, <4>1
    <3> QED
      BY <2>1, <3>1, <3>2
  <2> QED
    BY <1>2, <1>4, <1>5, <2>1, <2>4, <2>5, IterationStall
<1>14. CASE MainUpdate
  <2>1. pc' = "loop" /\ UNCHANGED <<sample_pos_read, reg>>
    BY <1>14 DEF MainUpdate
  <2>2. CASE UNCHANGED todo
    BY <1>6, <2>1, <2>2 DEF r
  <2>3. CASE ~UNCHANGED todo
    <3>1. PICK ch \in HopChannels : todo' = [todo EXCEPT !["main"] = SetChannelOps(ch)]
      BY <1>14, <2>3 DEF MainUpdate
    <3>2. ch \in Channels
      BY ChannelAssumption
    <3> QED
      BY <1>2, <1>4, <2>1, <3>1, <3>2, HopStall
  <2> QED
    BY <2>2, <2>3
<1> QED
  BY <1>7, <1>8, <1>9, <1>10, <1>11, <1>12, <1>13, <1>14 DEF MainStep

LEMMA InitStall == Init => StallIInv
<1> SUFFICES ASSUME Init PROVE StallIInv
  OBVIOUS
<1>1. /\ r = 0 /\ w = 0 /\ pc = "loop" /\ transceiver_mode = "OFF"
      /\ todo["main"] = <<>> /\ todo["usb"] = <<>>
  BY DEF Init, r, w
<1>2. Laps(0)
  <2>1. 0 = S * 0 /\ 0 \in Nat
    BY SizePositive DEF S
  <2> QED
    BY <2>1 DEF Laps
<1>3. Lists
  BY <1>1, EmptySeq DEF Lists, Alternate, StoresOnce
<1>4. Quiet /\ Undisturbed
  BY <1>1, <1>2 DEF Quiet, Undisturbed, WriteHeld, NextIs
<1>5. MainReads
  BY <1>1 DEF MainReads, MainHolds, ReadHeld, NextIs
<1>6. HopNears
  <2>1. LeftR = 0
    BY <1>1, NothingStored DEF LeftR
  <2> QED
    BY <1>1, <1>2, <2>1 DEF HopNears, Near
<1> QED
  BY <1>3, <1>4, <1>5, <1>6, InitLag DEF StallIInv, StallInv

LEMMA NextStall ==
  ASSUME OnlyStarts
  PROVE  StallIInv /\ [Next]_vars => StallIInv'
<1> SUFFICES ASSUME StallIInv, [Next]_vars PROVE StallIInv'
  OBVIOUS
<1>1. LagIInv' /\ TypeOK'
  BY NextLag DEF StallIInv, LagIInv, IInv
<1>2. CASE SgpioIsr
  BY <1>1, <1>2, SgpioStall DEF StallIInv
<1>3. CASE UsbIsr
  BY <1>1, <1>3, UsbStall DEF StallIInv
<1>4. CASE MainStep
  BY <1>1, <1>4, MainStall DEF StallIInv
<1>5. CASE Execute("main")
  BY <1>1, <1>5, MainExecuteStall DEF StallIInv
<1>6. CASE UNCHANGED vars
  <2>1. /\ UNCHANGED <<todo, reg, pc, follow_pending>> /\ r' = r /\ w' = w
        /\ UNCHANGED transceiver_mode
    BY <1>6 DEF vars, positions, contexts, config, r, w
  <2>2. /\ LeftR' = LeftR /\ LeftW' = LeftW /\ (Lists' <=> Lists)
        /\ \A c, k : /\ Stores(todo[c], k)' = Stores(todo[c], k)
                     /\ NextIs(todo[c], k)' <=> NextIs(todo[c], k)
    BY <2>1, SameTodo
  <2>3. /\ \A c, x : WriteHeld(c, x)' <=> WriteHeld(c, x)
        /\ \A y : MainHolds(y)' <=> MainHolds(y)
    BY <2>1, SameContexts
  <2>4. Lists' /\ Quiet' /\ Undisturbed' /\ MainReads'
    BY <2>1, <2>2, <2>3 DEF StallIInv, StallInv, Quiet, Undisturbed, MainReads, Laps, S
  <2>5. HopNears'
    BY <2>1, <2>2 DEF StallIInv, StallInv, HopNears, Near, Loaded, Laps, S
  <2> QED
    BY <1>1, <2>4, <2>5 DEF StallIInv, StallInv
<1> QED
  BY <1>2, <1>3, <1>4, <1>5, <1>6 DEF Next

\* When the host only starts sessions, requests and hops leave the positions as
\* StallInv says, wherever the interrupt comes between their accesses.
THEOREM StallInvariance ==
  ASSUME OnlyStarts
  PROVE  Spec => []StallIInv
<1>1. StallIInv /\ [Next]_vars => StallIInv'
  BY NextStall
<1> QED
  BY <1>1, InitStall, PTL DEF Spec

\* In a session the host leaves alone, main and the interrupt never wait for each
\* other: the interrupt drops samples only while main has a window it can advance
\* in, however often main has hopped.
THEOREM NeitherWaits ==
  ASSUME OnlyStarts, Roomy
  PROVE  Spec => []NoStall
<1>1. StallIInv => NoStall
  <2> SUFFICES ASSUME StallIInv, Settled, Full
               PROVE  /\ r < w
                      /\ \/ (r % S) >= (w % S)
                         \/ (w % S) - (r % S) > PACKET_SAMPLES_MAX + LOOKAHEAD
    BY DEF NoStall, WriteIndex, r, w, S
  <2>1. /\ r \in Nat /\ w \in Nat /\ S \in Nat \ {0} /\ BLOCK \in Nat
        /\ PACKET_SAMPLES_MAX \in Nat /\ LOOKAHEAD \in Nat
        /\ PACKET_SAMPLES_MAX + BLOCK < S /\ PACKET_SAMPLES_MAX + LOOKAHEAD + BLOCK < S
    BY Typed, SizeAssumption DEF StallIInv, LagIInv, IInv, Roomy, S
  <2>2. w - r >= S - BLOCK
    BY DEF Full, r, w, S
  <2>3. r < w
    BY <2>1, <2>2
  <2>4. Near(r)
    <3>1. LeftR = 0
      BY NothingStored DEF Settled, LeftR
    <3> QED
      BY <3>1 DEF StallIInv, StallInv, HopNears
  <2>5. (r % S) \in 0 .. S - 1 /\ (w % S) \in 0 .. S - 1
    BY <2>1, LapAndOffset DEF Slots, S
  <2>6. CASE Laps(w)
    <3>1. PICK q \in Nat : w = S * q + 0
      BY <2>1, <2>6 DEF Laps
    <3>2. w % S = 0
      <4>1. 0 \in Slots
        BY <2>1 DEF Slots, S
      <4> QED
        BY <2>1, <3>1, <4>1, OffsetOf
    <3> QED
      BY <2>3, <2>5, <3>2
  <2>7. CASE w - r < S
    <3>1. CASE (r % S) < (w % S)
      <4>1. (w % S) - (r % S) >= w - r
        <5>1. PICK n \in Nat : w = S * n + (w % S)
          BY <2>1, LapAndOffset DEF S
        <5>2. PICK m \in Nat : r = S * m + (r % S)
          BY <2>1, LapAndOffset DEF S
        <5>3. n <= m
          <6>1. ASSUME m + 1 <= n PROVE FALSE
            <7>1. Lap(m + 1) <= Lap(n) /\ Lap(m + 1) = Lap(m) + S
              BY <5>1, <5>2, <6>1, LapIs
            <7>2. w = Lap(n) + (w % S) /\ r = Lap(m) + (r % S)
              BY <5>1, <5>2 DEF Lap
            <7>3. Lap(m) \in Int /\ Lap(n) \in Int
              BY LapIs
            <7> QED
              BY <2>1, <2>5, <2>7, <3>1, <7>1, <7>2, <7>3
          <6> QED
            BY <5>1, <5>2, <6>1
        <5>4. Lap(n) <= Lap(m) /\ Lap(m) \in Int /\ Lap(n) \in Int
          BY <5>3, LapIs
        <5>5. w = Lap(n) + (w % S) /\ r = Lap(m) + (r % S)
          BY <5>1, <5>2 DEF Lap
        <5> QED
          BY <2>1, <2>5, <5>4, <5>5
      <4> QED
        BY <2>1, <2>2, <2>3, <2>5, <4>1
    <3>2. CASE ~((r % S) < (w % S))
      BY <2>3, <2>5, <3>2
    <3> QED
      BY <3>1, <3>2
  <2> QED
    BY <2>4, <2>6, <2>7 DEF Near
<1>2. Spec => []StallIInv
  BY StallInvariance
<1> QED
  BY <1>1, <1>2, PTL
============================================================================
