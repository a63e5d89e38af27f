---------------------------- MODULE SampleRing ----------------------------
(***************************************************************************)
(* The ring of I/Q samples shared by three contexts of one CPU:            *)
(*                                                                         *)
(*   SGPIO interrupt  sgpio_isr_rx (priority 0): appends BLOCK bytes;      *)
(*   USB interrupt    a vendor request (priority 0xFF): reset_counter,     *)
(*                    set_channel, streaming on and off;                   *)
(*   main             the BTLE branch of the main loop: picks a window,    *)
(*                    demodulates it, advances the read position.          *)
(*                                                                         *)
(* The SGPIO interrupt preempts everything, the USB interrupt preempts     *)
(* main, and main runs only when no USB handler is active.  Both positions *)
(* are volatile 64-bit counters that grow for ever; a slot of the ring is  *)
(* a position modulo SAMPLE_BUFFER_SIZE.  "pos += SIZE - (pos & mask)"     *)
(* reads the volatile counter twice, in an order C leaves open, and then   *)
(* stores it: the three accesses are three steps here.                     *)
(***************************************************************************)
EXTENDS Integers, Sequences

CONSTANTS
  SAMPLE_BUFFER_SIZE,  \* bytes of the ring
  BLOCK,               \* bytes one SGPIO interrupt appends (8)
  PACKET_SAMPLES_MIN,  \* smallest window main demodulates
  PACKET_SAMPLES_MAX,  \* samples of the longest packet
  LOOKAHEAD,           \* preamble, address, header, shortest payload
  Channels,            \* channels a request or a hop may select
  CHANNEL_START,       \* 37, the channel a mode request selects
  CHANNEL_DEFAULT,     \* 39, the channel of init_btle_config
  HopChannels,         \* channels update_btle_state may hop to
  Requests,            \* vendor requests the host issues
  MaxBlocks,           \* bound: interrupts that move the write position
  MaxResets            \* bound: vendor requests and hops

ASSUME SizeAssumption ==
  /\ SAMPLE_BUFFER_SIZE \in Nat /\ BLOCK \in Nat \ {0}
  /\ PACKET_SAMPLES_MIN \in Nat /\ PACKET_SAMPLES_MAX \in Nat
  /\ LOOKAHEAD \in Nat
  /\ BLOCK <= PACKET_SAMPLES_MIN
  /\ PACKET_SAMPLES_MIN <= PACKET_SAMPLES_MAX
  /\ PACKET_SAMPLES_MAX + BLOCK < SAMPLE_BUFFER_SIZE
  /\ SAMPLE_BUFFER_SIZE % BLOCK = 0

ASSUME ChannelAssumption ==
  /\ {CHANNEL_START, CHANNEL_DEFAULT} \subseteq Channels
  /\ HopChannels \subseteq Channels /\ Channels \subseteq Nat
  /\ Requests \subseteq {"channel", "off", "start_fixed", "start_follow"}
  /\ MaxBlocks \in Nat /\ MaxResets \in Nat

VARIABLES
  sample_pos_write,
  sample_pos_read,
  sgpio_callback_finished,
  streaming,             \* is the SGPIO interrupt enabled?
  transceiver_mode,      \* "OFF" or "BTLE"
  current_channel,       \* btle_config_global.current_channel
  next_channel_trigger,  \* the planned hop, -1 for none
  tuned,                 \* the channel the radio receives
  pc,                    \* where main is in its loop
  todo,                  \* accesses a context has still to make
  reg,                   \* the values a context has loaded
  idx_read, idx_write, buflen_to_read, bytesread, channel_tmp, outcome,
  follow_pending,        \* a follow request waits for its DATA stage
  mem,                   \* ghost: position and channel of every stored byte
  report,                \* ghost: tag and samples of the last packet
  moved,                 \* ghost: a position was reset since main's check
  blocks, resets         \* the bounded counters

positions == <<sample_pos_write, sample_pos_read>>
config == <<streaming, transceiver_mode, current_channel, tuned, follow_pending>>
window == <<idx_read, idx_write, buflen_to_read, channel_tmp>>
result == <<bytesread, outcome>>
contexts == <<todo, reg>>
vars == <<positions, sgpio_callback_finished, config, next_channel_trigger, pc,
          contexts, window, result, mem, report, moved, blocks, resets>>

\* mutant: a whole lap, as if the position were at the start of one
ToNextLapUnaligned(pos) == SAMPLE_BUFFER_SIZE

\* SAMPLE_BUFFER_SIZE - (pos & usb_bulk_buffer_mask), added by every skip
ToNextLap(pos) == SAMPLE_BUFFER_SIZE - (pos % SAMPLE_BUFFER_SIZE)

Slots == 0 .. SAMPLE_BUFFER_SIZE - 1
NoWarning == "none"
NotEnough == "not_enough_samples"
Packet == "packet"

PCs == {"loop", "spin", "hop", "hopped", "check", "idx_read", "idx_write",
        "tag", "demod", "load", "store", "skip1", "skip2", "skip3", "update"}

Init ==
  /\ sample_pos_write = 0 /\ sample_pos_read = 0
  /\ sgpio_callback_finished = 0
  /\ streaming = FALSE /\ transceiver_mode = "OFF"
  /\ current_channel = CHANNEL_DEFAULT /\ next_channel_trigger = -1
  /\ tuned = CHANNEL_DEFAULT
  /\ pc = "loop"
  /\ todo = [c \in {"main", "usb"} |-> <<>>]
  /\ reg = [c \in {"main", "usb"} |-> [a |-> 0, b |-> 0]]
  /\ idx_read = 0 /\ idx_write = 0 /\ buflen_to_read = 0 /\ bytesread = 0
  /\ channel_tmp = 0 /\ outcome = NoWarning
  /\ follow_pending = FALSE
  /\ mem = [i \in Slots |-> [pos |-> -1, ch |-> -1]]
  /\ report = [tag |-> -1, chans |-> {}]
  /\ moved = FALSE
  /\ blocks = 0 /\ resets = 0
-----------------------------------------------------------------------------
(* sgpio_isr_rx *)

\* mutant: the block being stored is left out of the test
FullTooLate == sample_pos_write - sample_pos_read > SAMPLE_BUFFER_SIZE

Full == sample_pos_write - sample_pos_read >= SAMPLE_BUFFER_SIZE - BLOCK
WriteIndex == sample_pos_write % SAMPLE_BUFFER_SIZE
WriteSlots == WriteIndex .. WriteIndex + BLOCK - 1

\* buffer full: ignore the samples
IsrDrop ==
  /\ streaming /\ Full
  /\ sgpio_callback_finished' = 1
  /\ UNCHANGED <<positions, mem, blocks>>

\* the block is stored at the write position before the noise gate is tested
StoreBlock ==
  mem' = [i \in Slots |->
            IF i \in WriteSlots
              THEN [pos |-> sample_pos_write + (i - WriteIndex), ch |-> tuned]
              ELSE mem[i]]

\* a signal above the noise gate: keep the block
IsrSignal ==
  /\ streaming /\ ~Full /\ blocks < MaxBlocks
  /\ StoreBlock
  /\ sample_pos_write' = sample_pos_write + BLOCK
  /\ sgpio_callback_finished' = 1
  /\ blocks' = blocks + 1
  /\ UNCHANGED sample_pos_read

\* mutant: the write position skips wherever noise is seen
IsrNoiseAnywhere ==
  /\ streaming /\ ~Full /\ blocks < MaxBlocks
  /\ StoreBlock
  /\ sample_pos_write' = sample_pos_write + ToNextLap(sample_pos_write)
  /\ blocks' = blocks + 1
  /\ sgpio_callback_finished' = 1
  /\ UNCHANGED sample_pos_read

\* noise: the block will be overwritten, and near the end of the ring the
\* write position skips to the next lap
IsrNoise ==
  /\ streaming /\ ~Full
  /\ StoreBlock
  /\ IF SAMPLE_BUFFER_SIZE - WriteIndex < PACKET_SAMPLES_MAX
       THEN /\ blocks < MaxBlocks /\ blocks' = blocks + 1
            /\ sample_pos_write' = sample_pos_write + ToNextLap(sample_pos_write)
       ELSE UNCHANGED <<sample_pos_write, blocks>>
  /\ sgpio_callback_finished' = 1
  /\ UNCHANGED sample_pos_read

SgpioIsr ==
  /\ IsrDrop \/ IsrSignal \/ IsrNoise
  /\ UNCHANGED <<config, next_channel_trigger, pc, contexts, window, result,
                 report, moved, resets>>
-----------------------------------------------------------------------------
(* Straight-line code both main and a USB handler run, access by access *)

\* mutant: both lines reset the write position
ResetCounterOpsWriteTwice ==
  << [do |-> "loadW1"], [do |-> "loadW2"], [do |-> "storeW"],
     [do |-> "loadW1"], [do |-> "loadW2"], [do |-> "storeW"] >>

ResetCounterOps ==
  << [do |-> "loadW1"], [do |-> "loadW2"], [do |-> "storeW"],
     [do |-> "loadR1"], [do |-> "loadR2"], [do |-> "storeR"] >>

SetChannelOps(ch) ==
  ResetCounterOps \o << [do |-> "current", ch |-> ch], [do |-> "tune", ch |-> ch] >>
    \o ResetCounterOps

RequestOps(request, ch) ==
  CASE request = "channel" -> SetChannelOps(ch)
    [] request = "start_fixed" ->
         << [do |-> "current", ch |-> CHANNEL_START] >>
           \o SetChannelOps(CHANNEL_START) \o << [do |-> "on"] >>
    [] request = "start_follow" -> << [do |-> "current", ch |-> CHANNEL_START] >>
    [] request = "follow_data" ->
         ResetCounterOps \o << [do |-> "on"], [do |-> "retune"] >>
    [] request = "off" ->
         << [do |-> "current", ch |-> CHANNEL_START], [do |-> "off"] >>
           \o ResetCounterOps \o << [do |-> "init"] >>

\* the two loads of "pos += SIZE - (pos & mask)" happen in either order
SkipValues(r) == { r.a + ToNextLap(r.b), r.b + ToNextLap(r.a) }

Load(ctx, op) ==
  /\ \/ op.do \in {"loadW1", "loadR1"} /\
        reg' = [reg EXCEPT ![ctx].a =
                  IF op.do = "loadW1" THEN sample_pos_write ELSE sample_pos_read]
     \/ op.do \in {"loadW2", "loadR2"} /\
        reg' = [reg EXCEPT ![ctx].b =
                  IF op.do = "loadW2" THEN sample_pos_write ELSE sample_pos_read]
  /\ UNCHANGED <<positions, config, next_channel_trigger, moved>>

StorePos(ctx, op) ==
  /\ \E v \in SkipValues(reg[ctx]) :
       \/ op.do = "storeW" /\ sample_pos_write' = v /\ UNCHANGED sample_pos_read
       \/ op.do = "storeR" /\ sample_pos_read' = v /\ UNCHANGED sample_pos_write
  /\ moved' = TRUE
  /\ UNCHANGED <<config, next_channel_trigger, reg>>

SetCurrent(op) ==
  /\ op.do = "current" /\ current_channel' = op.ch
  /\ UNCHANGED <<positions, streaming, transceiver_mode, tuned, follow_pending,
                 next_channel_trigger, reg, moved>>

\* "retune" is the DATA stage's set_freq, on the channel selected at that time
Tune(op) ==
  /\ \/ op.do = "tune" /\ tuned' = op.ch
     \/ op.do = "retune" /\ tuned' = current_channel
  /\ UNCHANGED <<positions, streaming, transceiver_mode, current_channel,
                 follow_pending, next_channel_trigger, reg, moved>>

SetTransferMode(op) ==
  /\ op.do \in {"on", "off"}
  /\ streaming' = (op.do = "on")
  /\ transceiver_mode' = IF op.do = "on" THEN "BTLE" ELSE "OFF"
  /\ UNCHANGED <<positions, tuned, current_channel, follow_pending,
                 next_channel_trigger, reg, moved>>

InitConfig(op) ==
  /\ op.do = "init"
  /\ current_channel' = CHANNEL_DEFAULT /\ next_channel_trigger' = -1
  /\ UNCHANGED <<positions, streaming, transceiver_mode, tuned, follow_pending,
                 reg, moved>>

Execute(ctx) ==
  /\ todo[ctx] # <<>>
  /\ ctx = "main" => todo["usb"] = <<>>
  /\ todo' = [todo EXCEPT ![ctx] = Tail(@)]
  /\ LET op == Head(todo[ctx])
     IN  \/ Load(ctx, op) \/ StorePos(ctx, op) \/ SetCurrent(op) \/ Tune(op)
         \/ SetTransferMode(op) \/ InitConfig(op)
  /\ UNCHANGED <<sgpio_callback_finished, pc, window, result, mem, report,
                 blocks, resets>>
-----------------------------------------------------------------------------
(* USB interrupt: the requests that touch the ring *)

Legal(request) ==
  CASE request = "channel" -> transceiver_mode = "BTLE"
    [] request = "off" -> transceiver_mode # "OFF"
    [] request \in {"start_fixed", "start_follow"} -> transceiver_mode = "OFF"

UsbRequest(request, ch) ==
  /\ todo["usb"] = <<>> /\ resets < MaxResets /\ Legal(request)
  /\ todo' = [todo EXCEPT !["usb"] = RequestOps(request, ch)]
  /\ follow_pending' = (request = "start_follow")
  /\ resets' = resets + 1
  /\ UNCHANGED <<positions, sgpio_callback_finished, streaming, transceiver_mode,
                 current_channel, tuned, next_channel_trigger, pc, reg, window,
                 result, mem, report, moved, blocks>>

\* the DATA stage of a follow request: the advertising address has arrived
UsbFollowData ==
  /\ todo["usb"] = <<>> /\ follow_pending
  /\ follow_pending' = FALSE
  /\ todo' = [todo EXCEPT !["usb"] = RequestOps("follow_data", CHANNEL_START)]
  /\ UNCHANGED <<positions, sgpio_callback_finished, streaming, transceiver_mode,
                 current_channel, tuned, next_channel_trigger, pc, reg, window,
                 result, mem, report, moved, blocks, resets>>

UsbIsr ==
  \/ \E request \in Requests : \E ch \in Channels :
       (request # "channel" => ch = CHANNEL_START) /\ UsbRequest(request, ch)
  \/ UsbFollowData
  \/ Execute("usb")
-----------------------------------------------------------------------------
(* main *)

MainAt(from) == pc = from /\ todo["usb"] = <<>> /\ todo["main"] = <<>>

MainLoop ==
  /\ MainAt("loop") /\ transceiver_mode = "BTLE"
  /\ pc' = "spin"
  /\ UNCHANGED <<sgpio_callback_finished, sample_pos_read, next_channel_trigger,
                 contexts, window, result, report, moved, resets>>

MainSpin ==
  /\ MainAt("spin") /\ sgpio_callback_finished = 1
  /\ sgpio_callback_finished' = 0
  /\ pc' = "hop"
  /\ UNCHANGED <<sample_pos_read, next_channel_trigger, contexts, window, result,
                 report, moved, resets>>

\* a planned hop is taken once sample_counter_rx has passed sample_pos_store[0]
MainHop ==
  /\ MainAt("hop")
  /\ \/ /\ next_channel_trigger # -1 /\ resets < MaxResets
        /\ todo' = [todo EXCEPT !["main"] = SetChannelOps(next_channel_trigger)]
        /\ resets' = resets + 1
        /\ pc' = "hopped"
     \/ pc' = "check" /\ UNCHANGED <<todo, resets>>
  /\ UNCHANGED <<sgpio_callback_finished, sample_pos_read, next_channel_trigger,
                 reg, window, result, report, moved>>

MainHopped ==
  /\ MainAt("hopped")
  /\ next_channel_trigger' = -1
  /\ pc' = "check"
  /\ UNCHANGED <<sgpio_callback_finished, sample_pos_read, contexts, window,
                 result, report, moved, resets>>

\* not enough samples, same position or beyond the write position
TooFew == \/ sample_pos_read >= sample_pos_write
          \/ sample_pos_write - sample_pos_read < PACKET_SAMPLES_MIN

MainCheck ==
  /\ MainAt("check")
  /\ pc' = IF TooFew THEN "loop" ELSE "idx_read"
  /\ moved' = FALSE
  /\ UNCHANGED <<sgpio_callback_finished, sample_pos_read, next_channel_trigger,
                 contexts, window, result, report, resets>>

\* mutant: the mask is forgotten
MainIdxReadUnmasked ==
  /\ MainAt("idx_read")
  /\ idx_read' = sample_pos_read
  /\ pc' = "idx_write"
  /\ UNCHANGED <<sgpio_callback_finished, sample_pos_read, next_channel_trigger,
                 contexts, idx_write, buflen_to_read, channel_tmp, result, report,
                 moved, resets>>

MainIdxRead ==
  /\ MainAt("idx_read")
  /\ idx_read' = sample_pos_read % SAMPLE_BUFFER_SIZE
  /\ pc' = "idx_write"
  /\ UNCHANGED <<sgpio_callback_finished, sample_pos_read, next_channel_trigger,
                 contexts, idx_write, buflen_to_read, channel_tmp, result, report,
                 moved, resets>>

\* the window ends at the write position, or at the end of the ring
MainIdxWrite ==
  /\ MainAt("idx_write")
  /\ idx_write' = WriteIndex
  /\ buflen_to_read' = IF idx_read < WriteIndex THEN WriteIndex - idx_read
                                                ELSE SAMPLE_BUFFER_SIZE - idx_read
  /\ pc' = IF idx_read < WriteIndex
             THEN IF WriteIndex - idx_read < PACKET_SAMPLES_MIN THEN "loop" ELSE "tag"
             ELSE IF SAMPLE_BUFFER_SIZE - idx_read < PACKET_SAMPLES_MAX
                    THEN "skip1" ELSE "tag"
  /\ UNCHANGED <<sgpio_callback_finished, sample_pos_read, next_channel_trigger,
                 contexts, idx_read, channel_tmp, result, report, moved, resets>>

MainTag ==
  /\ MainAt("tag")
  /\ channel_tmp' = current_channel
  /\ pc' = "demod"
  /\ UNCHANGED <<sgpio_callback_finished, sample_pos_read, next_channel_trigger,
                 contexts, idx_read, idx_write, buflen_to_read, result, report,
                 moved, resets>>

\* mutant: the scan returns its index after the last step over the end
DemodOutcomesPastEnd(len) == [bytes : {len + 1}, end : {NoWarning}, start : {0}]

\* what demod_buffer may return for a window: nothing above the gate; too few
\* samples left for a packet that starts there; or a packet, found at start
DemodOutcomes(len) ==
  [bytes : {len}, end : {NoWarning}, start : {0}] \cup
  [bytes : {b \in 0 .. len - 1 : len - b <= PACKET_SAMPLES_MAX + LOOKAHEAD},
   end : {NotEnough}, start : {0}] \cup
  {o \in [bytes : 0 .. len - 1, end : {Packet}, start : 0 .. len - 1] :
     /\ o.start + LOOKAHEAD < len
     /\ o.bytes - o.start \in PACKET_SAMPLES_MIN .. PACKET_SAMPLES_MAX}

MainDemod ==
  /\ MainAt("demod")
  /\ \E o \in DemodOutcomes(buflen_to_read) :
       /\ bytesread' = o.bytes /\ outcome' = o.end
       /\ report' = IF o.end = Packet
                      THEN [tag |-> channel_tmp,
                            chans |-> {mem[idx_read + k].ch : k \in o.start .. o.bytes - 1}]
                      ELSE report
  /\ pc' = "load"
  /\ UNCHANGED <<sgpio_callback_finished, sample_pos_read, next_channel_trigger,
                 contexts, window, moved, resets>>

\* sample_pos_read += bytesread, a load and a store
MainLoad ==
  /\ MainAt("load")
  /\ reg' = [reg EXCEPT !["main"].a = sample_pos_read]
  /\ pc' = "store"
  /\ UNCHANGED <<sgpio_callback_finished, sample_pos_read, next_channel_trigger,
                 todo, window, result, report, moved, resets>>

MainStore ==
  /\ MainAt("store")
  /\ sample_pos_read' = reg["main"].a + bytesread
  /\ pc' = IF outcome = Packet THEN "update"
           ELSE IF outcome = NotEnough /\ idx_write <= idx_read THEN "skip1" ELSE "loop"
  /\ UNCHANGED <<sgpio_callback_finished, next_channel_trigger, contexts, window,
                 result, report, moved, resets>>

\* no chance to get the missing samples: go on at the start of the ring
MainSkip ==
  /\ \/ /\ MainAt("skip1") /\ pc' = "skip2"
        /\ reg' = [reg EXCEPT !["main"].a = sample_pos_read]
        /\ UNCHANGED sample_pos_read
     \/ /\ MainAt("skip2") /\ pc' = "skip3"
        /\ reg' = [reg EXCEPT !["main"].b = sample_pos_read]
        /\ UNCHANGED sample_pos_read
     \/ /\ MainAt("skip3") /\ pc' = "loop"
        /\ sample_pos_read' \in SkipValues(reg["main"])
        /\ UNCHANGED reg
  /\ UNCHANGED <<sgpio_callback_finished, next_channel_trigger, todo, window,
                 result, report, moved, resets>>

\* update_btle_state: nothing, a planned hop, or a hop at once
MainUpdate ==
  /\ MainAt("update")
  /\ pc' = "loop"
  /\ \/ UNCHANGED <<next_channel_trigger, todo, resets>>
     \/ \E ch \in HopChannels :
          next_channel_trigger' = ch /\ UNCHANGED <<todo, resets>>
     \/ \E ch \in HopChannels :
          /\ resets < MaxResets /\ resets' = resets + 1
          /\ todo' = [todo EXCEPT !["main"] = SetChannelOps(ch)]
          /\ UNCHANGED next_channel_trigger
  /\ UNCHANGED <<sgpio_callback_finished, sample_pos_read, reg, window, result,
                 report, moved>>

MainStep ==
  /\ \/ MainLoop \/ MainSpin \/ MainHop \/ MainHopped \/ MainCheck \/ MainIdxRead
     \/ MainIdxWrite \/ MainTag \/ MainDemod \/ MainLoad \/ MainStore \/ MainSkip
     \/ MainUpdate
  /\ UNCHANGED <<sample_pos_write, config, mem, blocks>>

Next == SgpioIsr \/ UsbIsr \/ MainStep \/ Execute("main")

Spec == Init /\ [][Next]_vars
-----------------------------------------------------------------------------
(* Properties *)

Ops == [do : {"loadW1", "loadW2", "storeW", "loadR1", "loadR2", "storeR",
              "on", "off", "init", "retune"}] \cup [do : {"current", "tune"}, ch : Channels]

\* Type invariant: every variable of the ring has the type its declaration
\* gives it, and a position never leaves the naturals.
TypeOK ==
  /\ sample_pos_write \in Nat /\ sample_pos_read \in Nat
  /\ sgpio_callback_finished \in {0, 1}
  /\ streaming \in BOOLEAN /\ transceiver_mode \in {"OFF", "BTLE"}
  /\ current_channel \in Channels /\ tuned \in Channels
  /\ next_channel_trigger \in HopChannels \cup {-1}
  /\ pc \in PCs
  /\ todo \in [{"main", "usb"} -> Seq(Ops)]
  /\ reg \in [{"main", "usb"} -> [a : Nat, b : Nat]]
  /\ idx_read \in Slots /\ idx_write \in Slots
  /\ buflen_to_read \in 0 .. SAMPLE_BUFFER_SIZE /\ bytesread \in 0 .. SAMPLE_BUFFER_SIZE
  /\ channel_tmp \in Channels \cup {0} /\ outcome \in {NoWarning, NotEnough, Packet}
  /\ follow_pending \in BOOLEAN
  /\ mem \in [Slots -> [pos : Nat \cup {-1}, ch : Channels \cup {-1}]]
  /\ report \in [tag : Channels \cup {0, -1}, chans : SUBSET (Channels \cup {-1})]
  /\ moved \in BOOLEAN
  /\ blocks \in 0 .. MaxBlocks /\ resets \in 0 .. MaxResets

WindowSlots == idx_read .. idx_read + buflen_to_read - 1

\* While main demodulates a window, no interrupt writes a byte of it, unless a
\* USB request has moved the positions since main checked them
\* (the "buffer full" test of sgpio_isr_rx against hackrf_usb.c:242-285).
WindowKept ==
  [][pc = "demod" /\ ~moved => \A i \in WindowSlots : mem'[i] = mem[i]]_vars

\* As long as nothing but the start of the session has reset the positions,
\* every byte of a window was stored in the lap main reads, except in the last
\* PACKET_SAMPLES_MAX bytes of the ring, which the interrupt skips on noise
\* and main scans all the same.
FreshOrTail ==
  pc = "demod" /\ ~moved /\ resets <= 1 =>
    \A k \in 0 .. buflen_to_read - 1 :
      \/ mem[idx_read + k].pos = sample_pos_read + k
      \/ idx_read + k > SAMPLE_BUFFER_SIZE - PACKET_SAMPLES_MAX

\* Until main hops or the host selects a channel, main never reads past the
\* interrupt, and is never more than a lap and a skipped tail behind it.
ReadFollowsWrite ==
  todo["usb"] = <<>> /\ resets <= 1 =>
    /\ sample_pos_read <= sample_pos_write
    /\ sample_pos_write - sample_pos_read < SAMPLE_BUFFER_SIZE + PACKET_SAMPLES_MAX

Settled == /\ todo["main"] = <<>> /\ todo["usb"] = <<>>
           /\ pc \in {"loop", "spin", "hop", "check"}

\* The two sides never wait for each other: whenever the interrupt drops
\* samples because the ring is full, main's next window is large enough for
\* demod_buffer to advance the read position.
NoStall ==
  Settled /\ Full =>
    /\ sample_pos_read < sample_pos_write
    /\ LET r == sample_pos_read % SAMPLE_BUFFER_SIZE
       IN  r >= WriteIndex \/ WriteIndex - r > PACKET_SAMPLES_MAX + LOOKAHEAD

\* A request can undo itself: its reset of the read position is lost when it
\* falls between the load and the store of "sample_pos_read += bytesread".  Each
\* request then leaves at most two more laps of old samples to read.
LagPerRequest ==
  Settled => sample_pos_write - sample_pos_read <= 2 * resets * SAMPLE_BUFFER_SIZE

\* A packet is reported with the channel all its samples were received on:
\* "remember current channel gives (more) correct results, avoids problem like
\* ch: 37 -> demod -> switch channel to 38 -> transmit to host: channel 38
\* (which is actual 37)" (hackrf_usb.c:267-268).
TagIsReceivedChannel ==
  \A ch \in Channels : report.chans = {ch} => report.tag = ch
============================================================================
