----------------------------- MODULE RadioPath -----------------------------
(***************************************************************************)
(* The radio of a sniffing session: the MAX2837 and RFFC5072 with the      *)
(* shadow copies of their registers, the RF switches, and set_freq.  Main  *)
(* hops step by step; a USB request interrupts it anywhere and runs to its *)
(* end before main goes on.  All Bluetooth channels lie in the range that  *)
(* bypasses the mixer, so band, filter and q_invert never change.          *)
(***************************************************************************)
EXTENDS Integers, Sequences, Functions

CONSTANTS
  Channels,     \* channels main and the host select
  Requests,     \* kinds of USB requests
  MaxRequests   \* bound: requests

ASSUME RadioAssumption ==
  /\ Channels \subseteq 0 .. 39 /\ Channels # {}
  /\ Requests \subseteq {"start", "off", "channel", "antenna", "amp"}
  /\ MaxRequests \in Nat

VARIABLES
  transceiver_mode,
  radio,      \* what both contexts share, see TypeOK
  todo,       \* main: the rest of its hop
  prior,      \* main: prior_max2837_mode
  loaded,     \* main: switchctrl in a register, between load and store
  ctrl,       \* main: switchctrl handed to switchctrl_set
  value,      \* main: the register value it is writing
  armed,      \* main has seen the session and may hop
  requests,   \* ghost: USB requests so far
  wanted,     \* ghost: the channel tuned last, -1 for none
  disturbed,  \* ghost: a request has interrupted main's last hop
  crossed,    \* ghost: the session was started within a hop begun before it
  asked,      \* ghost: antenna power and amplifier as the host has asked last
  fate        \* ghost: what has become of either setting since, see Fates

local == <<todo, prior, loaded, ctrl, value, armed>>
ghosts == <<requests, wanted, disturbed, crossed, asked, fate>>
vars == <<transceiver_mode, radio, local, ghosts>>

\* registers in the order in which regs_commit visits them
Synth == <<"FRAC_LO", "FRAC_HI", "INT">>
Mixer == <<"ENBL", "GPO">>
Registers == Range(Synth) \cup Range(Mixer)
-----------------------------------------------------------------------------
(* Frequencies *)

\* get_freq_by_channel, in MHz
FreqOf(channel) ==
  CASE channel = 37 -> 2402
    [] channel = 38 -> 2426
    [] channel = 39 -> 2480
    [] channel \in 0 .. 10 -> 2404 + 2 * channel
    [] channel \in 11 .. 36 -> 2428 + 2 * (channel - 11)

\* the synthesiser's divider: twenty binary digits of the remainder over 30 MHz
DivInt(mhz) == mhz \div 30

Digit(s) ==
  LET cmp == s.cmp \div 2
  IN  IF s.rem > cmp THEN [frac |-> 2 * s.frac + 1, rem |-> s.rem - cmp, cmp |-> cmp]
                     ELSE [frac |-> 2 * s.frac, rem |-> s.rem, cmp |-> cmp]

FiveDigits(s) == Digit(Digit(Digit(Digit(Digit(s)))))

DivFrac(mhz) ==
  LET first == [frac |-> 0, rem |-> (mhz % 30) * 1000000, cmp |-> 30000000]
  IN  FiveDigits(FiveDigits(FiveDigits(FiveDigits(first)))).frac

\* mutant: the low ten bits are not shifted out
DividerUnshifted(channel) ==
  [INT |-> DivInt(FreqOf(channel)), FRAC_HI |-> DivFrac(FreqOf(channel)),
   FRAC_LO |-> DivFrac(FreqOf(channel)) % 1024]

\* what the three registers are set to for a channel
Divider(channel) ==
  [INT |-> DivInt(FreqOf(channel)), FRAC_HI |-> DivFrac(FreqOf(channel)) \div 1024,
   FRAC_LO |-> DivFrac(FreqOf(channel)) % 1024]

\* the frequency in kHz to which the registers tune the oscillator
Tuned(vco) ==
  30000 * vco.INT + (30000 * vco.FRAC_HI) \div 1024 + (30000 * vco.FRAC_LO) \div (1024 * 1024)
-----------------------------------------------------------------------------
(* Registers and switches *)

Set(r, reg, v) == [r EXCEPT !.regs[reg] = v, !.dirty = @ \cup {reg}]

\* a register reaches the chip; FRAC_LO makes it tune
Write(r, reg, v) ==
  LET chip == [r.chip EXCEPT ![reg] = v]
  IN  [r EXCEPT !.chip = chip,
                !.vco = IF reg = "FRAC_LO" THEN [k \in Range(Synth) |-> chip[k]] ELSE @]

\* regs_commit: the dirty registers in their order
Send(r, reg) ==
  IF reg \in r.dirty THEN [Write(r, reg, r.regs[reg]) EXCEPT !.dirty = @ \ {reg}] ELSE r

CommitMixer(r) == Send(Send(r, "ENBL"), "GPO")
CommitSynth(r) == Send(Send(Send(r, "FRAC_LO"), "FRAC_HI"), "INT")

Pins == <<"tx", "mix", "amp">>

\* what switchctrl_set drives a group of pins to; "off" is an amplifier without
\* power, be it bypassed or in the path
Driven(pins, c) ==
  CASE pins = "tx" -> IF "TX" \in c THEN "tx" ELSE "rx"
    [] pins = "mix" -> IF "MIX_BYPASS" \notin c THEN "mixer"
                       ELSE IF "TX" \in c THEN "tx bypass" ELSE "rx bypass"
    [] pins = "amp" -> IF "AMP_BYPASS" \in c THEN "off"
                       ELSE IF "TX" \in c THEN (IF "NO_TX_AMP_PWR" \in c THEN "off" ELSE "tx")
                       ELSE IF "NO_RX_AMP_PWR" \in c THEN "off" ELSE "rx"

\* GPO1 of the RFFC5072 turns the antenna power off
Gpo(c) == IF "ANT_PWR" \in c THEN 0 ELSE 1

SwitchctrlSet(r) ==
  CommitMixer(Set([r EXCEPT !.gpio = [p \in Range(Pins) |-> Driven(p, r.switchctrl)]],
                  "GPO", Gpo(r.switchctrl)))

Switch(r, c) == SwitchctrlSet([r EXCEPT !.switchctrl = c])

\* mutant: the switches are not driven
SetLnaUndriven(r, enable) ==
  [r EXCEPT !.switchctrl = IF enable THEN @ \ {"AMP_BYPASS", "NO_RX_AMP_PWR"}
                                     ELSE @ \cup {"AMP_BYPASS", "NO_RX_AMP_PWR"}]

\* rf_path_set_lna in receive direction
SetLna(r, enable) ==
  Switch(r, IF enable
              THEN (r.switchctrl \cup {"NO_TX_AMP_PWR"}) \ {"AMP_BYPASS", "NO_RX_AMP_PWR"}
              ELSE r.switchctrl \cup {"AMP_BYPASS", "NO_TX_AMP_PWR", "NO_RX_AMP_PWR"})

SetAntenna(r, enable) ==
  Switch(r, IF enable THEN r.switchctrl \cup {"ANT_PWR"} ELSE r.switchctrl \ {"ANT_PWR"})

\* the filter of every Bluetooth channel
SetBypass(r) ==
  SwitchctrlSet(CommitMixer(Set([r EXCEPT !.switchctrl = @ \cup {"MIX_BYPASS"}], "ENBL", 0)))

\* mutant: FRAC_LO is committed together with the others
SetSynthAtOnce(r, channel) ==
  LET d == Divider(channel)
  IN  CommitSynth(Set(Set(Set(r, "INT", d.INT), "FRAC_HI", d.FRAC_HI), "FRAC_LO", d.FRAC_LO))

\* max2837_set_frequency
SetSynth(r, channel) ==
  LET d == Divider(channel)
      high == CommitSynth(Set(Set(r, "INT", d.INT), "FRAC_HI", d.FRAC_HI))
  IN  CommitSynth(Set(high, "FRAC_LO", d.FRAC_LO))

\* set_freq, run to its end: STANDBY meanwhile, then the prior mode again
SetFreq(r, channel) ==
  [SetSynth(SetBypass([r EXCEPT !.mode = "STANDBY"]), channel) EXCEPT !.mode = r.mode]

\* mutant: the amplifier in the path stays without power
DirectionRxUnpowered(r) ==
  LET c == (r.switchctrl \cup {"NO_TX_AMP_PWR", "NO_RX_AMP_PWR"}) \ {"TX"}
      enable == IF "MIX_BYPASS" \in c THEN 0 ELSE 1
      mixer == CommitMixer(Set(CommitMixer(Set(r, "ENBL", 0)), "ENBL", enable))
  IN  Switch([CommitSynth(mixer) EXCEPT !.mode = "RX"], c)

\* rf_path_set_direction
DirectionRx(r) ==
  LET c == (r.switchctrl \cup {"NO_TX_AMP_PWR", "NO_RX_AMP_PWR"}) \ {"TX"}
      amp == IF "AMP_BYPASS" \in c THEN c ELSE c \ {"NO_RX_AMP_PWR"}
      enable == IF "MIX_BYPASS" \in c THEN 0 ELSE 1
      mixer == CommitMixer(Set(CommitMixer(Set(r, "ENBL", 0)), "ENBL", enable))
  IN  Switch([CommitSynth(mixer) EXCEPT !.mode = "RX"], amp)

DirectionOff(r) ==
  LET all == [r EXCEPT !.switchctrl = @ \cup {"NO_TX_AMP_PWR", "NO_RX_AMP_PWR"}]
      quiet == SetLna(SetAntenna(all, FALSE), FALSE)
      c == quiet.switchctrl \ {"TX"}
  IN  Switch([CommitMixer(Set(quiet, "ENBL", 0)) EXCEPT !.mode = "STANDBY"], c)
-----------------------------------------------------------------------------
(* Initial state: after rf_path_init, whose switch settings are not those of  *)
(* rf_path.switchctrl                                                         *)

SWITCHCTRL_SAFE == {"NO_TX_AMP_PWR", "AMP_BYPASS", "TX", "MIX_BYPASS", "NO_RX_AMP_PWR"}

Init ==
  LET defaults == [INT |-> 83, FRAC_HI |-> 341, FRAC_LO |-> 341, ENBL |-> 0, GPO |-> 1]
  IN  /\ transceiver_mode = "OFF"
      /\ radio = [mode |-> "STANDBY", switchctrl |-> {},
                  gpio |-> [p \in Range(Pins) |-> Driven(p, SWITCHCTRL_SAFE)],
                  regs |-> defaults, dirty |-> {}, chip |-> defaults,
                  vco |-> [k \in Range(Synth) |-> defaults[k]]]
      /\ todo = <<>> /\ prior = "STANDBY" /\ loaded = {} /\ ctrl = {} /\ value = 0
      /\ armed = FALSE
      /\ requests = 0 /\ wanted = -1 /\ disturbed = FALSE /\ crossed = FALSE
      /\ asked = [antenna |-> FALSE, amp |-> FALSE]
      /\ fate = [antenna |-> "kept", amp |-> "unset"]
-----------------------------------------------------------------------------
(* USB requests *)

Hopping == todo # <<>>
Doing(name) == Hopping /\ Head(todo)[1] = name

\* main's transfer that the request falls into may be lost on the bus
Request(kind) ==
  /\ kind \in Requests /\ requests < MaxRequests
  /\ requests' = requests + 1
  /\ disturbed' = (disturbed \/ Hopping)
  /\ \/ UNCHANGED todo
     \/ Doing("end") /\ todo' = <<<<"lost", Head(todo)[2]>>>> \o Tail(todo)
  /\ UNCHANGED <<prior, loaded, ctrl, value, armed>>

\* A setting is the host's, not yet set, or put off by a stop; or the request for
\* it, or the stop, fell between main's load and its store of switchctrl.
Fates == {"kept", "unset", "stopped", "torn"}

FateOf(request) == IF Doing("store switchctrl") THEN "torn" ELSE request

\* main is within set_freq, and will restore the mode of a device that was off
HoppingOff == Hopping /\ ~Doing("save") /\ prior = "STANDBY"

\* usb_vendor_request_btle_mode: FIXED tunes first, FOLLOW tunes last
UsbStart ==
  \E tune_first \in BOOLEAN :
    /\ Request("start") /\ transceiver_mode = "OFF"
    /\ transceiver_mode' = "BTLE"
    /\ radio' = IF tune_first THEN DirectionRx(SetFreq(radio, 37)) ELSE SetFreq(DirectionRx(radio), 37)
    /\ crossed' = HoppingOff
    /\ wanted' = 37
    /\ UNCHANGED <<asked, fate>>

UsbOff ==
  /\ Request("off") /\ transceiver_mode = "BTLE"
  /\ transceiver_mode' = "OFF"
  /\ radio' = DirectionOff(radio)
  /\ fate' = [antenna |-> FateOf("stopped"), amp |-> FateOf("stopped")]
  /\ UNCHANGED <<wanted, crossed, asked>>

UsbChannel ==
  \E c \in Channels :
    /\ Request("channel") /\ transceiver_mode = "BTLE"
    /\ radio' = SetFreq(radio, c)
    /\ wanted' = c
    /\ UNCHANGED <<transceiver_mode, crossed, asked, fate>>

UsbAntenna ==
  \E enable \in BOOLEAN :
    /\ Request("antenna")
    /\ radio' = SetAntenna(radio, enable)
    /\ asked' = [asked EXCEPT !.antenna = enable]
    /\ fate' = [fate EXCEPT !.antenna = FateOf("kept")]
    /\ UNCHANGED <<transceiver_mode, wanted, crossed>>

UsbAmp ==
  \E enable \in BOOLEAN :
    /\ Request("amp")
    /\ radio' = SetLna(radio, enable)
    /\ asked' = [asked EXCEPT !.amp = enable]
    /\ fate' = [fate EXCEPT !.amp = FateOf("kept")]
    /\ UNCHANGED <<transceiver_mode, wanted, crossed>>

UsbIsr == UsbStart \/ UsbOff \/ UsbChannel \/ UsbAntenna \/ UsbAmp
-----------------------------------------------------------------------------
(* main *)

\* mutant: the prior mode is not restored
StepsNoRestore(channel) ==
  LET d == Divider(channel)
  IN  <<<<"save">>, <<"standby">>, <<"load switchctrl">>, <<"store switchctrl">>,
        <<"set", "ENBL", 0>>, <<"commit", Mixer>>,
        <<"call">>, <<"drive", "tx">>, <<"drive", "mix">>, <<"drive", "amp">>,
        <<"gpo">>, <<"commit", Mixer>>,
        <<"set", "INT", d.INT>>, <<"set", "FRAC_HI", d.FRAC_HI>>, <<"commit", Synth>>,
        <<"set", "FRAC_LO", d.FRAC_LO>>, <<"commit", Synth>>>>

\* set_freq, step by step: rf_path_set_filter, max2837_set_frequency
Steps(channel) ==
  LET d == Divider(channel)
  IN  <<<<"save">>, <<"standby">>, <<"load switchctrl">>, <<"store switchctrl">>,
        <<"set", "ENBL", 0>>, <<"commit", Mixer>>,
        <<"call">>, <<"drive", "tx">>, <<"drive", "mix">>, <<"drive", "amp">>,
        <<"gpo">>, <<"commit", Mixer>>,
        <<"set", "INT", d.INT>>, <<"set", "FRAC_HI", d.FRAC_HI>>, <<"commit", Synth>>,
        <<"set", "FRAC_LO", d.FRAC_LO>>, <<"commit", Synth>>,
        <<"restore">>>>

MainIdle == ~Hopping /\ UNCHANGED <<transceiver_mode, radio, prior, loaded, ctrl, value,
                                    requests, crossed, asked, fate>>

\* the mode has been looked at; no hop is due unless MainHop comes
MainLoop ==
  /\ MainIdle
  /\ armed' = (transceiver_mode = "BTLE")
  /\ UNCHANGED <<todo, wanted, disturbed>>

MainHop ==
  \E c \in Channels :
    /\ MainIdle /\ armed
    /\ todo' = Steps(c) /\ wanted' = c /\ disturbed' = FALSE
    /\ UNCHANGED armed

Step(name) == Doing(name) /\ todo' = Tail(todo) /\ UNCHANGED <<transceiver_mode, armed, ghosts>>

MainSave == Step("save") /\ prior' = radio.mode /\ UNCHANGED <<radio, loaded, ctrl, value>>

MainStandby ==
  /\ Step("standby")
  /\ radio' = [radio EXCEPT !.mode = "STANDBY"]
  /\ UNCHANGED <<prior, loaded, ctrl, value>>

\* the end of set_freq, and of its local variables
MainRestore ==
  /\ Step("restore")
  /\ radio' = [radio EXCEPT !.mode = prior]
  /\ prior' = "STANDBY" /\ loaded' = {} /\ ctrl' = {} /\ value' = 0

MainLoadSwitch ==
  Step("load switchctrl") /\ loaded' = radio.switchctrl /\ UNCHANGED <<radio, prior, ctrl, value>>

MainStoreSwitch ==
  /\ Step("store switchctrl")
  /\ radio' = [radio EXCEPT !.switchctrl = loaded \cup {"MIX_BYPASS"}]
  /\ UNCHANGED <<prior, loaded, ctrl, value>>

\* switchctrl_set gets its argument by value
MainCall == Step("call") /\ ctrl' = radio.switchctrl /\ UNCHANGED <<radio, prior, loaded, value>>

MainDrive ==
  /\ Step("drive")
  /\ LET p == Head(todo)[2] IN radio' = [radio EXCEPT !.gpio[p] = Driven(p, ctrl)]
  /\ UNCHANGED <<prior, loaded, ctrl, value>>

MainSet ==
  /\ \/ Step("set") /\ radio' = Set(radio, Head(todo)[2], Head(todo)[3])
     \/ Step("gpo") /\ radio' = Set(radio, "GPO", Gpo(ctrl))
  /\ UNCHANGED <<prior, loaded, ctrl, value>>

\* regs_commit: the value of the next dirty register is loaded ...
MainCommit ==
  /\ Doing("commit")
  /\ LET bus == Head(todo)[2]
         Dirty(i) == bus[i] \in radio.dirty
     IN  \/ /\ \A i \in DOMAIN bus : ~Dirty(i)
            /\ todo' = Tail(todo) /\ UNCHANGED value
         \/ \E i \in DOMAIN bus :
              /\ Dirty(i) /\ \A j \in 1 .. i - 1 : ~Dirty(j)
              /\ value' = radio.regs[bus[i]]
              /\ todo' = <<<<"begin", bus[i]>>, <<"end", bus[i]>>>> \o todo
  /\ UNCHANGED <<transceiver_mode, radio, prior, loaded, ctrl, armed, ghosts>>

\* ... stored again and sent ...
MainBegin ==
  /\ Step("begin")
  /\ radio' = [radio EXCEPT !.regs[Head(todo)[2]] = value]
  /\ UNCHANGED <<prior, loaded, ctrl, value>>

\* ... and the register is clean
MainEnd ==
  /\ \/ Step("end") /\ radio' = [Write(radio, Head(todo)[2], value) EXCEPT !.dirty = @ \ {Head(todo)[2]}]
     \/ Step("lost") /\ radio' = [radio EXCEPT !.dirty = @ \ {Head(todo)[2]}]
  /\ UNCHANGED <<prior, loaded, ctrl, value>>

Main == \/ MainLoop \/ MainHop \/ MainSave \/ MainStandby \/ MainRestore \/ MainLoadSwitch
        \/ MainStoreSwitch \/ MainCall \/ MainDrive \/ MainSet \/ MainCommit \/ MainBegin
        \/ MainEnd

Next == UsbIsr \/ Main

Spec == Init /\ [][Next]_vars
-----------------------------------------------------------------------------
(* Properties *)

Flags == {"NO_TX_AMP_PWR", "AMP_BYPASS", "TX", "MIX_BYPASS", "NO_RX_AMP_PWR", "ANT_PWR"}

\* Type invariant of the chips, their shadows, the switches and main's locals.
TypeOK ==
  /\ transceiver_mode \in {"OFF", "BTLE"}
  /\ radio.mode \in {"STANDBY", "RX"} /\ prior \in {"STANDBY", "RX"}
  /\ radio.switchctrl \subseteq Flags /\ loaded \subseteq Flags /\ ctrl \subseteq Flags
  /\ radio.regs \in [Registers -> 0 .. 1023] /\ radio.chip \in [Registers -> 0 .. 1023]
  /\ radio.dirty \subseteq Registers /\ value \in 0 .. 1023
  /\ radio.vco \in [Range(Synth) -> 0 .. 1023]
  /\ radio.gpio \in [Range(Pins) -> {"tx", "rx", "mixer", "tx bypass", "rx bypass", "off"}]
  /\ armed \in BOOLEAN /\ wanted \in Channels \cup {37, -1}
  /\ requests \in 0 .. MaxRequests
  /\ asked \in [antenna : BOOLEAN, amp : BOOLEAN] /\ fate \in [antenna : Fates, amp : Fates]

Settled == ~Hopping /\ ~disturbed

\* in kHz; Bluetooth allows 150
Tolerance == 50

Near(vco, channel) == Tuned(vco) - 1000 * FreqOf(channel) \in -Tolerance .. Tolerance

\* After a hop that no request has interrupted the oscillator is on its channel,
\* and chips and shadow copies agree, whatever requests have done to the hops
\* before (max2837.c:199-255).
OnChannel ==
  Settled /\ wanted # -1 =>
    Near(radio.vco, wanted) /\ radio.chip = radio.regs /\ radio.dirty = {}

\* ... and the switches are in the positions of switchctrl, mixer bypassed and
\* off, although main drives them from a copy (rf_path.c:86-168, 289-310).
PathAgrees ==
  Settled /\ wanted # -1 =>
    /\ "MIX_BYPASS" \in radio.switchctrl /\ radio.chip["ENBL"] = 0
    /\ \A p \in Range(Pins) : radio.gpio[p] = Driven(p, radio.switchctrl)
    /\ radio.chip["GPO"] = Gpo(radio.switchctrl)

\* A session that runs receives between two hops: no order of stop, start and
\* channel requests leaves it in STANDBY, unless it was started while main was
\* within a set_freq that had found the device in STANDBY (tuning.c:66-108).
SessionReceives ==
  ~Hopping /\ transceiver_mode = "BTLE" /\ ~crossed => radio.mode = "RX"

\* Antenna power and amplifier are as the host has asked last, through hops,
\* channel requests and starts; but a stop puts both off (rf_path.c:269-274), and
\* no later start brings back what the host had asked for.  Nothing is said of a
\* setting whose request, or stop, came between main's load and store of
\* switchctrl (rf_path.c:293); the other setting is as it should be even then.
SettingsKept ==
  Settled /\ wanted # -1 =>
    /\ fate.antenna = "kept" => (radio.chip["GPO"] = 0 <=> asked.antenna)
    /\ fate.antenna = "stopped" => radio.chip["GPO"] = 1
    /\ fate.amp = "kept" => radio.gpio["amp"] = IF asked.amp THEN "rx" ELSE "off"
    /\ fate.amp = "stopped" => radio.gpio["amp"] = "off"
============================================================================
