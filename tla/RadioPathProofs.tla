-------------------------- MODULE RadioPathProofs --------------------------
(***************************************************************************)
(* Proofs about RadioPath for every set of channels and requests and any   *)
(* number of requests: what one step of a hop puts right stays right until *)
(* the hop ends or a request disturbs it.                                  *)
(***************************************************************************)
EXTENDS RadioPath, SequenceTheorems, TLAPS

-----------------------------------------------------------------------------
(* The inductive invariant *)

SynthRegs == {"FRAC_LO", "FRAC_HI", "INT"}
MixerRegs == {"ENBL", "GPO"}
Regs == SynthRegs \cup MixerRegs
Groups == {"tx", "mix", "amp"}
Positions == {"tx", "rx", "mixer", "tx bypass", "rx bypass", "off"}

Values == 0 .. 1023
Modes == {"STANDBY", "RX"}
Settings == SUBSET (Flags \ {"TX"})
PinStates == [Groups -> Positions]
Contents == [Regs -> Values]
DirtySets == SUBSET Regs
Tunings == [SynthRegs -> Values]
Asked == [antenna : BOOLEAN, amp : BOOLEAN]
Outcomes == [antenna : Fates, amp : Fates]

Radio == [mode : Modes, switchctrl : Settings, gpio : PinStates, regs : Contents,
          dirty : DirtySets, chip : Contents, vco : Tunings]

\* TypeOK, with the record's fields and without the transmit flag.
TypeInv ==
  /\ transceiver_mode \in {"OFF", "BTLE"} /\ radio \in Radio
  /\ prior \in Modes /\ value \in Values
  /\ loaded \in Settings /\ ctrl \in Settings
  /\ armed \in BOOLEAN /\ disturbed \in BOOLEAN /\ crossed \in BOOLEAN
  /\ wanted \in Channels \cup {37, -1} /\ requests \in 0 .. MaxRequests
  /\ asked \in Asked /\ fate \in Outcomes

\* Antenna power and amplifier in switchctrl, or in main's copy of it, are those
\* asked for, or off since a stop.
Kept(c) ==
  /\ fate.antenna = "kept" => (asked.antenna <=> "ANT_PWR" \in c)
  /\ fate.antenna = "stopped" => "ANT_PWR" \notin c
  /\ fate.amp = "kept" /\ asked.amp => c \cap {"AMP_BYPASS", "NO_RX_AMP_PWR"} = {}
  /\ fate.amp = "kept" /\ ~asked.amp => "AMP_BYPASS" \in c
  /\ fate.amp = "stopped" => "AMP_BYPASS" \in c

\* The mixer is bypassed from the first tuning on, and only a session is tuned.
Bypassed ==
  /\ transceiver_mode = "BTLE" \/ armed => wanted # -1
  /\ wanted # -1 => "MIX_BYPASS" \in radio.switchctrl

Sent(r, reg) == reg \in r.dirty \/ r.chip[reg] = r.regs[reg]

\* What the steps of a hop to channel c before the k-th have put right.
Mended(r, c, k) ==
  /\ k > 5 => r.regs["ENBL"] = 0 /\ Sent(r, "ENBL")
  /\ k > 6 => "ENBL" \notin r.dirty
  /\ k > 8 => r.gpio["tx"] = Driven("tx", r.switchctrl)
  /\ k > 9 => r.gpio["mix"] = Driven("mix", r.switchctrl)
  /\ k > 10 => r.gpio["amp"] = Driven("amp", r.switchctrl)
  /\ k > 11 => r.regs["GPO"] = Gpo(r.switchctrl) /\ Sent(r, "GPO")
  /\ k > 12 => "GPO" \notin r.dirty
  /\ k > 13 => r.regs["INT"] = Divider(c).INT /\ Sent(r, "INT")
  /\ k > 14 => r.regs["FRAC_HI"] = Divider(c).FRAC_HI /\ Sent(r, "FRAC_HI")
  /\ k > 15 => r.dirty \cap {"INT", "FRAC_HI"} = {}
  /\ k > 16 => r.regs["FRAC_LO"] = Divider(c).FRAC_LO /\ Sent(r, "FRAC_LO")
  /\ k > 16 => "FRAC_LO" \in r.dirty \/ \A reg \in SynthRegs : r.vco[reg] = r.regs[reg]
  /\ k > 17 => "FRAC_LO" \notin r.dirty

Left(c, k) == SubSeq(Steps(c), k, 18)

\* A commit is between its access of the shadow register and the chip.
Sending(reg) == {<< <<"begin", reg>>, <<"end", reg>> >>, << <<"end", reg>> >>, << <<"lost", reg>> >>}

InCommit(c, k) ==
  /\ k \in {6, 12, 15, 17}
  /\ \E reg \in Regs : \E begun \in Sending(reg) :
       /\ todo = begun \o Left(c, k)
       /\ ~disturbed => begun[1][1] # "lost" /\ value = radio.regs[reg]

\* Main's hop to channel c is at its k-th step.
At(c, k) ==
  /\ todo = Left(c, k) \/ InCommit(c, k)
  /\ ~disturbed => wanted = c /\ Mended(radio, c, k)
  /\ ~disturbed /\ k \in 8 .. 18 => ctrl = radio.switchctrl
  /\ k = 4 => Kept(loaded)
  /\ transceiver_mode = "BTLE" /\ ~crossed =>
       IF k = 1 THEN radio.mode = "RX" ELSE prior = "RX"

Idle ==
  /\ todo = <<>>
  /\ ~disturbed /\ wanted # -1 => Mended(radio, wanted, 18)
  /\ transceiver_mode = "BTLE" /\ ~crossed => radio.mode = "RX"

IInv ==
  /\ TypeInv /\ Bypassed
  /\ Kept(radio.switchctrl)
  /\ Idle \/ (armed /\ \E c \in Channels, k \in 1 .. 18 : At(c, k))
-----------------------------------------------------------------------------
(* Registers and switches *)

LEMMA Names ==
  /\ Range(Synth) = SynthRegs /\ Range(Mixer) = MixerRegs
  /\ Registers = Regs /\ Range(Pins) = Groups
<1>1. DOMAIN Synth = 1 .. 3 /\ DOMAIN Mixer = 1 .. 2 /\ DOMAIN Pins = 1 .. 3
  BY DEF Synth, Mixer, Pins
<1>2. Range(Synth) = SynthRegs
  BY <1>1 DEF Range, Synth, SynthRegs
<1>3. Range(Mixer) = MixerRegs
  BY <1>1 DEF Range, Mixer, MixerRegs
<1>4. Range(Pins) = Groups
  BY <1>1 DEF Range, Pins, Groups
<1>5. QED
  BY <1>2, <1>3, <1>4 DEF Registers, Regs

LEMMA FieldTypes ==
  ASSUME NEW r \in Radio
  PROVE  /\ r.mode \in Modes /\ r.switchctrl \in Settings /\ r.gpio \in PinStates
         /\ r.regs \in Contents /\ r.dirty \in DirtySets /\ r.chip \in Contents /\ r.vco \in Tunings
  BY DEF Radio

\* The mode is no part of the registers and switches.
LEMMA ModeFields ==
  ASSUME NEW r \in Radio, NEW m \in Modes
  PROVE  LET t == [r EXCEPT !.mode = m] IN
         /\ t \in Radio
         /\ t.mode = m /\ t.switchctrl = r.switchctrl /\ t.gpio = r.gpio /\ t.regs = r.regs
         /\ t.dirty = r.dirty /\ t.chip = r.chip /\ t.vco = r.vco
  BY DEF Radio

LEMMA SwitchFields ==
  ASSUME NEW r \in Radio, NEW c \in Settings
  PROVE  LET t == [r EXCEPT !.switchctrl = c] IN
         /\ t \in Radio
         /\ t.mode = r.mode /\ t.switchctrl = c /\ t.gpio = r.gpio /\ t.regs = r.regs
         /\ t.dirty = r.dirty /\ t.chip = r.chip /\ t.vco = r.vco
  BY DEF Radio

LEMMA PinFields ==
  ASSUME NEW r \in Radio, NEW g \in PinStates
  PROVE  LET t == [r EXCEPT !.gpio = g] IN
         /\ t \in Radio
         /\ t.mode = r.mode /\ t.switchctrl = r.switchctrl /\ t.gpio = g /\ t.regs = r.regs
         /\ t.dirty = r.dirty /\ t.chip = r.chip /\ t.vco = r.vco
  BY DEF Radio

\* A setting of a shadow register touches nothing else.
LEMMA SetFields ==
  ASSUME NEW r \in Radio, NEW reg \in Regs, NEW v \in Values
  PROVE  LET t == Set(r, reg, v) IN
         /\ t \in Radio
         /\ t.mode = r.mode /\ t.switchctrl = r.switchctrl /\ t.gpio = r.gpio
         /\ t.regs = [r.regs EXCEPT ![reg] = v] /\ t.dirty = r.dirty \cup {reg}
         /\ t.chip = r.chip /\ t.vco = r.vco
<1>. DEFINE regs == [r.regs EXCEPT ![reg] = v]
            dirty == r.dirty \cup {reg}
<1>1. regs \in Contents
  BY FieldTypes DEF Contents
<1>2. dirty \in DirtySets
  BY FieldTypes DEF DirtySets
<1>3. Set(r, reg, v) = [r EXCEPT !.regs = regs, !.dirty = dirty]
  BY DEF Set, Radio
<1>. HIDE DEF regs, dirty
<1>4. LET t == [r EXCEPT !.regs = regs, !.dirty = dirty] IN
      /\ t \in Radio
      /\ t.mode = r.mode /\ t.switchctrl = r.switchctrl /\ t.gpio = r.gpio
      /\ t.regs = regs /\ t.dirty = dirty /\ t.chip = r.chip /\ t.vco = r.vco
  BY <1>1, <1>2 DEF Radio
<1>5. QED
  BY <1>3, <1>4 DEF regs, dirty

\* A write to the chip, of a register that is clean afterwards.
Written(r, reg, v) == [Write(r, reg, v) EXCEPT !.dirty = @ \ {reg}]

LEMMA WriteFields ==
  ASSUME NEW r \in Radio, NEW reg \in Regs, NEW v \in Values
  PROVE  LET t == Written(r, reg, v) IN
         /\ t \in Radio
         /\ t.mode = r.mode /\ t.switchctrl = r.switchctrl /\ t.gpio = r.gpio /\ t.regs = r.regs
         /\ t.dirty = r.dirty \ {reg} /\ t.chip = [r.chip EXCEPT ![reg] = v]
         /\ reg # "FRAC_LO" => t.vco = r.vco
         /\ reg = "FRAC_LO" => \A k \in SynthRegs : t.vco[k] = t.chip[k]
<1>. DEFINE chip == [r.chip EXCEPT ![reg] = v]
            dirty == r.dirty \ {reg}
            tuned == [k \in SynthRegs |-> chip[k]]
            vco == IF reg = "FRAC_LO" THEN tuned ELSE r.vco
            t == Written(r, reg, v)
            u == [[r EXCEPT !.chip = chip, !.vco = vco] EXCEPT !.dirty = dirty]
<1>1. chip \in Contents
  BY FieldTypes DEF Contents
<1>2. dirty \in DirtySets
  BY FieldTypes DEF DirtySets
<1>3. tuned \in Tunings
  BY <1>1 DEF Tunings, Contents, Regs
<1>4. vco \in Tunings
  BY <1>3, FieldTypes
<1>5. t = u
  BY Names DEF Written, Write, Radio
<1>6. reg = "FRAC_LO" => \A k \in SynthRegs : vco[k] = chip[k]
  OBVIOUS
<1>7. reg # "FRAC_LO" => vco = r.vco
  OBVIOUS
<1>. HIDE DEF chip, dirty, vco
<1>8. /\ u \in Radio
      /\ u.mode = r.mode /\ u.switchctrl = r.switchctrl /\ u.gpio = r.gpio /\ u.regs = r.regs
      /\ u.dirty = dirty /\ u.chip = chip /\ u.vco = vco
  BY <1>1, <1>2, <1>4 DEF Radio
<1>. HIDE DEF t, u
<1>9. /\ t \in Radio
      /\ t.mode = r.mode /\ t.switchctrl = r.switchctrl /\ t.gpio = r.gpio /\ t.regs = r.regs
      /\ t.dirty = dirty /\ t.chip = chip
      /\ reg # "FRAC_LO" => t.vco = r.vco
      /\ reg = "FRAC_LO" => \A k \in SynthRegs : t.vco[k] = t.chip[k]
  BY <1>5, <1>6, <1>7, <1>8
<1>10. QED
  BY <1>9 DEF chip, dirty, t

\* One register of a commit.
LEMMA SendFields ==
  ASSUME NEW r \in Radio, NEW reg \in Regs
  PROVE  LET t == Send(r, reg) IN
         /\ t \in Radio
         /\ t.mode = r.mode /\ t.switchctrl = r.switchctrl /\ t.gpio = r.gpio /\ t.regs = r.regs
         /\ t.dirty = r.dirty \ {reg}
         /\ \A k \in Regs : t.chip[k] = IF k = reg /\ k \in r.dirty THEN r.regs[k] ELSE r.chip[k]
         /\ reg # "FRAC_LO" \/ "FRAC_LO" \notin r.dirty => t.vco = r.vco
         /\ reg = "FRAC_LO" /\ "FRAC_LO" \in r.dirty => \A k \in SynthRegs : t.vco[k] = t.chip[k]
<1>1. r.regs[reg] \in Values /\ r.dirty \in DirtySets /\ r.chip \in Contents
  BY FieldTypes DEF Contents
<1>2. CASE reg \in r.dirty
  <2>. DEFINE v == r.regs[reg]
              t == Written(r, reg, v)
  <2>1. Send(r, reg) = t
    BY <1>2 DEF Send, Written
  <2>v. v \in Values
    BY <1>1
  <2>. HIDE DEF v
  <2>2. /\ t \in Radio
        /\ t.mode = r.mode /\ t.switchctrl = r.switchctrl /\ t.gpio = r.gpio /\ t.regs = r.regs
        /\ t.dirty = r.dirty \ {reg} /\ t.chip = [r.chip EXCEPT ![reg] = v]
        /\ reg # "FRAC_LO" => t.vco = r.vco
        /\ reg = "FRAC_LO" => \A k \in SynthRegs : t.vco[k] = t.chip[k]
    BY <2>v, WriteFields
  <2>. HIDE DEF t
  <2>3. \A k \in Regs : t.chip[k] = IF k = reg /\ k \in r.dirty THEN r.regs[k] ELSE r.chip[k]
    BY <1>1, <1>2, <2>2 DEF Contents, v
  <2>4. QED
    BY <1>2, <2>1, <2>2, <2>3
<1>3. CASE reg \notin r.dirty
  <2>1. Send(r, reg) = r
    BY <1>3 DEF Send
  <2>2. r.dirty \ {reg} = r.dirty
    BY <1>3
  <2>3. QED
    BY <1>1, <1>3, <2>1, <2>2
<1>4. QED
  BY <1>2, <1>3

LEMMA CommitMixerFields ==
  ASSUME NEW r \in Radio
  PROVE  LET t == CommitMixer(r) IN
         /\ t \in Radio
         /\ t.mode = r.mode /\ t.switchctrl = r.switchctrl /\ t.gpio = r.gpio
         /\ t.regs = r.regs /\ t.vco = r.vco /\ t.dirty = r.dirty \ MixerRegs
         /\ \A k \in Regs : t.chip[k] = IF k \in MixerRegs \cap r.dirty THEN r.regs[k] ELSE r.chip[k]
<1>. DEFINE s == Send(r, "ENBL")
            t == Send(s, "GPO")
<1>1. "ENBL" \in Regs /\ "GPO" \in Regs /\ "ENBL" # "GPO"
  BY DEF Regs, MixerRegs
<1>2. /\ s \in Radio
      /\ s.mode = r.mode /\ s.switchctrl = r.switchctrl /\ s.gpio = r.gpio /\ s.regs = r.regs
      /\ s.dirty = r.dirty \ {"ENBL"} /\ s.vco = r.vco
      /\ \A k \in Regs : s.chip[k] = IF k = "ENBL" /\ k \in r.dirty THEN r.regs[k] ELSE r.chip[k]
  BY <1>1, SendFields
<1>s. s \in Radio
  BY <1>2
<1>. HIDE DEF s
<1>3. /\ t \in Radio
      /\ t.mode = s.mode /\ t.switchctrl = s.switchctrl /\ t.gpio = s.gpio /\ t.regs = s.regs
      /\ t.dirty = s.dirty \ {"GPO"} /\ t.vco = s.vco
      /\ \A k \in Regs : t.chip[k] = IF k = "GPO" /\ k \in s.dirty THEN s.regs[k] ELSE s.chip[k]
  BY <1>1, <1>s, SendFields
<1>. HIDE DEF t
<1>4. t.dirty = r.dirty \ MixerRegs
  BY <1>2, <1>3 DEF MixerRegs
<1>5. \A k \in Regs : t.chip[k] = IF k \in MixerRegs \cap r.dirty THEN r.regs[k] ELSE r.chip[k]
  BY <1>1, <1>2, <1>3 DEF MixerRegs
<1>6. CommitMixer(r) = t
  BY DEF CommitMixer, s, t
<1>7. QED
  BY <1>2, <1>3, <1>4, <1>5, <1>6

\* FRAC_LO is the first register to be sent: the chip tunes to the FRAC_HI and INT
\* it has then.
LEMMA CommitSynthFields ==
  ASSUME NEW r \in Radio
  PROVE  LET t == CommitSynth(r) IN
         /\ t \in Radio
         /\ t.mode = r.mode /\ t.switchctrl = r.switchctrl /\ t.gpio = r.gpio
         /\ t.regs = r.regs /\ t.dirty = r.dirty \ SynthRegs
         /\ \A k \in Regs : t.chip[k] = IF k \in SynthRegs \cap r.dirty THEN r.regs[k] ELSE r.chip[k]
         /\ "FRAC_LO" \notin r.dirty => t.vco = r.vco
         /\ "FRAC_LO" \in r.dirty /\ r.dirty \cap {"FRAC_HI", "INT"} = {} =>
              \A k \in SynthRegs : t.vco[k] = t.chip[k]
<1>. DEFINE s == Send(r, "FRAC_LO")
            u == Send(s, "FRAC_HI")
            t == Send(u, "INT")
<1>1. "FRAC_LO" \in Regs /\ "FRAC_HI" \in Regs /\ "INT" \in Regs
  BY DEF Regs, SynthRegs
<1>2. /\ s \in Radio
      /\ s.mode = r.mode /\ s.switchctrl = r.switchctrl /\ s.gpio = r.gpio /\ s.regs = r.regs
      /\ s.dirty = r.dirty \ {"FRAC_LO"}
      /\ \A k \in Regs : s.chip[k] = IF k = "FRAC_LO" /\ k \in r.dirty THEN r.regs[k] ELSE r.chip[k]
      /\ "FRAC_LO" \notin r.dirty => s.vco = r.vco
      /\ "FRAC_LO" \in r.dirty => \A k \in SynthRegs : s.vco[k] = s.chip[k]
  BY <1>1, SendFields
<1>s. s \in Radio
  BY <1>2
<1>. HIDE DEF s
<1>3. /\ u \in Radio
      /\ u.mode = s.mode /\ u.switchctrl = s.switchctrl /\ u.gpio = s.gpio /\ u.regs = s.regs
      /\ u.dirty = s.dirty \ {"FRAC_HI"} /\ u.vco = s.vco
      /\ \A k \in Regs : u.chip[k] = IF k = "FRAC_HI" /\ k \in s.dirty THEN s.regs[k] ELSE s.chip[k]
  BY <1>1, <1>s, SendFields
<1>u. u \in Radio
  BY <1>3
<1>. HIDE DEF u
<1>4. /\ t \in Radio
      /\ t.mode = u.mode /\ t.switchctrl = u.switchctrl /\ t.gpio = u.gpio /\ t.regs = u.regs
      /\ t.dirty = u.dirty \ {"INT"} /\ t.vco = u.vco
      /\ \A k \in Regs : t.chip[k] = IF k = "INT" /\ k \in u.dirty THEN u.regs[k] ELSE u.chip[k]
  BY <1>1, <1>u, SendFields
<1>. HIDE DEF t
<1>5. t.dirty = r.dirty \ SynthRegs
  BY <1>2, <1>3, <1>4 DEF SynthRegs
<1>6. \A k \in Regs : t.chip[k] = IF k \in SynthRegs \cap r.dirty THEN r.regs[k] ELSE r.chip[k]
  BY <1>1, <1>2, <1>3, <1>4 DEF SynthRegs
<1>7. "FRAC_LO" \in r.dirty /\ r.dirty \cap {"FRAC_HI", "INT"} = {} =>
        \A k \in SynthRegs : t.vco[k] = t.chip[k]
  BY <1>1, <1>2, <1>3, <1>4 DEF SynthRegs, Regs
<1>8. CommitSynth(r) = t
  BY DEF CommitSynth, s, t, u
<1>9. QED
  BY <1>2, <1>3, <1>4, <1>5, <1>6, <1>7, <1>8
-----------------------------------------------------------------------------
(* Frequencies *)

\* After n digits, P being 2^n: what of the M Hz the digits stand for.
Accurate(s, n, P, M) ==
  /\ s \in [frac : Nat, rem : Nat, cmp : Nat]
  /\ s.rem <= s.cmp + n /\ s.frac < P
  /\ P * s.cmp <= 30000000 /\ 30000000 < P * s.cmp + P
  /\ 0 <= 30000000 * s.frac - P * (M - s.rem)
  /\ 30000000 * s.frac - P * (M - s.rem) <= n * P

LEMMA DigitAccurate ==
  ASSUME NEW n \in Nat, NEW P \in Nat, NEW M \in Nat, NEW s, Accurate(s, n, P, M)
  PROVE  Accurate(Digit(s), n + 1, 2 * P, M)
<1>. DEFINE h == s.cmp \div 2
            t == Digit(s)
<1>c. s.frac \in Nat /\ s.rem \in Nat /\ s.cmp \in Nat
  BY SMT DEF Accurate
<1>d. \A x \in Nat : x \div 2 \in Nat /\ (x = 2 * (x \div 2) \/ x = 2 * (x \div 2) + 1)
  OBVIOUS
<1>1. /\ s.frac \in Nat /\ s.rem \in Nat /\ s.cmp \in Nat /\ h \in Nat
      /\ s.cmp = 2 * h \/ s.cmp = 2 * h + 1
  BY <1>c, <1>d
<1>2. \/ s.rem > h /\ t = [frac |-> 2 * s.frac + 1, rem |-> s.rem - h, cmp |-> h]
      \/ ~(s.rem > h) /\ t = [frac |-> 2 * s.frac, rem |-> s.rem, cmp |-> h]
  BY SMT DEF Digit
<1>. HIDE DEF h, t
<1>3. /\ t \in [frac : Nat, rem : Nat, cmp : Nat] /\ t.cmp = h
      /\ t.rem <= h + (n + 1) /\ t.frac < 2 * P
  BY <1>1, <1>2, SMT DEF Accurate
<1>. DEFINE a == P * h
            b == n * P
            q == P * (M - s.rem)
<1>4. a \in Int /\ b \in Int /\ q \in Int
  BY <1>1, SMT
<1>5. P * s.cmp = 2 * a \/ P * s.cmp = 2 * a + P
  BY <1>1, SMT
<1>6. 2 * P * t.cmp = 2 * a /\ (n + 1) * (2 * P) = 2 * b + 2 * P
  BY <1>1, <1>3, SMT
<1>7. \/ t.frac = 2 * s.frac + 1 /\ 2 * P * (M - t.rem) = 2 * q + 2 * a
      \/ t.frac = 2 * s.frac /\ 2 * P * (M - t.rem) = 2 * q
  BY <1>1, <1>2, SMT
<1>8. /\ P * s.cmp <= 30000000 /\ 30000000 < P * s.cmp + P
      /\ 0 <= 30000000 * s.frac - q /\ 30000000 * s.frac - q <= b
  BY SMT DEF Accurate
<1>. HIDE DEF a, b, q
<1>9. 2 * a <= 30000000 /\ 30000000 < 2 * a + 2 * P
  BY <1>4, <1>5, <1>8, SMT
<1>10. /\ 0 <= 30000000 * t.frac - 2 * P * (M - t.rem)
       /\ 30000000 * t.frac - 2 * P * (M - t.rem) <= 2 * b + 2 * P
  BY <1>1, <1>4, <1>7, <1>8, <1>9, SMT
<1>11. QED
  BY <1>3, <1>6, <1>9, <1>10, SMT DEF Accurate, t

LEMMA FiveDigitsAccurate ==
  ASSUME NEW n \in Nat, NEW P \in Nat, NEW M \in Nat, NEW s, Accurate(s, n, P, M)
  PROVE  Accurate(FiveDigits(s), n + 5, 32 * P, M)
<1>1. Accurate(Digit(s), n + 1, 2 * P, M)
  BY DigitAccurate
<1>2. Accurate(Digit(Digit(s)), (n + 1) + 1, 2 * (2 * P), M)
  BY <1>1, DigitAccurate
<1>3. (n + 1) + 1 = n + 2 /\ 2 * (2 * P) = 4 * P /\ (n + 2) + 1 = n + 3 /\ 2 * (4 * P) = 8 * P
  OBVIOUS
<1>4. (n + 3) + 1 = n + 4 /\ 2 * (8 * P) = 16 * P /\ (n + 4) + 1 = n + 5 /\ 2 * (16 * P) = 32 * P
  OBVIOUS
<1>5. Accurate(Digit(Digit(s)), n + 2, 4 * P, M)
  BY <1>2, <1>3
<1>6. Accurate(Digit(Digit(Digit(s))), n + 3, 8 * P, M)
  BY <1>3, <1>5, DigitAccurate
<1>7. Accurate(Digit(Digit(Digit(Digit(s)))), n + 4, 16 * P, M)
  BY <1>4, <1>6, DigitAccurate
<1>8. Accurate(Digit(Digit(Digit(Digit(Digit(s))))), n + 5, 32 * P, M)
  BY <1>4, <1>7, DigitAccurate
<1>9. QED
  BY <1>8 DEF FiveDigits

\* The fraction is at most 48 Hz below the remainder, and at most 20 Hz above.
Fraction(frac, hertz) ==
  /\ frac \in Nat /\ frac < 1048576
  /\ 30000000 * frac <= 1048576 * (hertz + 20)
  /\ 1048576 * (hertz - 48) <= 30000000 * frac

LEMMA DivFracAccurate ==
  ASSUME NEW mhz \in Nat
  PROVE  Fraction(DivFrac(mhz), (mhz % 30) * 1000000)
<1>. DEFINE M == (mhz % 30) * 1000000
            s0 == [frac |-> 0, rem |-> M, cmp |-> 30000000]
            s5 == FiveDigits(s0)
            s10 == FiveDigits(s5)
            s15 == FiveDigits(s10)
            s20 == FiveDigits(s15)
<1>1. mhz % 30 \in 0 .. 29
  BY SMT
<1>2. M \in Nat /\ M <= 30000000
  BY <1>1, SMT
<1>3. DivFrac(mhz) = s20.frac
  BY SMT DEF DivFrac
<1>. HIDE DEF M
<1>4. Accurate(s0, 0, 1, M)
  BY <1>2, SMT DEF Accurate
<1>. HIDE DEF s0
<1>5. Accurate(s5, 5, 32, M)
  BY <1>2, <1>4, FiveDigitsAccurate, SMT
<1>. HIDE DEF s5
<1>6. Accurate(s10, 10, 1024, M)
  BY <1>2, <1>5, FiveDigitsAccurate, SMT
<1>. HIDE DEF s10
<1>7. Accurate(s15, 15, 32768, M)
  BY <1>2, <1>6, FiveDigitsAccurate, SMT
<1>. HIDE DEF s15
<1>8. Accurate(s20, 20, 1048576, M)
  BY <1>2, <1>7, FiveDigitsAccurate, SMT
<1>. HIDE DEF s20
<1>. DEFINE frac == s20.frac
            rem == s20.rem
            cmp == s20.cmp
<1>9. /\ frac \in Nat /\ rem \in Nat /\ cmp \in Nat
      /\ rem <= cmp + 20 /\ frac < 1048576 /\ 1048576 * cmp <= 30000000
      /\ 0 <= 30000000 * frac - 1048576 * (M - rem)
      /\ 30000000 * frac - 1048576 * (M - rem) <= 20 * 1048576
  BY <1>8, SMT DEF Accurate
<1>. HIDE DEF frac, rem, cmp
<1>10. Fraction(frac, M)
  BY <1>2, <1>9, SMT DEF Fraction
<1>11. QED
  BY <1>3, <1>10, SMT DEF M, frac

LEMMA FreqType ==
  ASSUME NEW c \in 0 .. 39
  PROVE  FreqOf(c) \in 2402 .. 2480
<1>1. CASE c \in 0 .. 10
  BY <1>1 DEF FreqOf
<1>2. CASE c \in 11 .. 36
  BY <1>2 DEF FreqOf
<1>3. CASE c \in {37, 38, 39}
  BY <1>3 DEF FreqOf
<1>4. QED
  BY <1>1, <1>2, <1>3

LEMMA HighAndLow ==
  ASSUME NEW x \in Nat
  PROVE  /\ x \div 1024 \in Nat /\ x % 1024 \in Nat /\ x % 1024 < 1024
         /\ x = 1024 * (x \div 1024) + (x % 1024)
  BY SMT

LEMMA DividerType ==
  ASSUME NEW c \in 0 .. 39
  PROVE  Divider(c).INT \in Values /\ Divider(c).FRAC_HI \in Values /\ Divider(c).FRAC_LO \in Values
<1>. DEFINE mhz == FreqOf(c)
            frac == DivFrac(mhz)
<1>1. mhz \in 2402 .. 2480
  BY FreqType
<1>. HIDE DEF mhz
<1>2. mhz \in Nat /\ mhz \div 30 \in Values
  BY <1>1 DEF Values
<1>f. Fraction(frac, (mhz % 30) * 1000000)
  BY <1>2, DivFracAccurate
<1>3. frac \in Nat /\ frac < 1048576
  BY <1>f, SMT DEF Fraction
<1>. HIDE DEF frac
<1>4. frac \div 1024 \in Values /\ frac % 1024 \in Values
  BY <1>3, HighAndLow, SMT DEF Values
<1>5. QED
  BY <1>2, <1>4 DEF Divider, DivInt, mhz, frac

\* A synthesiser with the divider of a channel is on its frequency.
LEMMA DividerNear ==
  ASSUME NEW c \in 0 .. 39, NEW vco,
         vco.INT = Divider(c).INT, vco.FRAC_HI = Divider(c).FRAC_HI, vco.FRAC_LO = Divider(c).FRAC_LO
  PROVE  Near(vco, c)
<1>. DEFINE mhz == FreqOf(c)
            frac == DivFrac(mhz)
            high == frac \div 1024
            low == frac % 1024
            whole == mhz \div 30
            rest == mhz % 30
<1>1. mhz \in Nat
  BY FreqType
<1>2. vco.INT = whole /\ vco.FRAC_HI = high /\ vco.FRAC_LO = low
  BY DEF Divider, DivInt
<1>. HIDE DEF mhz
<1>3. whole \in Nat /\ rest \in Nat /\ mhz = 30 * whole + rest
  BY <1>1, SMT
<1>f. Fraction(frac, rest * 1000000)
  BY <1>1, DivFracAccurate, SMT
<1>4. /\ frac \in Nat /\ frac < 1048576
      /\ 30000000 * frac <= 1048576 * (rest * 1000000 + 20)
      /\ 1048576 * (rest * 1000000 - 48) <= 30000000 * frac
  BY <1>f, SMT DEF Fraction
<1>. HIDE DEF frac
<1>5. high \in Nat /\ low \in Nat /\ frac = 1024 * high + low
  BY <1>4, HighAndLow, SMT
<1>. HIDE DEF high, low, whole, rest
<1>. DEFINE x == (30000 * high) \div 1024
            y == (30000 * low) \div (1024 * 1024)
<1>6. /\ x \in Int /\ 1024 * x <= 30000 * high /\ 30000 * high < 1024 * x + 1024
      /\ y \in Int /\ 1048576 * y <= 30000 * low /\ 30000 * low < 1048576 * y + 1048576
  BY <1>5, SMT
<1>7. Tuned(vco) = 30000 * whole + x + y
  BY <1>2, SMT DEF Tuned
<1>. HIDE DEF x, y
<1>8. 1000 * rest - 50 <= x + y /\ x + y <= 1000 * rest + 50
  BY <1>3, <1>4, <1>5, <1>6, SMT
<1>. DEFINE off == Tuned(vco) - 1000 * mhz
<1>9. off \in Int /\ -50 <= off /\ off <= 50
  BY <1>3, <1>6, <1>7, <1>8, SMT
<1>10. off = Tuned(vco) - 1000 * FreqOf(c)
  BY DEF mhz
<1>. HIDE DEF off
<1>11. QED
  BY <1>9, <1>10, SMT DEF Near, Tolerance
-----------------------------------------------------------------------------
(* What a request leaves behind *)

EnblRight(r) == r.regs["ENBL"] = 0 /\ Sent(r, "ENBL")

\* Mixer and switches are in the positions of switchctrl.
MixerRight(r) ==
  /\ r.regs["ENBL"] = 0 /\ r.chip["ENBL"] = 0
  /\ r.regs["GPO"] = Gpo(r.switchctrl) /\ r.chip["GPO"] = Gpo(r.switchctrl)
  /\ "ENBL" \notin r.dirty /\ "GPO" \notin r.dirty
  /\ \A p \in Groups : r.gpio[p] = Driven(p, r.switchctrl)

\* The synthesiser is tuned to channel c, and its shadow agrees.
SynthRight(r, c) ==
  /\ r.regs["INT"] = Divider(c).INT /\ r.regs["FRAC_HI"] = Divider(c).FRAC_HI
  /\ r.regs["FRAC_LO"] = Divider(c).FRAC_LO
  /\ \A reg \in SynthRegs : reg \notin r.dirty /\ r.chip[reg] = r.regs[reg] /\ r.vco[reg] = r.regs[reg]

LEMMA MendedAll ==
  ASSUME NEW r, NEW c
  PROVE  Mended(r, c, 18) <=> MixerRight(r) /\ SynthRight(r, c)
<1>1. Mended(r, c, 18) => MixerRight(r)
  BY DEF Mended, MixerRight, Sent, Groups
<1>2. Mended(r, c, 18) => SynthRight(r, c)
  BY DEF Mended, SynthRight, Sent, SynthRegs
<1>3. MixerRight(r) /\ SynthRight(r, c) => Mended(r, c, 18)
  BY DEF Mended, MixerRight, SynthRight, Sent, SynthRegs, Groups
<1>4. QED
  BY <1>1, <1>2, <1>3

\* What drives pins and mixer leaves the synthesiser alone.
SameSynth(t, r) ==
  \A reg \in SynthRegs : /\ t.regs[reg] = r.regs[reg] /\ t.chip[reg] = r.chip[reg]
                         /\ t.vco[reg] = r.vco[reg] /\ (reg \in t.dirty <=> reg \in r.dirty)

LEMMA SameSynthRight ==
  ASSUME NEW t, NEW r, NEW c, SameSynth(t, r), SynthRight(r, c)
  PROVE  SynthRight(t, c)
  BY DEF SameSynth, SynthRight, SynthRegs

LEMMA SameSynthTransitive ==
  ASSUME NEW t, NEW u, NEW r, SameSynth(t, u), SameSynth(u, r)
  PROVE  SameSynth(t, r)
  BY DEF SameSynth

LEMMA GpoValue == \A c : Gpo(c) \in Values
  BY DEF Gpo, Values

LEMMA DrivenType == ASSUME NEW p \in Groups, NEW c PROVE Driven(p, c) \in Positions
  BY DEF Driven, Groups, Positions

\* switchctrl_set drives every group of pins and sends GPO, and whatever is dirty.
LEMMA SwitchctrlSetResult ==
  ASSUME NEW r \in Radio
  PROVE  LET t == SwitchctrlSet(r) IN
         /\ t \in Radio /\ t.mode = r.mode /\ t.switchctrl = r.switchctrl
         /\ SameSynth(t, r) /\ (EnblRight(r) => MixerRight(t))
<1>. DEFINE g == [p \in Groups |-> Driven(p, r.switchctrl)]
            u == [r EXCEPT !.gpio = g]
            v == Gpo(r.switchctrl)
            s == Set(u, "GPO", v)
            t == CommitMixer(s)
<1>1. "GPO" \in Regs /\ "ENBL" \in Regs /\ v \in Values /\ SynthRegs \subseteq Regs
  BY GpoValue DEF Regs, MixerRegs
<1>2. g \in PinStates /\ \A p \in Groups : g[p] = Driven(p, r.switchctrl)
  BY DrivenType DEF PinStates
<1>3. SwitchctrlSet(r) = t
  BY Names DEF SwitchctrlSet
<1>. HIDE DEF g, v
<1>4. /\ u \in Radio /\ u.mode = r.mode /\ u.switchctrl = r.switchctrl /\ u.gpio = g
      /\ u.regs = r.regs /\ u.dirty = r.dirty /\ u.chip = r.chip /\ u.vco = r.vco
  BY <1>2, PinFields
<1>u. u \in Radio /\ r.regs \in Contents
  BY <1>4, FieldTypes
<1>. HIDE DEF u
<1>5. /\ s \in Radio /\ s.mode = u.mode /\ s.switchctrl = u.switchctrl /\ s.gpio = u.gpio
      /\ s.regs = [u.regs EXCEPT !["GPO"] = v] /\ s.dirty = u.dirty \cup {"GPO"}
      /\ s.chip = u.chip /\ s.vco = u.vco
  BY <1>1, <1>u, SetFields
<1>s. s \in Radio
  BY <1>5
<1>. HIDE DEF s
<1>6. /\ t \in Radio
      /\ t.mode = s.mode /\ t.switchctrl = s.switchctrl /\ t.gpio = s.gpio
      /\ t.regs = s.regs /\ t.vco = s.vco /\ t.dirty = s.dirty \ MixerRegs
      /\ \A k \in Regs : t.chip[k] = IF k \in MixerRegs \cap s.dirty THEN s.regs[k] ELSE s.chip[k]
  BY <1>s, CommitMixerFields
<1>. HIDE DEF t
<1>7. s.regs["GPO"] = v /\ \A k \in Regs \ {"GPO"} : s.regs[k] = r.regs[k]
  BY <1>1, <1>4, <1>5, <1>u DEF Contents
<1>8. SameSynth(t, r)
  BY <1>1, <1>4, <1>5, <1>6, <1>7 DEF SameSynth, SynthRegs, MixerRegs
<1>9. ASSUME EnblRight(r)
      PROVE  MixerRight(t)
  <2>1. t.regs["ENBL"] = 0 /\ t.chip["ENBL"] = 0
    BY <1>1, <1>4, <1>5, <1>6, <1>7, <1>9 DEF EnblRight, Sent, MixerRegs
  <2>2. t.regs["GPO"] = v /\ t.chip["GPO"] = v
    BY <1>1, <1>5, <1>6, <1>7 DEF MixerRegs
  <2>3. "ENBL" \notin t.dirty /\ "GPO" \notin t.dirty
    BY <1>6 DEF MixerRegs
  <2>4. \A p \in Groups : t.gpio[p] = Driven(p, r.switchctrl)
    BY <1>2, <1>4, <1>5, <1>6
  <2>5. QED
    BY <2>1, <2>2, <2>3, <2>4, <1>4, <1>5, <1>6 DEF MixerRight, v
<1>10. QED
  BY <1>3, <1>4, <1>5, <1>6, <1>8, <1>9

LEMMA SwitchResult ==
  ASSUME NEW r \in Radio, NEW c \in Settings
  PROVE  LET t == Switch(r, c) IN
         /\ t \in Radio /\ t.mode = r.mode /\ t.switchctrl = c
         /\ SameSynth(t, r) /\ (EnblRight(r) => MixerRight(t))
<1>. DEFINE u == [r EXCEPT !.switchctrl = c]
            t == SwitchctrlSet(u)
<1>1. /\ u \in Radio /\ u.mode = r.mode /\ u.switchctrl = c /\ u.gpio = r.gpio /\ u.regs = r.regs
      /\ u.dirty = r.dirty /\ u.chip = r.chip /\ u.vco = r.vco
  BY SwitchFields
<1>u. u \in Radio
  BY <1>1
<1>2. Switch(r, c) = t
  BY DEF Switch
<1>. HIDE DEF u
<1>3. /\ t \in Radio /\ t.mode = u.mode /\ t.switchctrl = u.switchctrl
      /\ SameSynth(t, u) /\ (EnblRight(u) => MixerRight(t))
  BY <1>u, SwitchctrlSetResult
<1>. HIDE DEF t
<1>4. SameSynth(u, r) /\ (EnblRight(r) => EnblRight(u))
  BY <1>1 DEF SameSynth, EnblRight, Sent
<1>5. QED
  BY <1>1, <1>2, <1>3, <1>4, SameSynthTransitive

\* The mixer is switched on or off and everything dirty on its bus sent.
LEMMA EnableResult ==
  ASSUME NEW r \in Radio, NEW v \in Values
  PROVE  LET t == CommitMixer(Set(r, "ENBL", v)) IN
         /\ t \in Radio /\ t.mode = r.mode /\ t.switchctrl = r.switchctrl
         /\ SameSynth(t, r) /\ (v = 0 => EnblRight(t))
<1>. DEFINE s == Set(r, "ENBL", v)
            t == CommitMixer(s)
<1>1. "GPO" \in Regs /\ "ENBL" \in Regs /\ SynthRegs \subseteq Regs /\ r.regs \in Contents
  BY FieldTypes DEF Regs, MixerRegs
<1>2. /\ s \in Radio /\ s.mode = r.mode /\ s.switchctrl = r.switchctrl /\ s.gpio = r.gpio
      /\ s.regs = [r.regs EXCEPT !["ENBL"] = v] /\ s.dirty = r.dirty \cup {"ENBL"}
      /\ s.chip = r.chip /\ s.vco = r.vco
  BY <1>1, SetFields
<1>s. s \in Radio
  BY <1>2
<1>. HIDE DEF s
<1>3. /\ t \in Radio
      /\ t.mode = s.mode /\ t.switchctrl = s.switchctrl /\ t.gpio = s.gpio
      /\ t.regs = s.regs /\ t.vco = s.vco /\ t.dirty = s.dirty \ MixerRegs
      /\ \A k \in Regs : t.chip[k] = IF k \in MixerRegs \cap s.dirty THEN s.regs[k] ELSE s.chip[k]
  BY <1>s, CommitMixerFields
<1>. HIDE DEF t
<1>4. s.regs["ENBL"] = v /\ \A k \in Regs \ {"ENBL"} : s.regs[k] = r.regs[k]
  BY <1>1, <1>2 DEF Contents
<1>5. SameSynth(t, r)
  BY <1>1, <1>2, <1>3, <1>4 DEF SameSynth, SynthRegs, MixerRegs
<1>6. v = 0 => EnblRight(t)
  BY <1>1, <1>2, <1>3, <1>4 DEF EnblRight, Sent, MixerRegs
<1>7. QED
  BY <1>2, <1>3, <1>5, <1>6 DEF s, t

\* The switches alone: mixer and synthesiser stay right.
Steady(t, r) ==
  /\ t \in Radio /\ t.mode = r.mode
  /\ SameSynth(t, r) /\ (MixerRight(r) => MixerRight(t))

LNA_OFF == {"AMP_BYPASS", "NO_TX_AMP_PWR", "NO_RX_AMP_PWR"}

LEMMA SetLnaResult ==
  ASSUME NEW r \in Radio, NEW enable \in BOOLEAN
  PROVE  LET t == SetLna(r, enable) IN
         /\ Steady(t, r)
         /\ enable => t.switchctrl = (r.switchctrl \cup {"NO_TX_AMP_PWR"}) \ {"AMP_BYPASS", "NO_RX_AMP_PWR"}
         /\ ~enable => t.switchctrl = r.switchctrl \cup LNA_OFF
<1>. DEFINE c == IF enable
                   THEN (r.switchctrl \cup {"NO_TX_AMP_PWR"}) \ {"AMP_BYPASS", "NO_RX_AMP_PWR"}
                   ELSE r.switchctrl \cup LNA_OFF
            t == Switch(r, c)
<1>1. r.switchctrl \in Settings
  BY FieldTypes
<1>2. c \in Settings
  BY <1>1 DEF Settings, Flags, LNA_OFF
<1>3. SetLna(r, enable) = t
  BY DEF SetLna, LNA_OFF
<1>4. /\ enable => c = (r.switchctrl \cup {"NO_TX_AMP_PWR"}) \ {"AMP_BYPASS", "NO_RX_AMP_PWR"}
      /\ ~enable => c = r.switchctrl \cup LNA_OFF
  OBVIOUS
<1>. HIDE DEF c
<1>5. /\ t \in Radio /\ t.mode = r.mode /\ t.switchctrl = c
      /\ SameSynth(t, r) /\ (EnblRight(r) => MixerRight(t))
  BY <1>2, SwitchResult
<1>. HIDE DEF t
<1>6. MixerRight(r) => EnblRight(r)
  BY DEF MixerRight, EnblRight, Sent
<1>7. QED
  BY <1>3, <1>4, <1>5, <1>6 DEF Steady

LEMMA SetAntennaResult ==
  ASSUME NEW r \in Radio, NEW enable \in BOOLEAN
  PROVE  LET t == SetAntenna(r, enable) IN
         /\ Steady(t, r)
         /\ enable => t.switchctrl = r.switchctrl \cup {"ANT_PWR"}
         /\ ~enable => t.switchctrl = r.switchctrl \ {"ANT_PWR"}
<1>. DEFINE c == IF enable THEN r.switchctrl \cup {"ANT_PWR"} ELSE r.switchctrl \ {"ANT_PWR"}
            t == Switch(r, c)
<1>1. r.switchctrl \in Settings
  BY FieldTypes
<1>2. c \in Settings
  BY <1>1 DEF Settings, Flags
<1>3. SetAntenna(r, enable) = t
  BY DEF SetAntenna
<1>4. /\ enable => c = r.switchctrl \cup {"ANT_PWR"}
      /\ ~enable => c = r.switchctrl \ {"ANT_PWR"}
  OBVIOUS
<1>. HIDE DEF c
<1>5. /\ t \in Radio /\ t.mode = r.mode /\ t.switchctrl = c
      /\ SameSynth(t, r) /\ (EnblRight(r) => MixerRight(t))
  BY <1>2, SwitchResult
<1>. HIDE DEF t
<1>6. MixerRight(r) => EnblRight(r)
  BY DEF MixerRight, EnblRight, Sent
<1>7. QED
  BY <1>3, <1>4, <1>5, <1>6 DEF Steady

\* The filter of a Bluetooth channel: whatever the mixer was, it is off and bypassed.
LEMMA SetBypassResult ==
  ASSUME NEW r \in Radio
  PROVE  LET t == SetBypass(r) IN
         /\ t \in Radio /\ t.mode = r.mode /\ t.switchctrl = r.switchctrl \cup {"MIX_BYPASS"}
         /\ MixerRight(t)
<1>. DEFINE c == r.switchctrl \cup {"MIX_BYPASS"}
            u == [r EXCEPT !.switchctrl = c]
            s == CommitMixer(Set(u, "ENBL", 0))
            t == SwitchctrlSet(s)
<1>1. SetBypass(r) = t
  BY DEF SetBypass, Radio
<1>2. c \in Settings /\ 0 \in Values
  BY FieldTypes DEF Settings, Flags, Values
<1>. HIDE DEF c
<1>3. u \in Radio /\ u.mode = r.mode /\ u.switchctrl = c
  BY <1>2, SwitchFields
<1>. HIDE DEF u
<1>4. s \in Radio /\ s.mode = u.mode /\ s.switchctrl = u.switchctrl /\ EnblRight(s)
  BY <1>2, <1>3, EnableResult
<1>. HIDE DEF s
<1>5. t \in Radio /\ t.mode = s.mode /\ t.switchctrl = s.switchctrl /\ MixerRight(t)
  BY <1>4, SwitchctrlSetResult
<1>6. QED
  BY <1>1, <1>3, <1>4, <1>5 DEF c

\* rf_path_set_direction, either way.
LEMMA DirectionRxResult ==
  ASSUME NEW r \in Radio
  PROVE  LET t == DirectionRx(r)
             c == r.switchctrl \cup {"NO_TX_AMP_PWR", "NO_RX_AMP_PWR"} IN
         /\ t \in Radio /\ t.mode = "RX"
         /\ t.switchctrl = IF "AMP_BYPASS" \in r.switchctrl THEN c ELSE c \ {"NO_RX_AMP_PWR"}
         /\ "MIX_BYPASS" \in r.switchctrl => MixerRight(t)
         /\ \A ch : SynthRight(r, ch) => SynthRight(t, ch)
<1>. DEFINE c == (r.switchctrl \cup {"NO_TX_AMP_PWR", "NO_RX_AMP_PWR"}) \ {"TX"}
            amp == IF "AMP_BYPASS" \in c THEN c ELSE c \ {"NO_RX_AMP_PWR"}
            enable == IF "MIX_BYPASS" \in c THEN 0 ELSE 1
            u == CommitMixer(Set(r, "ENBL", 0))
            mixer == CommitMixer(Set(u, "ENBL", enable))
            synth == CommitSynth(mixer)
            rx == [synth EXCEPT !.mode = "RX"]
            t == Switch(rx, amp)
<1>1. DirectionRx(r) = t
  BY DEF DirectionRx
<1>2. r.switchctrl \in Settings /\ "RX" \in Modes /\ 0 \in Values /\ enable \in Values
  BY FieldTypes DEF Modes, Values
<1>3. c \in Settings /\ amp \in Settings
  BY <1>2 DEF Settings, Flags
<1>4. amp = IF "AMP_BYPASS" \in r.switchctrl THEN r.switchctrl \cup {"NO_TX_AMP_PWR", "NO_RX_AMP_PWR"}
            ELSE (r.switchctrl \cup {"NO_TX_AMP_PWR", "NO_RX_AMP_PWR"}) \ {"NO_RX_AMP_PWR"}
  BY <1>2 DEF Settings, Flags
<1>5. "MIX_BYPASS" \in r.switchctrl => enable = 0
  OBVIOUS
<1>. HIDE DEF amp, enable
<1>6. u \in Radio /\ SameSynth(u, r)
  BY <1>2, EnableResult
<1>. HIDE DEF u
<1>7. mixer \in Radio /\ SameSynth(mixer, u) /\ (enable = 0 => EnblRight(mixer))
  BY <1>2, <1>6, EnableResult
<1>m. mixer \in Radio
  BY <1>7
<1>. HIDE DEF mixer
<1>8. /\ synth \in Radio
      /\ synth.regs = mixer.regs /\ synth.dirty = mixer.dirty \ SynthRegs
      /\ \A k \in Regs : synth.chip[k] =
           IF k \in SynthRegs \cap mixer.dirty THEN mixer.regs[k] ELSE mixer.chip[k]
      /\ "FRAC_LO" \notin mixer.dirty => synth.vco = mixer.vco
  BY <1>m, CommitSynthFields
<1>y. synth \in Radio
  BY <1>8
<1>. HIDE DEF synth
<1>9. /\ rx \in Radio /\ rx.mode = "RX" /\ rx.regs = synth.regs
      /\ rx.dirty = synth.dirty /\ rx.chip = synth.chip /\ rx.vco = synth.vco
  BY <1>2, <1>y, ModeFields
<1>10. EnblRight(mixer) => EnblRight(rx)
  BY <1>8, <1>9 DEF EnblRight, Sent, Regs, MixerRegs, SynthRegs
<1>11. ASSUME NEW ch, SynthRight(mixer, ch)
       PROVE  SynthRight(rx, ch)
  BY <1>8, <1>9, <1>11 DEF SynthRight, SynthRegs, Regs
<1>x. rx \in Radio
  BY <1>9
<1>. HIDE DEF rx
<1>12. /\ t \in Radio /\ t.mode = rx.mode /\ t.switchctrl = amp
       /\ SameSynth(t, rx) /\ (EnblRight(rx) => MixerRight(t))
  BY <1>3, <1>x, SwitchResult
<1>. HIDE DEF t
<1>13. ASSUME NEW ch, SynthRight(r, ch)
       PROVE  SynthRight(t, ch)
  BY <1>6, <1>7, <1>11, <1>12, <1>13, SameSynthRight
<1>14. QED
  BY <1>1, <1>4, <1>5, <1>7, <1>9, <1>10, <1>12, <1>13

LEMMA DirectionOffResult ==
  ASSUME NEW r \in Radio
  PROVE  LET t == DirectionOff(r) IN
         /\ t \in Radio /\ t.mode = "STANDBY"
         /\ t.switchctrl = (r.switchctrl \ {"ANT_PWR"}) \cup LNA_OFF
         /\ MixerRight(t)
         /\ \A ch : SynthRight(r, ch) => SynthRight(t, ch)
<1>. DEFINE a == r.switchctrl \cup {"NO_TX_AMP_PWR", "NO_RX_AMP_PWR"}
            all == [r EXCEPT !.switchctrl = a]
            ant == SetAntenna(all, FALSE)
            quiet == SetLna(ant, FALSE)
            c == quiet.switchctrl \ {"TX"}
            mixer == CommitMixer(Set(quiet, "ENBL", 0))
            off == [mixer EXCEPT !.mode = "STANDBY"]
            t == Switch(off, c)
<1>1. DirectionOff(r) = t
  BY DEF DirectionOff, Radio
<1>2. r.switchctrl \in Settings /\ "STANDBY" \in Modes /\ 0 \in Values
  BY FieldTypes DEF Modes, Values
<1>3. a \in Settings
  BY <1>2 DEF Settings, Flags
<1>. HIDE DEF a
<1>4. /\ all \in Radio /\ all.switchctrl = a /\ all.regs = r.regs
      /\ all.dirty = r.dirty /\ all.chip = r.chip /\ all.vco = r.vco
  BY <1>3, SwitchFields
<1>5. all \in Radio /\ SameSynth(all, r)
  BY <1>4 DEF SameSynth
<1>. HIDE DEF all
<1>6. ant \in Radio /\ SameSynth(ant, all) /\ ant.switchctrl = a \ {"ANT_PWR"}
  BY <1>4, <1>5, SetAntennaResult DEF Steady
<1>. HIDE DEF ant
<1>7. /\ quiet \in Radio /\ SameSynth(quiet, ant)
      /\ quiet.switchctrl = (a \ {"ANT_PWR"}) \cup LNA_OFF
  BY <1>6, SetLnaResult DEF Steady
<1>8. quiet.switchctrl \in Settings
  BY <1>7, FieldTypes
<1>. HIDE DEF quiet
<1>9. /\ mixer \in Radio /\ SameSynth(mixer, quiet) /\ EnblRight(mixer)
  BY <1>2, <1>7, EnableResult
<1>. HIDE DEF mixer
<1>10. /\ off \in Radio /\ off.mode = "STANDBY" /\ off.regs = mixer.regs
       /\ off.dirty = mixer.dirty /\ off.chip = mixer.chip /\ off.vco = mixer.vco
  BY <1>2, <1>9, ModeFields
<1>11. off \in Radio /\ SameSynth(off, mixer) /\ EnblRight(off)
  BY <1>9, <1>10 DEF SameSynth, EnblRight, Sent
<1>12. c \in Settings /\ c = (r.switchctrl \ {"ANT_PWR"}) \cup LNA_OFF
  BY <1>2, <1>7, <1>8 DEF a, Settings, Flags, LNA_OFF
<1>. HIDE DEF off, c
<1>13. /\ t \in Radio /\ t.mode = off.mode /\ t.switchctrl = c
       /\ SameSynth(t, off) /\ (EnblRight(off) => MixerRight(t))
  BY <1>11, <1>12, SwitchResult
<1>. HIDE DEF t
<1>14. SameSynth(t, r)
  BY <1>5, <1>6, <1>7, <1>9, <1>11, <1>13, SameSynthTransitive
<1>15. QED
  BY <1>1, <1>10, <1>11, <1>12, <1>13, <1>14, SameSynthRight

\* Tuning: INT and FRAC_HI reach the chip before FRAC_LO makes it tune.
LEMMA SetSynthResult ==
  ASSUME NEW r \in Radio, NEW c \in 0 .. 39
  PROVE  LET t == SetSynth(r, c) IN
         /\ t \in Radio /\ t.mode = r.mode /\ t.switchctrl = r.switchctrl
         /\ SynthRight(t, c) /\ (MixerRight(r) => MixerRight(t))
<1>. DEFINE d == Divider(c)
            dint == d.INT
            dhigh == d.FRAC_HI
            dlow == d.FRAC_LO
            a == Set(r, "INT", dint)
            b == Set(a, "FRAC_HI", dhigh)
            high == CommitSynth(b)
            e == Set(high, "FRAC_LO", dlow)
            t == CommitSynth(e)
<1>1. SetSynth(r, c) = t
  BY DEF SetSynth
<1>2. dint \in Values /\ dhigh \in Values /\ dlow \in Values
  BY DividerType
<1>3. "INT" \in Regs /\ "FRAC_HI" \in Regs /\ "FRAC_LO" \in Regs /\ r.regs \in Contents
  BY FieldTypes DEF Regs, SynthRegs
<1>. HIDE DEF dint, dhigh, dlow, d
<1>4. /\ a \in Radio /\ a.mode = r.mode /\ a.switchctrl = r.switchctrl /\ a.gpio = r.gpio
      /\ a.regs = [r.regs EXCEPT !["INT"] = dint] /\ a.dirty = r.dirty \cup {"INT"}
      /\ a.chip = r.chip
  BY <1>2, <1>3, SetFields
<1>a. a \in Radio /\ a.regs \in Contents
  BY <1>4, FieldTypes
<1>. HIDE DEF a
<1>5. /\ b \in Radio /\ b.mode = a.mode /\ b.switchctrl = a.switchctrl /\ b.gpio = a.gpio
      /\ b.regs = [a.regs EXCEPT !["FRAC_HI"] = dhigh] /\ b.dirty = a.dirty \cup {"FRAC_HI"}
      /\ b.chip = a.chip
  BY <1>2, <1>3, <1>a, SetFields
<1>b. b \in Radio
  BY <1>5
<1>. HIDE DEF b
<1>6. /\ high \in Radio
      /\ high.mode = b.mode /\ high.switchctrl = b.switchctrl /\ high.gpio = b.gpio
      /\ high.regs = b.regs /\ high.dirty = b.dirty \ SynthRegs
      /\ \A k \in Regs : high.chip[k] = IF k \in SynthRegs \cap b.dirty THEN b.regs[k] ELSE b.chip[k]
  BY <1>b, CommitSynthFields
<1>h. high \in Radio /\ high.regs \in Contents
  BY <1>6, FieldTypes
<1>. HIDE DEF high
<1>7. /\ e \in Radio /\ e.mode = high.mode /\ e.switchctrl = high.switchctrl /\ e.gpio = high.gpio
      /\ e.regs = [high.regs EXCEPT !["FRAC_LO"] = dlow] /\ e.dirty = high.dirty \cup {"FRAC_LO"}
      /\ e.chip = high.chip
  BY <1>2, <1>3, <1>h, SetFields
<1>e. e \in Radio
  BY <1>7
<1>. HIDE DEF e
<1>8. /\ t \in Radio
      /\ t.mode = e.mode /\ t.switchctrl = e.switchctrl /\ t.gpio = e.gpio
      /\ t.regs = e.regs /\ t.dirty = e.dirty \ SynthRegs
      /\ \A k \in Regs : t.chip[k] = IF k \in SynthRegs \cap e.dirty THEN e.regs[k] ELSE e.chip[k]
      /\ "FRAC_LO" \in e.dirty /\ e.dirty \cap {"FRAC_HI", "INT"} = {} =>
           \A k \in SynthRegs : t.vco[k] = t.chip[k]
  BY <1>e, CommitSynthFields
<1>. HIDE DEF t
<1>9. /\ b.regs["INT"] = dint /\ b.regs["FRAC_HI"] = dhigh
      /\ \A k \in MixerRegs : b.regs[k] = r.regs[k]
  BY <1>3, <1>4, <1>5, <1>a DEF Contents, MixerRegs, Regs
<1>10. /\ e.regs["INT"] = dint /\ e.regs["FRAC_HI"] = dhigh /\ e.regs["FRAC_LO"] = dlow
       /\ \A k \in MixerRegs : e.regs[k] = r.regs[k]
  BY <1>3, <1>6, <1>7, <1>9, <1>h DEF Contents, MixerRegs, Regs
<1>11. /\ e.chip["INT"] = dint /\ e.chip["FRAC_HI"] = dhigh
       /\ \A k \in MixerRegs : e.chip[k] = r.chip[k]
  BY <1>3, <1>4, <1>5, <1>6, <1>7, <1>9 DEF MixerRegs, Regs, SynthRegs
<1>12. e.dirty \cap SynthRegs = {"FRAC_LO"} /\ e.dirty \cap MixerRegs = r.dirty \cap MixerRegs
  BY <1>4, <1>5, <1>6, <1>7 DEF MixerRegs, SynthRegs
<1>13. /\ t.chip["INT"] = dint /\ t.chip["FRAC_HI"] = dhigh /\ t.chip["FRAC_LO"] = dlow
       /\ \A k \in MixerRegs : t.chip[k] = r.chip[k]
  BY <1>3, <1>8, <1>10, <1>11, <1>12 DEF MixerRegs, Regs, SynthRegs
<1>14. \A k \in SynthRegs : t.vco[k] = t.chip[k] /\ k \notin t.dirty
  BY <1>8, <1>12 DEF SynthRegs
<1>15. SynthRight(t, c)
  BY <1>8, <1>10, <1>13, <1>14 DEF SynthRight, SynthRegs, dint, dhigh, dlow, d
<1>16. t.switchctrl = r.switchctrl /\ t.mode = r.mode /\ t.gpio = r.gpio
  BY <1>4, <1>5, <1>6, <1>7, <1>8
<1>17. MixerRight(r) => MixerRight(t)
  BY <1>8, <1>10, <1>12, <1>13, <1>16 DEF MixerRight, MixerRegs
<1>18. QED
  BY <1>1, <1>8, <1>15, <1>16, <1>17

\* set_freq as a request runs it.
LEMMA SetFreqResult ==
  ASSUME NEW r \in Radio, NEW c \in 0 .. 39
  PROVE  LET t == SetFreq(r, c) IN
         /\ t \in Radio /\ t.mode = r.mode /\ t.switchctrl = r.switchctrl \cup {"MIX_BYPASS"}
         /\ MixerRight(t) /\ SynthRight(t, c)
<1>. DEFINE a == [r EXCEPT !.mode = "STANDBY"]
            b == SetBypass(a)
            s == SetSynth(b, c)
            t == [s EXCEPT !.mode = r.mode]
<1>1. SetFreq(r, c) = t
  BY DEF SetFreq
<1>2. "STANDBY" \in Modes /\ r.mode \in Modes
  BY FieldTypes DEF Modes
<1>3. a \in Radio /\ a.switchctrl = r.switchctrl
  BY <1>2, ModeFields
<1>. HIDE DEF a
<1>4. b \in Radio /\ b.switchctrl = a.switchctrl \cup {"MIX_BYPASS"} /\ MixerRight(b)
  BY <1>3, SetBypassResult
<1>. HIDE DEF b
<1>5. s \in Radio /\ s.switchctrl = b.switchctrl /\ SynthRight(s, c) /\ MixerRight(s)
  BY <1>4, SetSynthResult
<1>s. s \in Radio
  BY <1>5
<1>. HIDE DEF s
<1>6. /\ t \in Radio /\ t.mode = r.mode /\ t.switchctrl = s.switchctrl /\ t.gpio = s.gpio
      /\ t.regs = s.regs /\ t.dirty = s.dirty /\ t.chip = s.chip /\ t.vco = s.vco
  BY <1>2, <1>s, ModeFields
<1>. HIDE DEF t
<1>7. MixerRight(t) /\ SynthRight(t, c)
  BY <1>5, <1>6 DEF MixerRight, SynthRight
<1>8. QED
  BY <1>1, <1>3, <1>4, <1>5, <1>6, <1>7
-----------------------------------------------------------------------------
(* The steps of a hop *)

PlainNames == {"save", "standby", "load switchctrl", "store switchctrl", "set", "commit",
               "call", "drive", "gpo", "restore"}

LEMMA TupleInSeq ==
  ASSUME NEW a1, NEW a2, NEW a3, NEW a4, NEW a5, NEW a6, NEW a7, NEW a8, NEW a9,
         NEW b1, NEW b2, NEW b3, NEW b4, NEW b5, NEW b6, NEW b7, NEW b8, NEW b9
  PROVE  LET t == <<a1, a2, a3, a4, a5, a6, a7, a8, a9, b1, b2, b3, b4, b5, b6, b7, b8, b9>>
             A == {a1, a2, a3, a4, a5, a6, a7, a8, a9, b1, b2, b3, b4, b5, b6, b7, b8, b9}
         IN  t \in Seq(A) /\ Len(t) = 18
  OBVIOUS

LEMMA StepIs ==
  ASSUME NEW c
  PROVE  /\ Steps(c)[1] = <<"save">>
         /\ Steps(c)[2] = <<"standby">>
         /\ Steps(c)[3] = <<"load switchctrl">>
         /\ Steps(c)[4] = <<"store switchctrl">>
         /\ Steps(c)[5] = <<"set", "ENBL", 0>>
         /\ Steps(c)[6] = <<"commit", Mixer>>
         /\ Steps(c)[7] = <<"call">>
         /\ Steps(c)[8] = <<"drive", "tx">>
         /\ Steps(c)[9] = <<"drive", "mix">>
         /\ Steps(c)[10] = <<"drive", "amp">>
         /\ Steps(c)[11] = <<"gpo">>
         /\ Steps(c)[12] = <<"commit", Mixer>>
         /\ Steps(c)[13] = <<"set", "INT", Divider(c).INT>>
         /\ Steps(c)[14] = <<"set", "FRAC_HI", Divider(c).FRAC_HI>>
         /\ Steps(c)[15] = <<"commit", Synth>>
         /\ Steps(c)[16] = <<"set", "FRAC_LO", Divider(c).FRAC_LO>>
         /\ Steps(c)[17] = <<"commit", Synth>>
         /\ Steps(c)[18] = <<"restore">>
  BY DEF Steps
LEMMA NameIs ==
  ASSUME NEW c
  PROVE  /\ Steps(c)[1][1] = "save"
         /\ Steps(c)[2][1] = "standby"
         /\ Steps(c)[3][1] = "load switchctrl"
         /\ Steps(c)[4][1] = "store switchctrl"
         /\ Steps(c)[5][1] = "set"
         /\ Steps(c)[6][1] = "commit"
         /\ Steps(c)[7][1] = "call"
         /\ Steps(c)[8][1] = "drive"
         /\ Steps(c)[9][1] = "drive"
         /\ Steps(c)[10][1] = "drive"
         /\ Steps(c)[11][1] = "gpo"
         /\ Steps(c)[12][1] = "commit"
         /\ Steps(c)[13][1] = "set"
         /\ Steps(c)[14][1] = "set"
         /\ Steps(c)[15][1] = "commit"
         /\ Steps(c)[16][1] = "set"
         /\ Steps(c)[17][1] = "commit"
         /\ Steps(c)[18][1] = "restore"
  BY DEF Steps
\* Which step of a hop has which name.
NamedAt(name, k) ==
  /\ name \in PlainNames
  /\ name = "save" => k = 1
  /\ name = "standby" => k = 2
  /\ name = "load switchctrl" => k = 3
  /\ name = "store switchctrl" => k = 4
  /\ name = "set" => k \in {5, 13, 14, 16}
  /\ name = "commit" => k \in {6, 12, 15, 17}
  /\ name = "call" => k = 7
  /\ name = "drive" => k \in {8, 9, 10}
  /\ name = "gpo" => k = 11
  /\ name = "restore" => k = 18

LEMMA StepNames ==
  ASSUME NEW c, NEW k \in 1 .. 18
  PROVE  NamedAt(Steps(c)[k][1], k)
<1>a. /\ NamedAt("save", 1)
      /\ NamedAt("standby", 2)
      /\ NamedAt("load switchctrl", 3)
      /\ NamedAt("store switchctrl", 4)
  BY DEF NamedAt, PlainNames
<1>b. /\ NamedAt("set", 5)
      /\ NamedAt("set", 13)
      /\ NamedAt("set", 14)
      /\ NamedAt("set", 16)
  BY DEF NamedAt, PlainNames
<1>c. /\ NamedAt("commit", 6)
      /\ NamedAt("commit", 12)
      /\ NamedAt("commit", 15)
      /\ NamedAt("commit", 17)
  BY DEF NamedAt, PlainNames
<1>d. /\ NamedAt("call", 7)
      /\ NamedAt("drive", 8)
      /\ NamedAt("drive", 9)
      /\ NamedAt("drive", 10)
  BY DEF NamedAt, PlainNames
<1>e. /\ NamedAt("gpo", 11)
      /\ NamedAt("restore", 18)
  BY DEF NamedAt, PlainNames
<1>1. CASE k = 1
  BY <1>1, <1>a, NameIs
<1>2. CASE k = 2
  BY <1>2, <1>a, NameIs
<1>3. CASE k = 3
  BY <1>3, <1>a, NameIs
<1>4. CASE k = 4
  BY <1>4, <1>a, NameIs
<1>5. CASE k = 5
  BY <1>5, <1>b, NameIs
<1>6. CASE k = 6
  BY <1>6, <1>c, NameIs
<1>7. CASE k = 7
  BY <1>7, <1>d, NameIs
<1>8. CASE k = 8
  BY <1>8, <1>d, NameIs
<1>9. CASE k = 9
  BY <1>9, <1>d, NameIs
<1>10. CASE k = 10
  BY <1>10, <1>d, NameIs
<1>11. CASE k = 11
  BY <1>11, <1>e, NameIs
<1>12. CASE k = 12
  BY <1>12, <1>c, NameIs
<1>13. CASE k = 13
  BY <1>13, <1>b, NameIs
<1>14. CASE k = 14
  BY <1>14, <1>b, NameIs
<1>15. CASE k = 15
  BY <1>15, <1>c, NameIs
<1>16. CASE k = 16
  BY <1>16, <1>b, NameIs
<1>17. CASE k = 17
  BY <1>17, <1>c, NameIs
<1>18. CASE k = 18
  BY <1>18, <1>e, NameIs
<1>19. \/ k = 1 \/ k = 2 \/ k = 3 \/ k = 4 \/ k = 5 \/ k = 6 \/ k = 7 \/ k = 8 \/ k = 9
       \/ k = 10 \/ k = 11 \/ k = 12 \/ k = 13 \/ k = 14 \/ k = 15 \/ k = 16 \/ k = 17 \/ k = 18
  OBVIOUS
<1>20. QED
  BY <1>1, <1>2, <1>3, <1>4, <1>5, <1>6, <1>7, <1>8, <1>9,
     <1>10, <1>11, <1>12, <1>13, <1>14, <1>15, <1>16, <1>17, <1>18, <1>19

LEMMA StepsSeq ==
  ASSUME NEW c
  PROVE  \E Items : Steps(c) \in Seq(Items) /\ Len(Steps(c)) = 18
<1>. DEFINE a1 == <<"save">>
            a2 == <<"standby">>
            a3 == <<"load switchctrl">>
            a4 == <<"store switchctrl">>
            a5 == <<"set", "ENBL", 0>>
            a6 == <<"commit", Mixer>>
            a7 == <<"call">>
            a8 == <<"drive", "tx">>
            a9 == <<"drive", "mix">>
            b1 == <<"drive", "amp">>
            b2 == <<"gpo">>
            b3 == <<"commit", Mixer>>
            b4 == <<"set", "INT", Divider(c).INT>>
            b5 == <<"set", "FRAC_HI", Divider(c).FRAC_HI>>
            b6 == <<"commit", Synth>>
            b7 == <<"set", "FRAC_LO", Divider(c).FRAC_LO>>
            b8 == <<"commit", Synth>>
            b9 == <<"restore">>
            Items == {a1, a2, a3, a4, a5, a6, a7, a8, a9, b1, b2, b3, b4, b5, b6, b7, b8, b9}
<1>1. Steps(c) = <<a1, a2, a3, a4, a5, a6, a7, a8, a9, b1, b2, b3, b4, b5, b6, b7, b8, b9>>
  BY Zenon DEF Steps
<1>. HIDE DEF a1, a2, a3, a4, a5, a6, a7, a8, a9, b1, b2, b3, b4, b5, b6, b7, b8, b9
<1>2. Steps(c) \in Seq(Items) /\ Len(Steps(c)) = 18
  BY <1>1, TupleInSeq
<1>3. QED
  BY <1>2

LEMMA RestOfSeq ==
  ASSUME NEW Items, NEW ops \in Seq(Items), NEW k \in 1 .. Len(ops)
  PROVE  LET rest == SubSeq(ops, k, Len(ops)) IN
         /\ rest # <<>> /\ Head(rest) = ops[k] /\ Tail(rest) = SubSeq(ops, k + 1, Len(ops))
         /\ rest \in Seq(Items)
<1>. DEFINE rest == SubSeq(ops, k, Len(ops))
<1>1. k \in Int /\ Len(ops) \in Nat /\ k <= Len(ops)
  OBVIOUS
<1>2. Head(rest) = ops[k] /\ Tail(rest) = SubSeq(ops, k + 1, Len(ops))
  BY <1>1, HeadTailOfSubSeq
<1>3. \A i \in k .. Len(ops) : ops[i] \in Items
  OBVIOUS
<1>4. rest \in Seq(Items) /\ Len(rest) = Len(ops) - k + 1
  BY <1>1, <1>3, SubSeqProperties
<1>5. rest # <<>>
  <2>1. Len(rest) # 0
    BY <1>1, <1>4
  <2>2. QED
    BY <2>1, EmptySeq
<1>6. QED
  BY <1>2, <1>4, <1>5

LEMMA LeftStep ==
  ASSUME NEW c, NEW k \in 1 .. 18
  PROVE  /\ Left(c, k) # <<>> /\ Head(Left(c, k)) = Steps(c)[k]
         /\ Tail(Left(c, k)) = Left(c, k + 1)
         /\ \E Items : Left(c, k) \in Seq(Items)
<1>1. PICK Items : Steps(c) \in Seq(Items) /\ Len(Steps(c)) = 18
  BY StepsSeq
<1>2. k \in 1 .. Len(Steps(c))
  BY <1>1
<1>. DEFINE all == Steps(c)
<1>. HIDE DEF all
<1>3. Len(all) = 18 /\ all \in Seq(Items) /\ k \in 1 .. Len(all)
  BY <1>1, <1>2 DEF all
<1>4. /\ SubSeq(all, k, Len(all)) # <<>> /\ Head(SubSeq(all, k, Len(all))) = all[k]
      /\ Tail(SubSeq(all, k, Len(all))) = SubSeq(all, k + 1, Len(all))
      /\ SubSeq(all, k, Len(all)) \in Seq(Items)
  BY <1>3, RestOfSeq
<1>5. QED
  BY <1>3, <1>4 DEF all, Left

LEMMA LeftAll ==
  ASSUME NEW c
  PROVE  Left(c, 1) = Steps(c) /\ Left(c, 18 + 1) = <<>>
  BY StepsSeq, SubSeqFull, SubSeqEmpty DEF Left

LEMMA OneAhead ==
  ASSUME NEW Items, NEW s \in Seq(Items), NEW x
  PROVE  <<x>> \o s # <<>> /\ Head(<<x>> \o s) = x /\ Tail(<<x>> \o s) = s
<1>. DEFINE A == Items \cup {x}
<1>1. s \in Seq(A) /\ <<x>> \in Seq(A)
  OBVIOUS
<1>2. <<x>> \o s \in Seq(A) /\ Len(<<x>> \o s) = 1 + Len(s) /\ (<<x>> \o s)[1] = x
      /\ \A i \in 1 .. Len(s) : (<<x>> \o s)[1 + i] = s[i]
  BY <1>1
<1>3. <<x>> \o s # <<>>
  BY <1>2
<1>4. Head(<<x>> \o s) = x
  BY <1>2
<1>5. Tail(<<x>> \o s) = s
  BY <1>2, <1>1
<1>6. QED
  BY <1>3, <1>4, <1>5

LEMMA TwoAhead ==
  ASSUME NEW Items, NEW s \in Seq(Items), NEW x, NEW y
  PROVE  /\ <<x, y>> \o s # <<>> /\ Head(<<x, y>> \o s) = x
         /\ Tail(<<x, y>> \o s) = <<y>> \o s
<1>1. <<y>> \o s \in Seq(Items \cup {x, y})
  OBVIOUS
<1>2. <<x, y>> \o s = <<x>> \o (<<y>> \o s)
  <2>. DEFINE A == Items \cup {x, y}
  <2>1. s \in Seq(A) /\ <<x>> \in Seq(A) /\ <<y>> \in Seq(A)
    OBVIOUS
  <2>2. <<x, y>> = <<x>> \o <<y>>
    <3>. DEFINE u == <<x, y>>
                v == <<x>> \o <<y>>
    <3>1. u \in Seq(A) /\ Len(u) = 2 /\ u[1] = x /\ u[2] = y
      OBVIOUS
    <3>2. v \in Seq(A) /\ Len(v) = 2 /\ v[1] = x /\ v[2] = y
      OBVIOUS
    <3>. HIDE DEF u, v
    <3>3. u = v
      BY <3>1, <3>2, SeqEqual
    <3>4. QED
      BY <3>3 DEF u, v
  <2>. HIDE DEF A
  <2>3. (<<x>> \o <<y>>) \o s = <<x>> \o (<<y>> \o s)
    BY <2>1, ConcatAssociative
  <2>4. QED
    BY <2>2, <2>3
<1>3. QED
  BY <1>1, <1>2, OneAhead

\* What main finds ahead while a register is on its way to the chip.
Ahead(c, k, reg, begun) ==
  /\ todo # <<>> /\ Head(todo) = begun[1] /\ begun[1][2] = reg
  /\ begun[1][1] \in {"begin", "end", "lost"}
  /\ begun[1][1] = "begin" => Tail(todo) = << <<"end", reg>> >> \o Left(c, k)
  /\ begun[1][1] # "begin" => Tail(todo) = Left(c, k) /\ begun = << begun[1] >>

LEMMA SendingStep ==
  ASSUME NEW c, NEW k \in 1 .. 18, NEW reg, NEW begun \in Sending(reg), todo = begun \o Left(c, k)
  PROVE  Ahead(c, k, reg, begun)
<1>1. PICK Items : Left(c, k) \in Seq(Items)
  BY LeftStep
<1>2. CASE begun = << <<"begin", reg>>, <<"end", reg>> >>
  <2>1. begun[1] = <<"begin", reg>> /\ begun[1][1] = "begin" /\ begun[1][2] = reg
    BY <1>2
  <2>. DEFINE x == <<"begin", reg>>
              y == <<"end", reg>>
  <2>. HIDE DEF x, y
  <2>2. /\ <<x, y>> \o Left(c, k) # <<>> /\ Head(<<x, y>> \o Left(c, k)) = x
        /\ Tail(<<x, y>> \o Left(c, k)) = <<y>> \o Left(c, k)
    BY <1>1, TwoAhead
  <2>3. QED
    BY <1>2, <2>1, <2>2 DEF x, y, Ahead
<1>3. CASE begun = << <<"end", reg>> >> \/ begun = << <<"lost", reg>> >>
  <2>. DEFINE x == begun[1]
  <2>1. begun = << x >> /\ x[1] \in {"end", "lost"} /\ x[1] # "begin" /\ x[2] = reg
    BY <1>3
  <2>. HIDE DEF x
  <2>2. <<x>> \o Left(c, k) # <<>> /\ Head(<<x>> \o Left(c, k)) = x /\ Tail(<<x>> \o Left(c, k)) = Left(c, k)
    BY <1>1, OneAhead
  <2>3. todo # <<>> /\ Head(todo) = x /\ Tail(todo) = Left(c, k)
    BY <2>1, <2>2
  <2>4. QED
    BY <2>1, <2>3 DEF x, Ahead
<1>4. QED
  BY <1>2, <1>3 DEF Sending

LEMMA PlainStep ==
  ASSUME NEW c, NEW k \in 1 .. 18, todo = Left(c, k) \/ InCommit(c, k),
         NEW name \in PlainNames, Doing(name)
  PROVE  /\ todo = Left(c, k) /\ Head(todo) = Steps(c)[k] /\ NamedAt(name, k)
         /\ Tail(todo) = Left(c, k + 1)
<1>1. ~InCommit(c, k)
  <2>1. SUFFICES ASSUME NEW reg \in Regs, NEW begun \in Sending(reg), todo = begun \o Left(c, k)
                 PROVE  FALSE
    BY DEF InCommit
  <2>2. Head(todo)[1] \in {"begin", "end", "lost"}
    BY <2>1, SendingStep DEF Ahead
  <2>3. QED
    BY <2>2 DEF Doing, PlainNames
<1>2. todo = Left(c, k)
  BY <1>1
<1>3. Head(todo) = Steps(c)[k] /\ Tail(todo) = Left(c, k + 1)
  BY <1>2, LeftStep
<1>4. QED
  BY <1>2, <1>3, StepNames DEF Doing

LEMMA HopsSomewhere ==
  ASSUME IInv, Hopping
  PROVE  armed /\ \E c \in Channels, k \in 1 .. 18 : At(c, k)
  BY DEF IInv, Idle, Hopping

\* What a step of main may touch, and where it leaves the hop.
MainTypes ==
  /\ radio' \in Radio /\ prior' \in Modes /\ value' \in Values
  /\ loaded' \in Settings /\ ctrl' \in Settings

LEMMA MainTypeInv ==
  ASSUME TypeInv, UNCHANGED <<transceiver_mode, armed, ghosts>>, MainTypes
  PROVE  TypeInv'
  BY DEF TypeInv, MainTypes, ghosts

LEMMA SwitchesHeld ==
  ASSUME IInv, UNCHANGED <<transceiver_mode, armed, ghosts>>,
         "MIX_BYPASS" \in radio.switchctrl => "MIX_BYPASS" \in radio'.switchctrl,
         Kept(radio'.switchctrl)
  PROVE  Bypassed' /\ Kept(radio.switchctrl)'
  BY DEF IInv, Bypassed, Kept, ghosts

LEMMA Advance ==
  ASSUME IInv, UNCHANGED <<transceiver_mode, armed, ghosts>>, MainTypes, armed,
         NEW c \in Channels, NEW k \in 1 .. 17, At(c, k), todo' = Left(c, k + 1),
         "MIX_BYPASS" \in radio.switchctrl => "MIX_BYPASS" \in radio'.switchctrl,
         Kept(radio'.switchctrl),
         ~disturbed => Mended(radio', c, k + 1),
         ~disturbed /\ k + 1 \in 8 .. 18 => ctrl' = radio'.switchctrl,
         k + 1 = 4 => loaded' = radio'.switchctrl,
         transceiver_mode = "BTLE" /\ ~crossed => prior' = "RX"
  PROVE  IInv'
<1>1. TypeInv'
  BY MainTypeInv DEF IInv
<1>2. Bypassed' /\ Kept(radio.switchctrl)'
  BY SwitchesHeld
<1>3. k + 1 \in 1 .. 18 /\ k + 1 # 1
  OBVIOUS
<1>4. At(c, k + 1)'
  <2>1. (todo = Left(c, k + 1) \/ InCommit(c, k + 1))'
    OBVIOUS
  <2>2. ~disturbed' => wanted' = c /\ Mended(radio', c, k + 1)
    BY DEF At, ghosts
  <2>3. (~disturbed /\ k + 1 \in 8 .. 18 => ctrl = radio.switchctrl)'
    BY DEF ghosts
  <2>4. (k + 1 = 4 => Kept(loaded))'
    BY DEF ghosts, Kept
  <2>5. (transceiver_mode = "BTLE" /\ ~crossed => prior = "RX")'
    BY DEF ghosts
  <2>6. QED
    BY <1>3, <2>1, <2>2, <2>3, <2>4, <2>5 DEF At
<1>5. QED
  BY <1>1, <1>2, <1>3, <1>4 DEF IInv

LEMMA SaveStep == ASSUME IInv, MainSave PROVE IInv'
<1>1. Doing("save") /\ "save" \in PlainNames /\ Hopping
  BY DEF MainSave, Step, Doing, PlainNames
<1>2. PICK c \in Channels, k \in 1 .. 18 : At(c, k)
  BY <1>1, HopsSomewhere
<1>3. k = 1 /\ todo' = Left(c, k + 1)
  BY <1>1, <1>2, PlainStep DEF At, NamedAt, MainSave, Step
<1>4. radio' = radio /\ prior' = radio.mode /\ UNCHANGED <<transceiver_mode, armed, ghosts>>
  BY DEF MainSave, Step
<1>5. MainTypes
  BY <1>4, FieldTypes DEF MainTypes, MainSave, IInv, TypeInv
<1>6. Mended(radio', c, k + 1)
  BY <1>3 DEF Mended
<1>7. transceiver_mode = "BTLE" /\ ~crossed => prior' = "RX"
  BY <1>2, <1>3, <1>4 DEF At
<1>8. k \in 1 .. 17 /\ k + 1 = 2
  BY <1>3
<1>a. armed
  BY <1>1, HopsSomewhere
<1>9. QED
  BY <1>a, <1>2, <1>3, <1>4, <1>5, <1>6, <1>7, <1>8, Advance DEF IInv

LEMMA StandbyStep == ASSUME IInv, MainStandby PROVE IInv'
<1>1. Doing("standby") /\ "standby" \in PlainNames /\ Hopping
  BY DEF MainStandby, Step, Doing, PlainNames
<1>2. PICK c \in Channels, k \in 1 .. 18 : At(c, k)
  BY <1>1, HopsSomewhere
<1>3. k = 2 /\ todo' = Left(c, k + 1)
  BY <1>1, <1>2, PlainStep DEF At, NamedAt, MainStandby, Step
<1>4. UNCHANGED <<prior, loaded, ctrl, value, transceiver_mode, armed, ghosts>>
  BY DEF MainStandby, Step
<1>5. radio' \in Radio /\ radio'.switchctrl = radio.switchctrl
  BY ModeFields DEF MainStandby, IInv, TypeInv, Modes
<1>6. MainTypes
  BY <1>4, <1>5 DEF MainTypes, IInv, TypeInv
<1>7. Mended(radio', c, k + 1)
  BY <1>3 DEF Mended
<1>8. Kept(radio'.switchctrl)
  BY <1>5 DEF IInv, Kept
<1>9. transceiver_mode = "BTLE" /\ ~crossed => prior' = "RX"
  BY <1>2, <1>3, <1>4 DEF At
<1>10. k \in 1 .. 17 /\ k + 1 = 3
  BY <1>3
<1>a. armed
  BY <1>1, HopsSomewhere
<1>11. QED
  BY <1>a, <1>2, <1>3, <1>4, <1>5, <1>6, <1>7, <1>8, <1>9, <1>10, Advance

LEMMA LoadSwitchStep == ASSUME IInv, MainLoadSwitch PROVE IInv'
<1>1. Doing("load switchctrl") /\ "load switchctrl" \in PlainNames /\ Hopping
  BY DEF MainLoadSwitch, Step, Doing, PlainNames
<1>2. PICK c \in Channels, k \in 1 .. 18 : At(c, k)
  BY <1>1, HopsSomewhere
<1>3. k = 3 /\ todo' = Left(c, k + 1)
  BY <1>1, <1>2, PlainStep DEF At, NamedAt, MainLoadSwitch, Step
<1>4. /\ UNCHANGED <<radio, prior, ctrl, value, transceiver_mode, armed, ghosts>>
      /\ loaded' = radio.switchctrl
  BY DEF MainLoadSwitch, Step
<1>5. MainTypes
  BY <1>4, FieldTypes DEF MainTypes, IInv, TypeInv
<1>6. Mended(radio', c, k + 1)
  BY <1>3 DEF Mended
<1>7. transceiver_mode = "BTLE" /\ ~crossed => prior' = "RX"
  BY <1>2, <1>3, <1>4 DEF At
<1>8. k \in 1 .. 17 /\ k + 1 = 4
  BY <1>3
<1>a. armed
  BY <1>1, HopsSomewhere
<1>9. QED
  BY <1>a, <1>2, <1>3, <1>4, <1>5, <1>6, <1>7, <1>8, Advance DEF IInv

\* What was loaded is stored, be it stale: only a request in between makes it so.
LEMMA StoreSwitchStep == ASSUME IInv, MainStoreSwitch PROVE IInv'
<1>1. Doing("store switchctrl") /\ "store switchctrl" \in PlainNames /\ Hopping
  BY DEF MainStoreSwitch, Step, Doing, PlainNames
<1>2. PICK c \in Channels, k \in 1 .. 18 : At(c, k)
  BY <1>1, HopsSomewhere
<1>3. k = 4 /\ todo' = Left(c, k + 1)
  BY <1>1, <1>2, PlainStep DEF At, NamedAt, MainStoreSwitch, Step
<1>4. UNCHANGED <<prior, loaded, ctrl, value, transceiver_mode, armed, ghosts>>
  BY DEF MainStoreSwitch, Step
<1>. DEFINE c4 == loaded \cup {"MIX_BYPASS"}
<1>5. c4 \in Settings
  BY DEF IInv, TypeInv, Settings, Flags
<1>6. radio' \in Radio /\ radio'.switchctrl = c4
  <2>. HIDE DEF c4
  <2>1. radio' = [radio EXCEPT !.switchctrl = c4]
    BY DEF MainStoreSwitch, c4
  <2>2. QED
    BY <1>5, <2>1, SwitchFields DEF IInv, TypeInv
<1>7. MainTypes
  BY <1>4, <1>6 DEF MainTypes, IInv, TypeInv
<1>8. Mended(radio', c, k + 1)
  BY <1>3 DEF Mended
<1>9. Kept(radio'.switchctrl)
  BY <1>2, <1>3, <1>6 DEF IInv, Kept, At
<1>10. "MIX_BYPASS" \in radio'.switchctrl
  BY <1>6
<1>11. transceiver_mode = "BTLE" /\ ~crossed => prior' = "RX"
  BY <1>2, <1>3, <1>4 DEF At
<1>12. k \in 1 .. 17 /\ k + 1 = 5
  BY <1>3
<1>a. armed
  BY <1>1, HopsSomewhere
<1>13. QED
  BY <1>a, <1>2, <1>3, <1>4, <1>7, <1>8, <1>9, <1>10, <1>11, <1>12, Advance

LEMMA CallStep == ASSUME IInv, MainCall PROVE IInv'
<1>1. Doing("call") /\ "call" \in PlainNames /\ Hopping
  BY DEF MainCall, Step, Doing, PlainNames
<1>2. PICK c \in Channels, k \in 1 .. 18 : At(c, k)
  BY <1>1, HopsSomewhere
<1>3. k = 7 /\ todo' = Left(c, k + 1)
  BY <1>1, <1>2, PlainStep DEF At, NamedAt, MainCall, Step
<1>4. /\ UNCHANGED <<radio, prior, loaded, value, transceiver_mode, armed, ghosts>>
      /\ ctrl' = radio.switchctrl
  BY DEF MainCall, Step
<1>5. MainTypes
  BY <1>4, FieldTypes DEF MainTypes, IInv, TypeInv
<1>6. ~disturbed => Mended(radio', c, k + 1)
  BY <1>2, <1>3, <1>4 DEF Mended, At
<1>7. transceiver_mode = "BTLE" /\ ~crossed => prior' = "RX"
  BY <1>2, <1>3, <1>4 DEF At
<1>8. k \in 1 .. 17 /\ k + 1 = 8
  BY <1>3
<1>a. armed
  BY <1>1, HopsSomewhere
<1>9. QED
  BY <1>a, <1>2, <1>3, <1>4, <1>5, <1>6, <1>7, <1>8, Advance DEF IInv

\* Pins are driven from main's copy, which an undisturbed hop finds up to date.
LEMMA DriveStep == ASSUME IInv, MainDrive PROVE IInv'
<1>1. Doing("drive") /\ "drive" \in PlainNames /\ Hopping
  BY DEF MainDrive, Step, Doing, PlainNames
<1>2. PICK c \in Channels, k \in 1 .. 18 : At(c, k)
  BY <1>1, HopsSomewhere
<1>3. k \in {8, 9, 10} /\ todo' = Left(c, k + 1) /\ Head(todo) = Steps(c)[k]
  <2>1. todo = Left(c, k) \/ InCommit(c, k)
    BY <1>2 DEF At
  <2>2. Head(todo) = Steps(c)[k] /\ NamedAt("drive", k) /\ Tail(todo) = Left(c, k + 1)
    BY <1>1, <2>1, PlainStep
  <2>3. todo' = Tail(todo)
    BY DEF MainDrive, Step
  <2>4. QED
    BY <2>2, <2>3 DEF NamedAt
<1>4. UNCHANGED <<prior, loaded, ctrl, value, transceiver_mode, armed, ghosts>>
  BY DEF MainDrive, Step
<1>. DEFINE p == Head(todo)[2]
            g == [radio.gpio EXCEPT ![p] = Driven(p, ctrl)]
<1>5. /\ k = 8 => p = "tx"
      /\ k = 9 => p = "mix"
      /\ k = 10 => p = "amp"
  <2>1. /\ Steps(c)[8] = <<"drive", "tx">>
        /\ Steps(c)[9] = <<"drive", "mix">>
        /\ Steps(c)[10] = <<"drive", "amp">>
    BY StepIs
  <2>2. QED
    BY <1>3, <2>1
<1>6. radio \in Radio /\ radio.gpio \in PinStates
  BY FieldTypes DEF IInv, TypeInv
<1>7. p \in Groups
  BY <1>3, <1>5 DEF Groups
<1>8. radio' = [radio EXCEPT !.gpio = g]
  BY <1>6 DEF MainDrive, Radio
<1>. HIDE DEF p
<1>9. g \in PinStates /\ g[p] = Driven(p, ctrl) /\ \A q \in Groups \ {p} : g[q] = radio.gpio[q]
  BY <1>6, <1>7, DrivenType DEF PinStates
<1>. HIDE DEF g
<1>10. /\ radio' \in Radio /\ radio'.switchctrl = radio.switchctrl /\ radio'.gpio = g
       /\ radio'.regs = radio.regs /\ radio'.dirty = radio.dirty /\ radio'.chip = radio.chip
  BY <1>6, <1>8, <1>9, PinFields
<1>11. MainTypes
  BY <1>4, <1>10 DEF MainTypes, IInv, TypeInv
<1>12. ASSUME ~disturbed
       PROVE  Mended(radio', c, k + 1)
  <2>1. Mended(radio, c, k) /\ ctrl = radio.switchctrl
    BY <1>2, <1>3, <1>12 DEF At
  <2>2. CASE k = 8
    BY <1>5, <1>9, <1>10, <2>1, <2>2 DEF Mended, Sent
  <2>3. CASE k = 9
    BY <1>5, <1>9, <1>10, <2>1, <2>3 DEF Mended, Sent, Groups
  <2>4. CASE k = 10
    BY <1>5, <1>9, <1>10, <2>1, <2>4 DEF Mended, Sent, Groups
  <2>5. QED
    BY <1>3, <2>2, <2>3, <2>4
<1>13. Kept(radio'.switchctrl)
  BY <1>10 DEF IInv, Kept
<1>14. transceiver_mode = "BTLE" /\ ~crossed => prior' = "RX"
  BY <1>2, <1>3, <1>4 DEF At
<1>15. ~disturbed => ctrl' = radio'.switchctrl
  BY <1>2, <1>3, <1>4, <1>10 DEF At
<1>16. k \in 1 .. 17 /\ k + 1 # 4
  BY <1>3
<1>a. armed
  BY <1>1, HopsSomewhere
<1>17. QED
  BY <1>a, <1>2, <1>3, <1>4, <1>10, <1>11, <1>12, <1>13, <1>14, <1>15, <1>16, Advance

\* A shadow register of the hop is set, and everything before stays right.
SetAt(c, k, reg, v) ==
  \/ k = 5 /\ reg = "ENBL" /\ v = 0
  \/ k = 11 /\ reg = "GPO" /\ v = Gpo(ctrl)
  \/ k = 13 /\ reg = "INT" /\ v = Divider(c).INT
  \/ k = 14 /\ reg = "FRAC_HI" /\ v = Divider(c).FRAC_HI
  \/ k = 16 /\ reg = "FRAC_LO" /\ v = Divider(c).FRAC_LO

LEMMA SetStep == ASSUME IInv, MainSet PROVE IInv'
<1>1. Hopping /\ (Doing("set") \/ Doing("gpo")) /\ {"set", "gpo"} \subseteq PlainNames
  BY DEF MainSet, Step, Doing, PlainNames
<1>2. PICK c \in Channels, k \in 1 .. 18 : At(c, k)
  BY <1>1, HopsSomewhere
<1>3. /\ k \in {5, 11, 13, 14, 16} /\ (Doing("gpo") <=> k = 11)
      /\ Head(todo) = Steps(c)[k] /\ Tail(todo) = Left(c, k + 1)
  <2>1. CASE Doing("set")
    <3>1. NamedAt("set", k) /\ Head(todo) = Steps(c)[k] /\ Tail(todo) = Left(c, k + 1)
      BY <1>1, <1>2, <2>1, PlainStep DEF At
    <3>2. ~Doing("gpo")
      BY <2>1 DEF Doing
    <3>3. QED
      BY <3>1, <3>2 DEF NamedAt
  <2>2. CASE Doing("gpo")
    <3>1. NamedAt("gpo", k) /\ Head(todo) = Steps(c)[k] /\ Tail(todo) = Left(c, k + 1)
      BY <1>1, <1>2, <2>2, PlainStep DEF At
    <3>2. QED
      BY <2>2, <3>1 DEF NamedAt
  <2>3. QED
    BY <1>1, <2>1, <2>2
<1>4. UNCHANGED <<prior, loaded, ctrl, value, transceiver_mode, armed, ghosts>> /\ todo' = Left(c, k + 1)
  BY <1>3 DEF MainSet, Step
<1>5. \E reg, v : SetAt(c, k, reg, v) /\ radio' = Set(radio, reg, v)
  <2>1. /\ Steps(c)[5] = <<"set", "ENBL", 0>>
        /\ Steps(c)[13] = <<"set", "INT", Divider(c).INT>>
        /\ Steps(c)[14] = <<"set", "FRAC_HI", Divider(c).FRAC_HI>>
        /\ Steps(c)[16] = <<"set", "FRAC_LO", Divider(c).FRAC_LO>>
    BY StepIs
  <2>2. CASE k = 11
    <3>1. radio' = Set(radio, "GPO", Gpo(ctrl))
      BY <1>3, <2>2 DEF MainSet, Step, Doing
    <3>2. QED
      BY <2>2, <3>1 DEF SetAt
  <2>3. CASE k # 11
    <3>1. radio' = Set(radio, Head(todo)[2], Head(todo)[3])
      BY <1>3, <2>3 DEF MainSet, Step
    <3>2. SetAt(c, k, Head(todo)[2], Head(todo)[3])
      BY <1>3, <2>1, <2>3 DEF SetAt
    <3>3. QED
      BY <3>1, <3>2
  <2>4. QED
    BY <2>2, <2>3
<1>6. PICK reg, v : SetAt(c, k, reg, v) /\ radio' = Set(radio, reg, v)
  BY <1>5
<1>7. c \in 0 .. 39
  BY RadioAssumption
<1>8. reg \in Regs /\ v \in Values
  <2>1. Divider(c).INT \in Values /\ Divider(c).FRAC_HI \in Values /\ Divider(c).FRAC_LO \in Values
    BY <1>7, DividerType
  <2>2. 0 \in Values /\ Gpo(ctrl) \in Values
    BY GpoValue DEF Values
  <2>3. QED
    BY <1>6, <2>1, <2>2 DEF SetAt, Regs, MixerRegs, SynthRegs
<1>9. radio \in Radio /\ radio.regs \in Contents
  BY FieldTypes DEF IInv, TypeInv
<1>10. /\ radio' \in Radio /\ radio'.switchctrl = radio.switchctrl /\ radio'.gpio = radio.gpio
       /\ radio'.regs = [radio.regs EXCEPT ![reg] = v] /\ radio'.dirty = radio.dirty \cup {reg}
       /\ radio'.chip = radio.chip /\ radio'.vco = radio.vco
  BY <1>6, <1>8, <1>9, SetFields
<1>11. radio'.regs[reg] = v /\ \A q \in Regs \ {reg} : radio'.regs[q] = radio.regs[q]
  BY <1>8, <1>9, <1>10 DEF Contents
<1>12. MainTypes
  BY <1>4, <1>10 DEF MainTypes, IInv, TypeInv
<1>13. ASSUME ~disturbed
       PROVE  Mended(radio', c, k + 1)
  <2>1. Mended(radio, c, k) /\ (k = 11 => ctrl = radio.switchctrl)
    BY <1>2, <1>13 DEF At
  <2>2. CASE k = 5
    BY <1>6, <1>10, <1>11, <2>1, <2>2 DEF Mended, Sent, SetAt
  <2>3. CASE k = 11
    BY <1>6, <1>10, <1>11, <2>1, <2>3 DEF Mended, Sent, SetAt, Regs, MixerRegs
  <2>4. CASE k = 13
    BY <1>6, <1>10, <1>11, <2>1, <2>4 DEF Mended, Sent, SetAt, Regs, MixerRegs
  <2>5. CASE k = 14
    BY <1>6, <1>10, <1>11, <2>1, <2>5 DEF Mended, Sent, SetAt, Regs, MixerRegs, SynthRegs
  <2>6. CASE k = 16
    BY <1>6, <1>10, <1>11, <2>1, <2>6 DEF Mended, Sent, SetAt, Regs, MixerRegs, SynthRegs
  <2>7. QED
    BY <1>3, <2>2, <2>3, <2>4, <2>5, <2>6
<1>14. Kept(radio'.switchctrl)
  BY <1>10 DEF IInv, Kept
<1>15. transceiver_mode = "BTLE" /\ ~crossed => prior' = "RX"
  BY <1>2, <1>3, <1>4 DEF At
<1>16. ~disturbed /\ k + 1 \in 8 .. 18 => ctrl' = radio'.switchctrl
  BY <1>2, <1>3, <1>4, <1>10 DEF At
<1>17. k \in 1 .. 17 /\ k + 1 # 4
  BY <1>3
<1>a. armed
  BY <1>1, HopsSomewhere
<1>18. QED
  BY <1>2, <1>a, <1>4, <1>10, <1>12, <1>13, <1>14, <1>15, <1>16, <1>17, Advance

LEMMA RestoreStep == ASSUME IInv, MainRestore PROVE IInv'
<1>1. Doing("restore") /\ "restore" \in PlainNames /\ Hopping
  BY DEF MainRestore, Step, Doing, PlainNames
<1>2. PICK c \in Channels, k \in 1 .. 18 : At(c, k)
  BY <1>1, HopsSomewhere
<1>3. k = 18 /\ todo' = Left(c, k + 1)
  BY <1>1, <1>2, PlainStep DEF At, NamedAt, MainRestore, Step
<1>4. todo' = <<>>
  BY <1>3, LeftAll
<1>5. UNCHANGED <<transceiver_mode, armed, ghosts>>
  BY DEF MainRestore, Step
<1>6. /\ radio' \in Radio /\ radio'.mode = prior
      /\ radio'.switchctrl = radio.switchctrl /\ radio'.gpio = radio.gpio /\ radio'.regs = radio.regs
      /\ radio'.dirty = radio.dirty /\ radio'.chip = radio.chip /\ radio'.vco = radio.vco
  <2>1. radio' = [radio EXCEPT !.mode = prior]
    BY DEF MainRestore
  <2>2. QED
    BY <2>1, ModeFields DEF IInv, TypeInv
<1>7. MainTypes
  BY <1>6 DEF MainTypes, MainRestore, Modes, Settings, Values
<1>8. TypeInv'
  BY <1>5, <1>7, MainTypeInv DEF IInv
<1>9. Bypassed' /\ Kept(radio.switchctrl)'
  <2>1. Kept(radio'.switchctrl)
    BY <1>6 DEF IInv, Kept
  <2>2. QED
    BY <1>5, <1>6, <2>1, SwitchesHeld
<1>10. ~disturbed /\ wanted # -1 => Mended(radio', wanted, 18)
  <2>1. ~disturbed => wanted = c /\ Mended(radio, c, 18)
    BY <1>2, <1>3 DEF At
  <2>2. QED
    BY <1>6, <2>1 DEF Mended, Sent
<1>11. transceiver_mode = "BTLE" /\ ~crossed => radio'.mode = "RX"
  BY <1>2, <1>3, <1>6 DEF At
<1>12. Idle'
  BY <1>4, <1>5, <1>10, <1>11 DEF Idle, ghosts
<1>13. QED
  BY <1>8, <1>9, <1>12 DEF IInv

\* A step inside a commit leaves the hop where it is.
LEMMA Stay ==
  ASSUME IInv, UNCHANGED <<transceiver_mode, armed, ghosts, prior, loaded, ctrl>>, armed,
         radio' \in Radio, value' \in Values,
         NEW c \in Channels, NEW k \in 1 .. 18, At(c, k), k \in {6, 12, 15, 17},
         todo' = Left(c, k) \/ InCommit(c, k)',
         radio'.switchctrl = radio.switchctrl,
         ~disturbed => Mended(radio', c, k)
  PROVE  IInv'
<1>1. MainTypes
  BY DEF MainTypes, IInv, TypeInv
<1>2. TypeInv'
  BY <1>1, MainTypeInv DEF IInv
<1>3. Kept(radio'.switchctrl)
  BY DEF IInv, Kept
<1>4. Bypassed' /\ Kept(radio.switchctrl)'
  BY <1>3, SwitchesHeld
<1>5. k # 1 /\ k # 4
  OBVIOUS
<1>6. At(c, k)'
  <2>1. (todo = Left(c, k) \/ InCommit(c, k))'
    OBVIOUS
  <2>2. ~disturbed' => wanted' = c /\ Mended(radio', c, k)
    BY DEF At, ghosts
  <2>3. (~disturbed /\ k \in 8 .. 18 => ctrl = radio.switchctrl)'
    BY DEF ghosts, At
  <2>4. (transceiver_mode = "BTLE" /\ ~crossed => prior = "RX")'
    BY <1>5 DEF ghosts, At
  <2>5. QED
    BY <1>5, <2>1, <2>2, <2>3, <2>4 DEF At
<1>7. QED
  BY <1>2, <1>4, <1>6 DEF IInv

\* A register that is not dirty has nothing to be sent.
LEMMA NothingDirty ==
  ASSUME NEW r
  PROVE  /\ (\A i \in DOMAIN Mixer : Mixer[i] \notin r.dirty) => r.dirty \cap MixerRegs = {}
         /\ (\A i \in DOMAIN Synth : Synth[i] \notin r.dirty) => r.dirty \cap SynthRegs = {}
         /\ \A i \in DOMAIN Mixer : Mixer[i] \in Regs
         /\ \A i \in DOMAIN Synth : Synth[i] \in Regs
  BY Names DEF Range, Regs

LEMMA CommitStep == ASSUME IInv, MainCommit PROVE IInv'
<1>1. Doing("commit") /\ "commit" \in PlainNames /\ Hopping
  BY DEF MainCommit, Doing, PlainNames
<1>2. PICK c \in Channels, k \in 1 .. 18 : At(c, k)
  BY <1>1, HopsSomewhere
<1>3. k \in {6, 12, 15, 17} /\ todo = Left(c, k) /\ Tail(todo) = Left(c, k + 1) /\ Head(todo) = Steps(c)[k]
  <2>1. todo = Left(c, k) \/ InCommit(c, k)
    BY <1>2 DEF At
  <2>2. /\ todo = Left(c, k) /\ Head(todo) = Steps(c)[k] /\ NamedAt("commit", k)
        /\ Tail(todo) = Left(c, k + 1)
    BY <1>1, <2>1, PlainStep
  <2>3. QED
    BY <2>2 DEF NamedAt
<1>4. UNCHANGED <<transceiver_mode, radio, prior, loaded, ctrl, armed, ghosts>>
  BY DEF MainCommit
<1>. DEFINE bus == Head(todo)[2]
<1>5. (k \in {6, 12} => bus = Mixer) /\ (k \in {15, 17} => bus = Synth)
  <2>1. /\ Steps(c)[6] = <<"commit", Mixer>> /\ Steps(c)[12] = <<"commit", Mixer>>
        /\ Steps(c)[15] = <<"commit", Synth>> /\ Steps(c)[17] = <<"commit", Synth>>
    BY StepIs
  <2>2. QED
    BY <1>3, <2>1
<1>6. radio \in Radio /\ radio.regs \in Contents
  BY FieldTypes DEF IInv, TypeInv
<1>a. armed
  BY <1>1, HopsSomewhere
<1>7. CASE (\A i \in DOMAIN bus : bus[i] \notin radio.dirty) /\ todo' = Tail(todo) /\ UNCHANGED value
  <2>1. MainTypes
    BY <1>4, <1>7 DEF MainTypes, IInv, TypeInv
  <2>2. (k \in {6, 12} => radio.dirty \cap MixerRegs = {}) /\ (k \in {15, 17} => radio.dirty \cap SynthRegs = {})
    BY <1>5, <1>7, NothingDirty
  <2>3. ASSUME ~disturbed
        PROVE  Mended(radio', c, k + 1)
    <3>1. Mended(radio, c, k)
      BY <1>2, <2>3 DEF At
    <3>2. CASE k = 6
      BY <1>4, <2>2, <3>1, <3>2 DEF Mended, Sent, MixerRegs
    <3>3. CASE k = 12
      BY <1>4, <2>2, <3>1, <3>3 DEF Mended, Sent, MixerRegs
    <3>4. CASE k = 15
      BY <1>4, <2>2, <3>1, <3>4 DEF Mended, Sent, SynthRegs
    <3>5. CASE k = 17
      BY <1>4, <2>2, <3>1, <3>5 DEF Mended, Sent, SynthRegs
    <3>6. QED
      BY <1>3, <3>2, <3>3, <3>4, <3>5
  <2>4. ~disturbed /\ k + 1 \in 8 .. 18 => ctrl' = radio'.switchctrl
    <3>1. k + 1 \in 8 .. 18 => k \in 8 .. 18
      BY <1>3
    <3>2. QED
      BY <1>2, <1>4, <3>1 DEF At
  <2>5. k \in 1 .. 17 /\ k + 1 # 4 /\ k # 1
    BY <1>3
  <2>6. transceiver_mode = "BTLE" /\ ~crossed => prior' = "RX"
    BY <1>2, <1>4, <2>5 DEF At
  <2>7. Kept(radio'.switchctrl)
    BY <1>4 DEF IInv
  <2>8. todo' = Left(c, k + 1)
    BY <1>3, <1>7
  <2>9. QED
    BY <1>2, <1>4, <1>a, <2>1, <2>3, <2>4, <2>5, <2>6, <2>7, <2>8, Advance
<1>8. ASSUME NEW i \in DOMAIN bus, value' = radio.regs[bus[i]],
             todo' = << <<"begin", bus[i]>>, <<"end", bus[i]>> >> \o todo
      PROVE  IInv'
  <2>1. bus[i] \in Regs
    BY <1>3, <1>5, <1>8, NothingDirty
  <2>2. value' \in Values
    BY <1>6, <1>8, <2>1 DEF Contents
  <2>. DEFINE reg == bus[i]
              begun == << <<"begin", reg>>, <<"end", reg>> >>
  <2>3. begun \in Sending(reg) /\ begun[1][1] = "begin"
    BY DEF Sending
  <2>4. value' = radio'.regs[reg] /\ todo' = begun \o Left(c, k)
    BY <1>3, <1>4, <1>8
  <2>. HIDE DEF begun, reg
  <2>5. InCommit(c, k)'
    BY <1>3, <2>1, <2>3, <2>4 DEF InCommit, reg
  <2>6. ~disturbed => Mended(radio', c, k)
    BY <1>2, <1>4 DEF At
  <2>7. QED
    BY <1>2, <1>3, <1>4, <1>6, <1>a, <2>2, <2>5, <2>6, Stay
<1>9. QED
  BY <1>7, <1>8 DEF MainCommit

LEMMA CommitPlace ==
  ASSUME NEW c, NEW k \in 1 .. 18, todo = Left(c, k) \/ InCommit(c, k),
         NEW name \in {"begin", "end", "lost"}, Doing(name)
  PROVE  /\ k \in {6, 12, 15, 17}
         /\ Head(todo)[2] \in Regs
         /\ ~disturbed => name # "lost" /\ value = radio.regs[Head(todo)[2]]
         /\ name = "begin" => Tail(todo) = << <<"end", Head(todo)[2]>> >> \o Left(c, k)
         /\ name # "begin" => Tail(todo) = Left(c, k)
<1>1. todo # Left(c, k)
  <2>1. SUFFICES ASSUME todo = Left(c, k)
                 PROVE  FALSE
    OBVIOUS
  <2>2. Head(todo) = Steps(c)[k]
    BY <2>1, LeftStep
  <2>3. NamedAt(Steps(c)[k][1], k)
    BY StepNames
  <2>4. name \in PlainNames
    BY <2>2, <2>3 DEF NamedAt, Doing
  <2>5. QED
    BY <2>4 DEF PlainNames
<1>a. PICK reg \in Regs :
        \E begun \in Sending(reg) :
          /\ todo = begun \o Left(c, k)
          /\ ~disturbed => begun[1][1] # "lost" /\ value = radio.regs[reg]
  BY <1>1 DEF InCommit
<1>2. PICK begun \in Sending(reg) :
        /\ todo = begun \o Left(c, k)
        /\ ~disturbed => begun[1][1] # "lost" /\ value = radio.regs[reg]
  BY <1>a
<1>3. k \in {6, 12, 15, 17}
  BY <1>1 DEF InCommit
<1>4. /\ Head(todo) = begun[1] /\ begun[1][2] = reg
      /\ begun[1][1] = "begin" => Tail(todo) = << <<"end", reg>> >> \o Left(c, k)
      /\ begun[1][1] # "begin" => Tail(todo) = Left(c, k)
  <2>1. begun \in Sending(reg) /\ todo = begun \o Left(c, k)
    BY <1>2
  <2>2. Ahead(c, k, reg, begun)
    BY <2>1, SendingStep
  <2>3. QED
    BY <2>2 DEF Ahead
<1>5. begun[1][1] = name
  BY <1>4 DEF Doing
<1>6. QED
  BY <1>2, <1>3, <1>4, <1>5

LEMMA BeginStep == ASSUME IInv, MainBegin PROVE IInv'
<1>1. Doing("begin") /\ Hopping
  BY DEF MainBegin, Step, Doing
<1>2. PICK c \in Channels, k \in 1 .. 18 : At(c, k)
  BY <1>1, HopsSomewhere
<1>a. armed
  BY <1>1, HopsSomewhere
<1>. DEFINE reg == Head(todo)[2]
            regs == [radio.regs EXCEPT ![reg] = value]
<1>3. /\ k \in {6, 12, 15, 17} /\ reg \in Regs
      /\ ~disturbed => value = radio.regs[reg]
      /\ todo' = << <<"end", reg>> >> \o Left(c, k)
  BY <1>1, <1>2, CommitPlace DEF At, MainBegin, Step
<1>4. UNCHANGED <<transceiver_mode, armed, ghosts, prior, loaded, ctrl, value>>
  BY DEF MainBegin, Step
<1>5. radio \in Radio /\ radio.regs \in Contents /\ value \in Values
  BY FieldTypes DEF IInv, TypeInv
<1>6. radio' = [radio EXCEPT !.regs = regs]
  BY <1>5 DEF MainBegin, Radio
<1>7. regs \in Contents /\ regs[reg] = value /\ (~disturbed => regs = radio.regs)
  BY <1>3, <1>5 DEF Contents
<1>. HIDE DEF reg, regs
<1>8. /\ radio' \in Radio /\ radio'.switchctrl = radio.switchctrl /\ radio'.regs = regs
      /\ radio'.gpio = radio.gpio /\ radio'.dirty = radio.dirty /\ radio'.chip = radio.chip
      /\ radio'.vco = radio.vco
  BY <1>5, <1>6, <1>7 DEF Radio
<1>9. ASSUME ~disturbed
      PROVE  Mended(radio', c, k)
  BY <1>2, <1>7, <1>8, <1>9 DEF Mended, Sent, At
<1>10. InCommit(c, k)'
  <2>. DEFINE begun == << <<"end", reg>> >>
  <2>1. begun \in Sending(reg) /\ begun[1][1] = "end"
    BY DEF Sending
  <2>2. value' = radio'.regs[reg] /\ todo' = begun \o Left(c, k)
    BY <1>3, <1>4, <1>7, <1>8
  <2>. HIDE DEF begun
  <2>3. QED
    BY <1>3, <2>1, <2>2 DEF InCommit
<1>11. value' \in Values
  BY <1>4, <1>5
<1>12. QED
  BY <1>2, <1>3, <1>4, <1>8, <1>9, <1>10, <1>11, <1>a, Stay

LEMMA EndStep == ASSUME IInv, MainEnd PROVE IInv'
<1>1. PICK name \in {"end", "lost"} :
        /\ Step(name)
        /\ name = "end" => radio' = Written(radio, Head(todo)[2], value)
        /\ name = "lost" => radio' = [radio EXCEPT !.dirty = @ \ {Head(todo)[2]}]
  BY DEF MainEnd, Written
<1>2. Doing(name) /\ Hopping
  BY <1>1 DEF Step, Doing
<1>3. PICK c \in Channels, k \in 1 .. 18 : At(c, k)
  BY <1>2, HopsSomewhere
<1>a. armed
  BY <1>2, HopsSomewhere
<1>. DEFINE reg == Head(todo)[2]
<1>4. /\ k \in {6, 12, 15, 17} /\ reg \in Regs
      /\ ~disturbed => name = "end" /\ value = radio.regs[reg]
      /\ todo' = Left(c, k)
  BY <1>1, <1>2, <1>3, CommitPlace DEF At, Step
<1>5. UNCHANGED <<transceiver_mode, armed, ghosts, prior, loaded, ctrl, value>>
  BY <1>1 DEF MainEnd, Step
<1>6. radio \in Radio /\ radio.dirty \in DirtySets /\ value \in Values /\ radio.chip \in Contents
  BY FieldTypes DEF IInv, TypeInv
<1>. DEFINE dirty == radio.dirty \ {reg}
<1>7. name = "end" => radio' = Written(radio, reg, value)
  BY <1>1
<1>8. name = "lost" => radio' = [radio EXCEPT !.dirty = dirty]
  BY <1>1, <1>6 DEF Radio
<1>9. dirty \in DirtySets
  BY <1>6 DEF DirtySets
<1>. HIDE DEF reg
<1>10. CASE name = "end"
  <2>1. /\ radio' \in Radio
        /\ radio'.switchctrl = radio.switchctrl /\ radio'.gpio = radio.gpio /\ radio'.regs = radio.regs
        /\ radio'.dirty = radio.dirty \ {reg} /\ radio'.chip = [radio.chip EXCEPT ![reg] = value]
        /\ reg # "FRAC_LO" => radio'.vco = radio.vco
        /\ reg = "FRAC_LO" => \A q \in SynthRegs : radio'.vco[q] = radio'.chip[q]
    BY <1>4, <1>6, <1>7, <1>10, WriteFields
  <2>2. radio'.chip[reg] = value /\ \A q \in Regs \ {reg} : radio'.chip[q] = radio.chip[q]
    BY <1>4, <1>6, <2>1 DEF Contents
  <2>3. ASSUME ~disturbed
        PROVE  Mended(radio', c, k)
    <3>1. Mended(radio, c, k) /\ value = radio.regs[reg]
      BY <1>3, <1>4, <2>3 DEF At
    <3>2. \A q \in Regs : Sent(radio, q) => Sent(radio', q)
      BY <2>1, <2>2, <3>1 DEF Sent
    <3>3. k > 16 => "FRAC_LO" \in radio'.dirty \/ \A q \in SynthRegs : radio'.vco[q] = radio'.regs[q]
      <4>1. CASE reg = "FRAC_LO" /\ k > 16
        <5>1. \A q \in Regs : q \notin radio'.dirty /\ Sent(radio', q) => radio'.chip[q] = radio'.regs[q]
          BY DEF Sent
        <5>2. radio'.dirty \cap SynthRegs = {}
          BY <2>1, <3>1, <4>1 DEF Mended, SynthRegs
        <5>3. \A q \in SynthRegs : Sent(radio', q)
          BY <3>1, <3>2, <4>1 DEF Mended, SynthRegs, Regs
        <5>4. QED
          BY <2>1, <4>1, <5>1, <5>2, <5>3 DEF Regs
      <4>2. CASE reg # "FRAC_LO"
        BY <2>1, <3>1, <4>2 DEF Mended
      <4>3. QED
        BY <4>1, <4>2
    <3>4. /\ "ENBL" \in Regs /\ "GPO" \in Regs /\ "INT" \in Regs
          /\ "FRAC_HI" \in Regs /\ "FRAC_LO" \in Regs
      BY DEF Regs, SynthRegs, MixerRegs
    <3>5. QED
      BY <2>1, <3>1, <3>2, <3>3, <3>4 DEF Mended
  <2>4. QED
    BY <1>3, <1>4, <1>5, <1>6, <1>a, <2>1, <2>3, Stay
<1>11. CASE name = "lost"
  <2>. HIDE DEF dirty
  <2>1. radio' \in Radio /\ radio'.switchctrl = radio.switchctrl
    BY <1>6, <1>8, <1>9, <1>11 DEF Radio
  <2>2. ~disturbed => Mended(radio', c, k)
    BY <1>4, <1>11
  <2>3. QED
    BY <1>3, <1>4, <1>5, <1>6, <1>a, <2>1, <2>2, Stay
<1>12. QED
  BY <1>10, <1>11

LEMMA IdleOrHopping ==
  ASSUME IInv
  PROVE  Idle <=> ~Hopping
<1>1. ASSUME todo = <<>>, NEW c \in Channels, NEW k \in 1 .. 18, At(c, k)
      PROVE  FALSE
  <2>1. CASE todo = Left(c, k)
    BY <1>1, <2>1, LeftStep
  <2>2. CASE InCommit(c, k)
    <3>1. PICK reg \in Regs : \E begun \in Sending(reg) : todo = begun \o Left(c, k)
      BY <2>2 DEF InCommit
    <3>2. QED
      BY <1>1, <3>1, SendingStep DEF Ahead
  <2>3. QED
    BY <1>1, <2>1, <2>2 DEF At
<1>2. QED
  BY <1>1 DEF IInv, Idle, Hopping

LEMMA LoopStep == ASSUME IInv, MainLoop PROVE IInv'
<1>1. UNCHANGED <<transceiver_mode, radio, todo, prior, loaded, ctrl, value, ghosts>>
  BY DEF MainLoop, MainIdle, ghosts
<1>2. armed' = (transceiver_mode = "BTLE") /\ armed' \in BOOLEAN
  BY DEF MainLoop
<1>3. Idle
  BY IdleOrHopping DEF MainLoop, MainIdle
<1>4. TypeInv'
  BY <1>1, <1>2 DEF IInv, TypeInv, ghosts
<1>5. Bypassed' /\ Kept(radio.switchctrl)'
  BY <1>1, <1>2 DEF IInv, Bypassed, Kept, ghosts
<1>6. Idle'
  BY <1>1, <1>3 DEF Idle, ghosts
<1>7. QED
  BY <1>4, <1>5, <1>6 DEF IInv

LEMMA HopStep == ASSUME IInv, MainHop PROVE IInv'
<1>1. PICK c \in Channels : todo' = Steps(c) /\ wanted' = c /\ disturbed' = FALSE
  BY DEF MainHop
<1>2. UNCHANGED <<transceiver_mode, armed, radio, prior, loaded, ctrl, value, requests, crossed,
                  asked, fate>>
  BY DEF MainHop, MainIdle
<1>a. armed /\ Idle
  BY IdleOrHopping DEF MainHop, MainIdle
<1>3. TypeInv'
  <2>1. TypeInv
    BY DEF IInv
  <2>2. wanted' \in Channels \cup {37, -1} /\ disturbed' \in BOOLEAN
    BY <1>1
  <2>3. QED
    BY <1>2, <2>1, <2>2 DEF TypeInv
<1>4. Bypassed'
  <2>1. c # -1
    BY RadioAssumption
  <2>2. "MIX_BYPASS" \in radio.switchctrl
    BY <1>a DEF IInv, Bypassed
  <2>3. QED
    BY <1>1, <1>2, <2>1, <2>2 DEF Bypassed
<1>5. Kept(radio.switchctrl)'
  BY <1>2 DEF IInv, Kept
<1>6. At(c, 1)'
  <2>1. todo' = Left(c, 1)
    BY <1>1, LeftAll
  <2>2. Mended(radio', c, 1)
    BY DEF Mended
  <2>3. transceiver_mode' = "BTLE" /\ ~crossed' => radio'.mode = "RX"
    BY <1>2, <1>a DEF Idle
  <2>4. QED
    BY <1>1, <2>1, <2>2, <2>3 DEF At
<1>7. 1 \in 1 .. 18 /\ armed'
  BY <1>2, <1>a
<1>8. QED
  BY <1>3, <1>4, <1>5, <1>6, <1>7 DEF IInv
-----------------------------------------------------------------------------
(* Requests: between hops, or in the midst of one, which is disturbed then. *)

LEMMA CountUp ==
  ASSUME NEW n \in Nat, NEW i \in 0 .. n, i < n
  PROVE  i + 1 \in 0 .. n
  OBVIOUS

LEMMA StoreIsNoCommit == 4 \notin {6, 12, 15, 17}
  OBVIOUS

\* What a request may do wherever it comes.
LEMMA Interrupt ==
  ASSUME IInv, NEW kind, Request(kind),
         radio' \in Radio, transceiver_mode' \in {"OFF", "BTLE"}, crossed' \in BOOLEAN,
         wanted' \in Channels \cup {37, -1},
         asked' \in Asked /\ fate' \in Outcomes,
         Bypassed', Kept(radio.switchctrl)',
         Doing("store switchctrl") /\ Kept(loaded) => Kept(loaded)',
         Idle /\ ~disturbed /\ wanted' # -1 => Mended(radio', wanted', 18),
         transceiver_mode' = "BTLE" /\ ~crossed' =>
           \/ ~HoppingOff /\ radio'.mode = "RX"
           \/ transceiver_mode = "BTLE" /\ ~crossed /\ radio'.mode = radio.mode
  PROVE  IInv'
<1>1. /\ UNCHANGED <<prior, loaded, ctrl, value, armed>>
      /\ requests' = requests + 1 /\ requests < MaxRequests
      /\ disturbed' = (disturbed \/ Hopping)
  BY DEF Request
<1>2. disturbed' \in BOOLEAN
  BY <1>1 DEF IInv, TypeInv, Hopping, Doing
<1>b. requests' = requests + 1 /\ requests < MaxRequests
  BY DEF Request
<1>3. requests' \in 0 .. MaxRequests
  <2>1. requests \in 0 .. MaxRequests
    BY DEF IInv, TypeInv
  <2>2. MaxRequests \in Nat
    BY RadioAssumption
  <2>3. QED
    BY <1>b, <2>1, <2>2, CountUp
<1>4. TypeInv'
  <2>1. (transceiver_mode \in {"OFF", "BTLE"} /\ radio \in Radio)'
    OBVIOUS
  <2>2. (prior \in Modes /\ value \in Values /\ loaded \in Settings /\ ctrl \in Settings /\ armed \in BOOLEAN)'
    BY <1>1 DEF IInv, TypeInv
  <2>3. QED
    BY <1>2, <1>3, <2>1, <2>2 DEF TypeInv
<1>5. Kept(radio.switchctrl)'
  BY <1>1
<1>6. CASE Idle
  <2>1. ~Hopping /\ todo = <<>>
    BY <1>6, IdleOrHopping DEF Idle
  <2>2. todo' = <<>>
    BY <2>1 DEF Request, Doing
  <2>3. disturbed' = disturbed
    BY <1>1, <1>2, <2>1 DEF IInv, TypeInv
  <2>4. ~disturbed' /\ wanted' # -1 => Mended(radio', wanted', 18)
    BY <1>6, <2>3
  <2>5. transceiver_mode' = "BTLE" /\ ~crossed' => radio'.mode = "RX"
    BY <1>6 DEF Idle
  <2>6. Idle'
    BY <2>2, <2>4, <2>5 DEF Idle
  <2>7. QED
    BY <1>4, <1>5, <2>6 DEF IInv
<1>7. CASE ~Idle
  <2>1. armed /\ Hopping
    BY <1>7, IdleOrHopping, HopsSomewhere
  <2>2. PICK c \in Channels, k \in 1 .. 18 : At(c, k)
    BY <2>1, HopsSomewhere
  <2>3. disturbed'
    BY <1>1, <2>1
  <2>4. todo' = Left(c, k) \/ InCommit(c, k)'
    <3>1. CASE todo' = todo
      BY <2>2, <2>3, <3>1 DEF At, InCommit
    <3>2. CASE Doing("end") /\ todo' = << <<"lost", Head(todo)[2]>> >> \o Tail(todo)
      <4>1. k \in {6, 12, 15, 17} /\ Head(todo)[2] \in Regs /\ Tail(todo) = Left(c, k)
        BY <2>2, <3>2, CommitPlace DEF At
      <4>2. << <<"lost", Head(todo)[2]>> >> \in Sending(Head(todo)[2])
        BY DEF Sending
      <4>3. QED
        BY <2>3, <3>2, <4>1, <4>2 DEF InCommit
    <3>3. QED
      BY <3>1, <3>2 DEF Request
  <2>5. k = 4 => Kept(loaded)'
    <3>1. SUFFICES ASSUME k = 4
                   PROVE  Kept(loaded)'
      OBVIOUS
    <3>2. todo = Left(c, k)
      <4>1. k \notin {6, 12, 15, 17}
        BY <3>1, StoreIsNoCommit
      <4>2. ~InCommit(c, k)
        BY <4>1 DEF InCommit
      <4>3. QED
        BY <2>2, <4>2 DEF At
    <3>3. Head(todo) = Steps(c)[k]
      BY <3>2, LeftStep
    <3>a. Steps(c)[4][1] = "store switchctrl"
      BY NameIs
    <3>4. Doing("store switchctrl")
      BY <2>1, <3>1, <3>3, <3>a DEF Doing
    <3>5. Kept(loaded)
      BY <2>2, <3>1 DEF At
    <3>6. QED
      BY <3>4, <3>5
  <2>b. k # 1 => ~Doing("save")
    <3>1. SUFFICES ASSUME Doing("save")
                   PROVE  k = 1
      OBVIOUS
    <3>2. "save" \in PlainNames /\ (todo = Left(c, k) \/ InCommit(c, k))
      BY <2>2 DEF PlainNames, At
    <3>3. QED
      BY <3>1, <3>2, PlainStep DEF NamedAt
  <2>c. ~HoppingOff /\ k # 1 => prior = "RX"
    BY <2>1, <2>b DEF HoppingOff, IInv, TypeInv, Modes
  <2>6. transceiver_mode' = "BTLE" /\ ~crossed' =>
          IF k = 1 THEN radio'.mode = "RX" ELSE prior' = "RX"
    BY <1>1, <2>2, <2>c DEF At
  <2>7. At(c, k)'
    BY <2>3, <2>4, <2>5, <2>6 DEF At
  <2>8. QED
    BY <1>1, <1>4, <1>5, <2>1, <2>7 DEF IInv
<1>8. QED
  BY <1>6, <1>7

LEMMA StartStep == ASSUME IInv, UsbStart PROVE IInv'
<1>1. PICK tune_first \in BOOLEAN :
        /\ radio' = IF tune_first THEN DirectionRx(SetFreq(radio, 37)) ELSE SetFreq(DirectionRx(radio), 37)
        /\ Request("start") /\ transceiver_mode' = "BTLE" /\ crossed' = HoppingOff
        /\ wanted' = 37 /\ asked' = asked /\ fate' = fate
  BY DEF UsbStart
<1>2. radio \in Radio /\ crossed \in BOOLEAN /\ armed \in BOOLEAN /\ 37 \in 0 .. 39
      /\ asked \in Asked /\ fate \in Outcomes
  BY DEF IInv, TypeInv
<1>3. /\ radio' \in Radio /\ radio'.mode = "RX" /\ "MIX_BYPASS" \in radio'.switchctrl
      /\ MixerRight(radio') /\ SynthRight(radio', 37)
      /\ "ANT_PWR" \in radio'.switchctrl <=> "ANT_PWR" \in radio.switchctrl
      /\ "AMP_BYPASS" \in radio'.switchctrl <=> "AMP_BYPASS" \in radio.switchctrl
      /\ "AMP_BYPASS" \notin radio.switchctrl => "NO_RX_AMP_PWR" \notin radio'.switchctrl
  <2>1. CASE tune_first
    <3>. DEFINE u == SetFreq(radio, 37)
                t == DirectionRx(u)
    <3>1. /\ u \in Radio /\ u.switchctrl = radio.switchctrl \cup {"MIX_BYPASS"}
          /\ MixerRight(u) /\ SynthRight(u, 37)
      BY <1>2, SetFreqResult
    <3>2. radio' = t /\ u \in Radio
      BY <1>1, <2>1, <3>1
    <3>. HIDE DEF u
    <3>3. /\ t \in Radio /\ t.mode = "RX"
          /\ t.switchctrl = IF "AMP_BYPASS" \in u.switchctrl
                              THEN u.switchctrl \cup {"NO_TX_AMP_PWR", "NO_RX_AMP_PWR"}
                              ELSE (u.switchctrl \cup {"NO_TX_AMP_PWR", "NO_RX_AMP_PWR"}) \ {"NO_RX_AMP_PWR"}
          /\ "MIX_BYPASS" \in u.switchctrl => MixerRight(t)
          /\ \A ch : SynthRight(u, ch) => SynthRight(t, ch)
      BY <3>2, DirectionRxResult
    <3>. HIDE DEF t
    <3>4. QED
      BY <3>1, <3>2, <3>3
  <2>2. CASE ~tune_first
    <3>. DEFINE u == DirectionRx(radio)
                t == SetFreq(u, 37)
    <3>1. /\ u \in Radio /\ u.mode = "RX"
          /\ u.switchctrl = IF "AMP_BYPASS" \in radio.switchctrl
                              THEN radio.switchctrl \cup {"NO_TX_AMP_PWR", "NO_RX_AMP_PWR"}
                              ELSE (radio.switchctrl \cup {"NO_TX_AMP_PWR", "NO_RX_AMP_PWR"}) \ {"NO_RX_AMP_PWR"}
      BY <1>2, DirectionRxResult
    <3>2. radio' = t /\ u \in Radio
      BY <1>1, <2>2, <3>1
    <3>. HIDE DEF u
    <3>3. /\ t \in Radio /\ t.mode = u.mode /\ t.switchctrl = u.switchctrl \cup {"MIX_BYPASS"}
          /\ MixerRight(t) /\ SynthRight(t, 37)
      BY <1>2, <3>2, SetFreqResult
    <3>. HIDE DEF t
    <3>4. QED
      BY <3>1, <3>2, <3>3
  <2>3. QED
    BY <2>1, <2>2
<1>4. Bypassed'
  BY <1>1, <1>3 DEF Bypassed
<1>5. Kept(radio.switchctrl)'
  BY <1>1, <1>3 DEF IInv, Kept
<1>6. Mended(radio', 37, 18)
  BY <1>3, MendedAll
<1>7. ~crossed' => ~HoppingOff
  BY <1>1
<1>a. crossed' \in BOOLEAN
  BY <1>1 DEF HoppingOff
<1>b. Kept(loaded) => Kept(loaded)'
  BY <1>1 DEF Kept, Request
<1>8. transceiver_mode' \in {"OFF", "BTLE"} /\ wanted' \in Channels \cup {37, -1}
      /\ asked' \in Asked /\ fate' \in Outcomes
  BY <1>1, <1>2
<1>9. QED
  BY <1>1, <1>3, <1>4, <1>5, <1>6, <1>7, <1>8, <1>a, <1>b, Interrupt

LEMMA OffStep == ASSUME IInv, UsbOff PROVE IInv'
<1>1. /\ Request("off") /\ transceiver_mode' = "OFF" /\ radio' = DirectionOff(radio)
      /\ fate' = [antenna |-> FateOf("stopped"), amp |-> FateOf("stopped")]
      /\ UNCHANGED <<wanted, crossed, asked>>
  BY DEF UsbOff
<1>2. /\ radio \in Radio /\ crossed \in BOOLEAN /\ wanted \in Channels \cup {37, -1}
  BY DEF IInv, TypeInv
<1>3. /\ radio' \in Radio /\ radio'.mode = "STANDBY"
      /\ radio'.switchctrl = (radio.switchctrl \ {"ANT_PWR"}) \cup LNA_OFF
      /\ MixerRight(radio')
      /\ \A ch : SynthRight(radio, ch) => SynthRight(radio', ch)
  BY <1>1, <1>2, DirectionOffResult
<1>4. /\ asked' \in Asked /\ fate' \in Outcomes
      /\ {fate'.antenna, fate'.amp} \subseteq {"stopped", "torn"}
      /\ Doing("store switchctrl") => fate'.antenna = "torn" /\ fate'.amp = "torn"
  BY <1>1 DEF IInv, TypeInv, FateOf, Fates, Outcomes
<1>b. Doing("store switchctrl") /\ Kept(loaded) => Kept(loaded)'
  BY <1>4 DEF Kept
<1>5. "ANT_PWR" \notin radio'.switchctrl /\ "AMP_BYPASS" \in radio'.switchctrl
  BY <1>3 DEF LNA_OFF
<1>6. Bypassed'
  BY <1>1, <1>3 DEF IInv, Bypassed, Request
<1>7. Kept(radio.switchctrl)'
  BY <1>4, <1>5 DEF Kept
<1>8. Idle /\ ~disturbed /\ wanted' # -1 => Mended(radio', wanted', 18)
  BY <1>1, <1>3, MendedAll DEF Idle
<1>9. QED
  BY <1>1, <1>2, <1>3, <1>4, <1>6, <1>7, <1>8, <1>b, Interrupt

LEMMA ChannelStep == ASSUME IInv, UsbChannel PROVE IInv'
<1>1. PICK c \in Channels :
        /\ Request("channel") /\ radio' = SetFreq(radio, c) /\ wanted' = c
        /\ UNCHANGED <<transceiver_mode, crossed, asked, fate>>
  BY DEF UsbChannel
<1>2. c \in 0 .. 39 /\ c # -1
  BY RadioAssumption
<1>3. /\ radio \in Radio /\ crossed \in BOOLEAN /\ transceiver_mode \in {"OFF", "BTLE"}
      /\ asked \in Asked /\ fate \in Outcomes
  BY DEF IInv, TypeInv
<1>4. /\ radio' \in Radio /\ radio'.mode = radio.mode
      /\ radio'.switchctrl = radio.switchctrl \cup {"MIX_BYPASS"}
      /\ MixerRight(radio') /\ SynthRight(radio', c)
  BY <1>1, <1>2, <1>3, SetFreqResult
<1>5. Bypassed'
  BY <1>1, <1>2, <1>4 DEF Bypassed
<1>6. Kept(radio.switchctrl)'
  BY <1>1, <1>4 DEF IInv, Kept
<1>7. Mended(radio', wanted', 18)
  BY <1>1, <1>4, MendedAll
<1>8. wanted' \in Channels \cup {37, -1}
  BY <1>1
<1>b. Kept(loaded) => Kept(loaded)'
  BY <1>1 DEF Kept, Request
<1>9. QED
  BY <1>1, <1>3, <1>4, <1>5, <1>6, <1>7, <1>8, <1>b, Interrupt

\* A request that changes a switch and neither session nor channel.
LEMMA SteadyRequest ==
  ASSUME IInv, NEW kind, Request(kind), UNCHANGED <<transceiver_mode, wanted, crossed>>,
         Steady(radio', radio), "MIX_BYPASS" \in radio.switchctrl => "MIX_BYPASS" \in radio'.switchctrl,
         asked' \in Asked /\ fate' \in Outcomes,
         Kept(radio.switchctrl)', Doing("store switchctrl") /\ Kept(loaded) => Kept(loaded)'
  PROVE  IInv'
<1>1. Bypassed'
  BY DEF IInv, Bypassed, Request
<1>2. Idle /\ ~disturbed /\ wanted' # -1 => Mended(radio', wanted', 18)
  BY MendedAll, SameSynthRight DEF Idle, Steady
<1>3. QED
  BY <1>1, <1>2, Interrupt DEF Steady, IInv, TypeInv

LEMMA AntennaStep == ASSUME IInv, UsbAntenna PROVE IInv'
<1>1. PICK enable \in BOOLEAN :
        /\ Request("antenna") /\ radio' = SetAntenna(radio, enable)
        /\ asked' = [asked EXCEPT !.antenna = enable]
        /\ fate' = [fate EXCEPT !.antenna = FateOf("kept")]
        /\ UNCHANGED <<transceiver_mode, wanted, crossed>>
  BY DEF UsbAntenna
<1>2. radio \in Radio /\ asked \in Asked /\ fate \in Outcomes
  BY DEF IInv, TypeInv
<1>3. /\ Steady(radio', radio)
      /\ enable => radio'.switchctrl = radio.switchctrl \cup {"ANT_PWR"}
      /\ ~enable => radio'.switchctrl = radio.switchctrl \ {"ANT_PWR"}
  BY <1>1, <1>2, SetAntennaResult
<1>a. FateOf("kept") \in {"kept", "torn"} /\ (Doing("store switchctrl") => FateOf("kept") = "torn")
  BY DEF FateOf
<1>4. /\ asked' \in Asked /\ fate' \in Outcomes
      /\ asked'.antenna = enable /\ asked'.amp = asked.amp /\ fate'.amp = fate.amp
      /\ fate'.antenna \in {"kept", "torn"}
      /\ Doing("store switchctrl") => fate'.antenna = "torn"
  BY <1>1, <1>2, <1>a DEF Asked, Fates, Outcomes
<1>b. Doing("store switchctrl") /\ Kept(loaded) => Kept(loaded)'
  BY <1>1, <1>4 DEF Kept, Request
<1>5. Kept(radio.switchctrl)'
  BY <1>3, <1>4 DEF IInv, Kept
<1>6. "MIX_BYPASS" \in radio.switchctrl => "MIX_BYPASS" \in radio'.switchctrl
  BY <1>3
<1>7. QED
  BY <1>1, <1>3, <1>4, <1>5, <1>6, <1>b, SteadyRequest

LEMMA AmpStep == ASSUME IInv, UsbAmp PROVE IInv'
<1>1. PICK enable \in BOOLEAN :
        /\ Request("amp") /\ radio' = SetLna(radio, enable)
        /\ asked' = [asked EXCEPT !.amp = enable]
        /\ fate' = [fate EXCEPT !.amp = FateOf("kept")]
        /\ UNCHANGED <<transceiver_mode, wanted, crossed>>
  BY DEF UsbAmp
<1>2. radio \in Radio /\ asked \in Asked /\ fate \in Outcomes
  BY DEF IInv, TypeInv
<1>3. /\ Steady(radio', radio)
      /\ enable => radio'.switchctrl = (radio.switchctrl \cup {"NO_TX_AMP_PWR"}) \ {"AMP_BYPASS", "NO_RX_AMP_PWR"}
      /\ ~enable => radio'.switchctrl = radio.switchctrl \cup LNA_OFF
  BY <1>1, <1>2, SetLnaResult
<1>a. FateOf("kept") \in {"kept", "torn"} /\ (Doing("store switchctrl") => FateOf("kept") = "torn")
  BY DEF FateOf
<1>4. /\ asked' \in Asked /\ fate' \in Outcomes
      /\ asked'.antenna = asked.antenna /\ asked'.amp = enable /\ fate'.antenna = fate.antenna
      /\ fate'.amp \in {"kept", "torn"}
      /\ Doing("store switchctrl") => fate'.amp = "torn"
  BY <1>1, <1>2, <1>a DEF Asked, Fates, Outcomes
<1>b. Doing("store switchctrl") /\ Kept(loaded) => Kept(loaded)'
  BY <1>1, <1>4 DEF Kept, Request
<1>5. Kept(radio.switchctrl)'
  BY <1>3, <1>4 DEF IInv, Kept, LNA_OFF
<1>6. "MIX_BYPASS" \in radio.switchctrl => "MIX_BYPASS" \in radio'.switchctrl
  BY <1>3
<1>7. QED
  BY <1>1, <1>3, <1>4, <1>5, <1>6, <1>b, SteadyRequest
-----------------------------------------------------------------------------
(* The invariant holds, and what it says of the radio *)

LEMMA InitInv == Init => IInv
<1>. SUFFICES ASSUME Init
              PROVE  IInv
  OBVIOUS
<1>. DEFINE defaults == [INT |-> 83, FRAC_HI |-> 341, FRAC_LO |-> 341, ENBL |-> 0, GPO |-> 1]
            pins == [p \in Groups |-> Driven(p, SWITCHCTRL_SAFE)]
            tuned == [q \in SynthRegs |-> defaults[q]]
<1>1. defaults \in Contents
  BY DEF Contents, Values, Regs, SynthRegs, MixerRegs
<1>2. tuned \in Tunings
  BY DEF Tunings, Values, SynthRegs
<1>3. pins \in PinStates
  BY DrivenType DEF PinStates
<1>4. radio = [mode |-> "STANDBY", switchctrl |-> {}, gpio |-> pins, regs |-> defaults,
               dirty |-> {}, chip |-> defaults, vco |-> tuned]
  BY Names DEF Init
<1>5. "STANDBY" \in Modes /\ {} \in Settings /\ {} \in DirtySets
  BY DEF Modes, Settings, DirtySets
<1>. HIDE DEF defaults, pins, tuned
<1>6. radio \in Radio /\ radio.switchctrl = {}
  BY <1>1, <1>2, <1>3, <1>4, <1>5 DEF Radio
<1>7. TypeInv
  <2>1. 0 \in 0 .. MaxRequests
    BY RadioAssumption
  <2>2. asked \in Asked /\ fate \in Outcomes
    BY DEF Init, Asked, Fates, Outcomes
  <2>3. 0 \in Values
    BY DEF Values
  <2>4. QED
    BY <1>5, <1>6, <2>1, <2>2, <2>3 DEF TypeInv, Init
<1>8. Bypassed /\ Idle
  BY DEF Init, Bypassed, Idle
<1>9. Kept(radio.switchctrl)
  BY <1>6 DEF Init, Kept
<1>10. QED
  BY <1>7, <1>8, <1>9 DEF IInv

LEMMA StutterInv == ASSUME IInv, UNCHANGED vars PROVE IInv'
<1>1. /\ UNCHANGED <<transceiver_mode, radio, todo, prior, loaded, ctrl, value, armed>>
      /\ UNCHANGED <<requests, wanted, disturbed, crossed, asked, fate>>
  BY DEF vars, local, ghosts
<1>2. TypeInv' /\ Bypassed' /\ Kept(radio.switchctrl)'
  BY <1>1 DEF IInv, TypeInv, Bypassed, Kept
<1>3. CASE Idle
  <2>1. Idle'
    BY <1>1, <1>3 DEF Idle
  <2>2. QED
    BY <1>2, <2>1 DEF IInv
<1>4. CASE ~Idle
  <2>1. armed /\ \E c \in Channels, k \in 1 .. 18 : At(c, k)
    BY <1>4 DEF IInv
  <2>2. PICK c \in Channels, k \in 1 .. 18 : At(c, k)
    BY <2>1
  <2>3. At(c, k)'
    BY <1>1, <2>2 DEF At, InCommit, Kept
  <2>4. armed'
    BY <1>1, <2>1
  <2>5. QED
    BY <1>2, <2>3, <2>4 DEF IInv
<1>5. QED
  BY <1>3, <1>4

LEMMA NextInv == IInv /\ [Next]_vars => IInv'
<1>. SUFFICES ASSUME IInv, [Next]_vars
              PROVE  IInv'
  OBVIOUS
<1>1. CASE UsbIsr
  BY <1>1, StartStep, OffStep, ChannelStep, AntennaStep, AmpStep DEF UsbIsr
<1>2. CASE Main
  BY <1>2, LoopStep, HopStep, SaveStep, StandbyStep, RestoreStep, LoadSwitchStep, StoreSwitchStep,
     CallStep, DriveStep, SetStep, CommitStep, BeginStep, EndStep DEF Main
<1>3. CASE UNCHANGED vars
  BY <1>3, StutterInv
<1>4. QED
  BY <1>1, <1>2, <1>3 DEF Next

\* A hop is at one of its steps, and what the steps before it have put right
\* holds, unless a request has disturbed it.
THEOREM Invariance == Spec => []IInv
<1>1. QED
  BY InitInv, NextInv, PTL DEF Spec

LEMMA SettledMended ==
  ASSUME IInv, ~Hopping, ~disturbed, wanted # -1
  PROVE  MixerRight(radio) /\ SynthRight(radio, wanted)
  BY IdleOrHopping, MendedAll DEF Idle

\* The chips, their shadow registers, the switches and main's locals keep their types.
THEOREM TypeCorrect == Spec => []TypeOK
<1>1. IInv => TypeOK
  <2>. SUFFICES ASSUME IInv
                PROVE  TypeOK
    OBVIOUS
  <2>1. TypeInv
    BY DEF IInv
  <2>2. radio \in Radio
    BY <2>1 DEF TypeInv
  <2>3. /\ radio.mode \in Modes /\ radio.switchctrl \in Settings /\ radio.gpio \in PinStates
        /\ radio.regs \in Contents /\ radio.dirty \in DirtySets /\ radio.chip \in Contents
        /\ radio.vco \in Tunings
    BY <2>2, FieldTypes
  <2>4. Settings \subseteq SUBSET Flags
    BY DEF Settings
  <2>5. /\ radio.regs \in [Registers -> 0 .. 1023] /\ radio.chip \in [Registers -> 0 .. 1023]
        /\ radio.dirty \subseteq Registers
    BY <2>3, Names DEF Contents, Values, DirtySets
  <2>8. radio.vco \in [Range(Synth) -> 0 .. 1023]
    BY <2>3, Names DEF Values, Tunings
  <2>9. radio.gpio \in [Range(Pins) -> {"tx", "rx", "mixer", "tx bypass", "rx bypass", "off"}]
    BY <2>3, Names DEF PinStates, Positions
  <2>6. radio.switchctrl \subseteq Flags /\ loaded \subseteq Flags /\ ctrl \subseteq Flags
    BY <2>1, <2>3, <2>4 DEF TypeInv
  <2>10. /\ transceiver_mode \in {"OFF", "BTLE"} /\ value \in 0 .. 1023
         /\ radio.mode \in {"STANDBY", "RX"} /\ prior \in {"STANDBY", "RX"}
    BY <2>1, <2>3 DEF TypeInv, Modes, Values
  <2>11. /\ armed \in BOOLEAN /\ wanted \in Channels \cup {37, -1} /\ requests \in 0 .. MaxRequests
         /\ asked \in [antenna : BOOLEAN, amp : BOOLEAN] /\ fate \in [antenna : Fates, amp : Fates]
    BY <2>1 DEF TypeInv, Asked, Outcomes
  <2>7. QED
    BY ZenonT(40), <2>5, <2>6, <2>8, <2>9, <2>10, <2>11 DEF TypeOK
<1>2. QED
  BY <1>1, Invariance, PTL

\* After a hop that no request has disturbed the oscillator is within 50 kHz of
\* its channel, and the shadow registers are those of the chips, clean: whatever
\* requests have done to the hops before (max2837.c:199-255).
THEOREM TunedCorrectly == Spec => []OnChannel
<1>1. IInv => OnChannel
  <2>. SUFFICES ASSUME IInv, ~Hopping, ~disturbed, wanted # -1
                PROVE  Near(radio.vco, wanted) /\ radio.chip = radio.regs /\ radio.dirty = {}
    BY DEF OnChannel, Settled
  <2>1. MixerRight(radio) /\ SynthRight(radio, wanted)
    BY SettledMended
  <2>2. wanted \in 0 .. 39
    BY RadioAssumption DEF IInv, TypeInv
  <2>3. Near(radio.vco, wanted)
    <3>1. /\ radio.vco["INT"] = Divider(wanted).INT /\ radio.vco["FRAC_HI"] = Divider(wanted).FRAC_HI
          /\ radio.vco["FRAC_LO"] = Divider(wanted).FRAC_LO
      BY <2>1 DEF SynthRight, SynthRegs
    <3>. DEFINE vco == radio.vco
    <3>2. vco.INT = Divider(wanted).INT /\ vco.FRAC_HI = Divider(wanted).FRAC_HI
          /\ vco.FRAC_LO = Divider(wanted).FRAC_LO
      BY <3>1
    <3>. HIDE DEF vco
    <3>3. Near(vco, wanted)
      BY <2>2, <3>2, DividerNear
    <3>4. QED
      BY <3>3 DEF vco
  <2>4. radio.regs \in Contents /\ radio.chip \in Contents /\ radio.dirty \in DirtySets
    BY FieldTypes DEF IInv, TypeInv
  <2>5. \A reg \in Regs : radio.chip[reg] = radio.regs[reg] /\ reg \notin radio.dirty
    BY <2>1 DEF MixerRight, SynthRight, Regs, SynthRegs, MixerRegs
  <2>6. radio.chip = radio.regs
    BY <2>4, <2>5 DEF Contents
  <2>7. radio.dirty = {}
    BY <2>4, <2>5 DEF DirtySets
  <2>8. QED
    BY <2>3, <2>6, <2>7
<1>2. QED
  BY <1>1, Invariance, PTL

\* ... and the switches are in the positions of switchctrl, mixer bypassed and
\* off, although main drives them from a copy (rf_path.c:86-168, 289-310).
THEOREM PathCorrect == Spec => []PathAgrees
<1>1. IInv => PathAgrees
  <2>. SUFFICES ASSUME IInv, ~Hopping, ~disturbed, wanted # -1
                PROVE  /\ "MIX_BYPASS" \in radio.switchctrl /\ radio.chip["ENBL"] = 0
                       /\ \A p \in Range(Pins) : radio.gpio[p] = Driven(p, radio.switchctrl)
                       /\ radio.chip["GPO"] = Gpo(radio.switchctrl)
    BY DEF PathAgrees, Settled
  <2>1. MixerRight(radio)
    BY SettledMended
  <2>2. "MIX_BYPASS" \in radio.switchctrl
    BY DEF IInv, Bypassed
  <2>3. QED
    BY <2>1, <2>2, Names DEF MixerRight
<1>2. QED
  BY <1>1, Invariance, PTL

\* A session receives between two hops, whatever stops, starts and channel requests
\* have come, unless it was started while main was within a set_freq that had found
\* the device in STANDBY (tuning.c:66-108).
THEOREM SessionListens == Spec => []SessionReceives
<1>1. IInv => SessionReceives
  BY IdleOrHopping DEF SessionReceives, Idle
<1>2. QED
  BY <1>1, Invariance, PTL

\* Antenna power and amplifier are what the host has asked for last, or off since a
\* stop, through every hop, channel request and start; of a setting whose request
\* fell into main's change of switchctrl (rf_path.c:293) nothing is claimed.
THEOREM SettingsSurvive == Spec => []SettingsKept
<1>1. IInv => SettingsKept
  <2>. SUFFICES ASSUME IInv, ~Hopping, ~disturbed, wanted # -1
                PROVE  /\ fate.antenna = "kept" => (radio.chip["GPO"] = 0 <=> asked.antenna)
                       /\ fate.antenna = "stopped" => radio.chip["GPO"] = 1
                       /\ fate.amp = "kept" => radio.gpio["amp"] = IF asked.amp THEN "rx" ELSE "off"
                       /\ fate.amp = "stopped" => radio.gpio["amp"] = "off"
    BY DEF SettingsKept, Settled
  <2>1. MixerRight(radio) /\ Kept(radio.switchctrl)
    BY SettledMended DEF IInv
  <2>2. radio.switchctrl \in Settings
    BY FieldTypes DEF IInv, TypeInv
  <2>3. /\ fate.antenna = "kept" => (radio.chip["GPO"] = 0 <=> asked.antenna)
        /\ fate.antenna = "stopped" => radio.chip["GPO"] = 1
    BY <2>1 DEF MixerRight, Kept, Gpo
  <2>4. radio.gpio["amp"] = Driven("amp", radio.switchctrl)
    BY <2>1 DEF MixerRight, Groups
  <2>5. "TX" \notin radio.switchctrl
    BY <2>2 DEF Settings
  <2>6. fate.amp = "kept" /\ asked.amp => Driven("amp", radio.switchctrl) = "rx"
    BY <2>1, <2>5 DEF Kept, Driven
  <2>7. (fate.amp = "kept" /\ ~asked.amp) \/ fate.amp = "stopped" => Driven("amp", radio.switchctrl) = "off"
    BY <2>1 DEF Kept, Driven
  <2>8. QED
    BY <2>3, <2>4, <2>6, <2>7
<1>2. QED
  BY <1>1, Invariance, PTL
============================================================================
