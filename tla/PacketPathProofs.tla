------------------------- MODULE PacketPathProofs -------------------------
(***************************************************************************)
(* Proofs about PacketPath for every pool size, every set of transfers and *)
(* any number of packets and requests: its invariants, and that it         *)
(* implements PacketPipe and so delivers packets in order.                 *)
(***************************************************************************)
EXTENDS PacketPath, FiniteSetTheorems, SequenceTheorems, TLAPS

-----------------------------------------------------------------------------
(* The index mask *)

\* A bit is 0 or 1, and what two numbers have in common is at most either.
LEMMA BitType == \A n \in Nat, weight \in Nat \ {0} : Bit(n, weight) \in {0, 1}
BY DEF Bit

LEMMA CommonAtMost ==
  ASSUME NEW a \in Nat, NEW b \in Nat, NEW weight \in Nat \ {0}
  PROVE  Common(a, b, weight) \in Nat /\ Common(a, b, weight) <= weight * Bit(b, weight)
<1>1. Bit(a, weight) \in {0, 1} /\ Bit(b, weight) \in {0, 1}
  BY BitType
<1> QED
  BY <1>1 DEF Common

\* A number below 128 is the sum of its seven bits.
LEMMA SevenBits ==
  ASSUME NEW b \in 0 .. 127
  PROVE  b = Bit(b, 1) + 2 * Bit(b, 2) + 4 * Bit(b, 4) + 8 * Bit(b, 8)
               + 16 * Bit(b, 16) + 32 * Bit(b, 32) + 64 * Bit(b, 64)
BY DEF Bit

\* The masked index is an index of the pool, whatever the pool size.
LEMMA NextInfoType ==
  ASSUME NEW i \in Infos
  PROVE  NextInfo(i) \in Infos
<1> DEFINE a == i + 1
           b == DEMOD_INFO_CNT - 1
<1>1. a \in Nat /\ b \in Nat /\ b \in 0 .. 127
  BY PathAssumption DEF Infos
<1> HIDE DEF a, b
<1>2. \A w \in Nat \ {0} : Common(a, b, w) \in Nat /\ Common(a, b, w) <= w * Bit(b, w)
  BY <1>1, CommonAtMost
<1>3. /\ Common(a, b, 1) \in Nat /\ Common(a, b, 1) <= Bit(b, 1)
      /\ Common(a, b, 2) \in Nat /\ Common(a, b, 2) <= 2 * Bit(b, 2)
      /\ Common(a, b, 4) \in Nat /\ Common(a, b, 4) <= 4 * Bit(b, 4)
      /\ Common(a, b, 8) \in Nat /\ Common(a, b, 8) <= 8 * Bit(b, 8)
      /\ Common(a, b, 16) \in Nat /\ Common(a, b, 16) <= 16 * Bit(b, 16)
      /\ Common(a, b, 32) \in Nat /\ Common(a, b, 32) <= 32 * Bit(b, 32)
      /\ Common(a, b, 64) \in Nat /\ Common(a, b, 64) <= 64 * Bit(b, 64)
  BY <1>1, <1>2, BitType
<1>4. And(a, b) \in Nat /\ And(a, b) <= b
  <2>1. And(a, b) <= Bit(b, 1) + 2 * Bit(b, 2) + 4 * Bit(b, 4) + 8 * Bit(b, 8)
                       + 16 * Bit(b, 16) + 32 * Bit(b, 32) + 64 * Bit(b, 64)
    <3>1. /\ Bit(b, 1) \in Nat /\ Bit(b, 2) \in Nat /\ Bit(b, 4) \in Nat
          /\ Bit(b, 8) \in Nat /\ Bit(b, 16) \in Nat /\ Bit(b, 32) \in Nat
          /\ Bit(b, 64) \in Nat
      BY <1>1 DEF Bit
    <3> QED
      BY <1>3, <3>1 DEF And
  <2>2. And(a, b) \in Nat
    BY <1>3 DEF And
  <2> QED
    BY <1>1, <2>1, <2>2, SevenBits
<1> QED
  BY <1>4, PathAssumption DEF NextInfo, Infos, a, b
-----------------------------------------------------------------------------
(* Sequences of transfers *)

NoRepeat(s) == \A i, j \in DOMAIN s : s[i] = s[j] => i = j

LEMMA EmptyElements == Elements(<<>>) = {} /\ NoRepeat(<<>>)
BY DEF Elements, NoRepeat

LEMMA AppendElements ==
  ASSUME NEW T, NEW s \in Seq(T), NEW x \in T
  PROVE  /\ Append(s, x) \in Seq(T)
         /\ Elements(Append(s, x)) = Elements(s) \cup {x}
         /\ NoRepeat(s) /\ x \notin Elements(s) => NoRepeat(Append(s, x))
<1>1. Len(s) \in Nat /\ DOMAIN s = 1 .. Len(s)
  BY LenProperties
<1>2. /\ Append(s, x) \in Seq(T)
      /\ DOMAIN Append(s, x) = 1 .. Len(s) + 1
      /\ \A i \in 1 .. Len(s) : Append(s, x)[i] = s[i]
      /\ Append(s, x)[Len(s) + 1] = x
  BY <1>1, AppendProperties
<1>3. Elements(Append(s, x)) = Elements(s) \cup {x}
  BY <1>1, <1>2 DEF Elements
<1>4. ASSUME NoRepeat(s), x \notin Elements(s) PROVE NoRepeat(Append(s, x))
  BY <1>1, <1>2, <1>4 DEF Elements, NoRepeat
<1> QED
  BY <1>2, <1>3, <1>4

LEMMA TailElements ==
  ASSUME NEW T, NEW s \in Seq(T), s # <<>>
  PROVE  /\ Head(s) \in T /\ Tail(s) \in Seq(T)
         /\ Elements(s) = {Head(s)} \cup Elements(Tail(s))
         /\ NoRepeat(s) => NoRepeat(Tail(s)) /\ Head(s) \notin Elements(Tail(s))
<1>1. Len(s) \in Nat \ {0} /\ DOMAIN s = 1 .. Len(s)
  BY LenProperties, EmptySeq
<1>2. /\ Head(s) \in T /\ Tail(s) \in Seq(T) /\ Head(s) = s[1]
      /\ DOMAIN Tail(s) = 1 .. Len(s) - 1
      /\ \A i \in 1 .. Len(s) - 1 : Tail(s)[i] = s[i + 1]
  BY <1>1, HeadTailProperties, LenProperties
<1>3. Elements(s) = {Head(s)} \cup Elements(Tail(s))
  <2>1. \A i \in DOMAIN s : i = 1 \/ (i - 1 \in DOMAIN Tail(s) /\ Tail(s)[i - 1] = s[i])
    BY <1>1, <1>2
  <2>2. \A i \in DOMAIN Tail(s) : i + 1 \in DOMAIN s /\ Tail(s)[i] = s[i + 1]
    BY <1>1, <1>2
  <2>3. 1 \in DOMAIN s
    BY <1>1
  <2>4. Elements(s) \subseteq {Head(s)} \cup Elements(Tail(s))
    <3> SUFFICES ASSUME NEW i \in DOMAIN s
                 PROVE  s[i] = Head(s) \/ s[i] \in Elements(Tail(s))
      BY DEF Elements
    <3> QED
      BY <1>2, <2>1 DEF Elements
  <2>5. {Head(s)} \cup Elements(Tail(s)) \subseteq Elements(s)
    BY <1>2, <2>2, <2>3 DEF Elements
  <2> QED
    BY <2>4, <2>5
<1>4. ASSUME NoRepeat(s) PROVE NoRepeat(Tail(s)) /\ Head(s) \notin Elements(Tail(s))
  BY <1>1, <1>2, <1>4 DEF Elements, NoRepeat
<1> QED
  BY <1>2, <1>3, <1>4

LEMMA ElementsType ==
  ASSUME NEW T, NEW s \in Seq(T)
  PROVE  Elements(s) \subseteq T
BY LenProperties, ElementOfSeq DEF Elements
-----------------------------------------------------------------------------
(* The inductive invariant *)

Busy == {"demod", "allocate", "enqueue"}

\* What the requests and the completions may not disturb, beyond the invariants
\* the runs check: the controller's list names no transfer twice, the transfer
\* main holds is ready to be sent, and each queued transfer has a record of its
\* own, in use and not the one main works with.
Ownership ==
  /\ NoRepeat(endpoint.primed)
  /\ pc = "enqueue" => td[held].status = "active" /\ td[held].info = demod_info_idx
  /\ pc \in Busy => is_used[demod_info_idx] = 1
  /\ pc \in Busy => \A t \in Elements(active) : td[t].info # demod_info_idx
  /\ \A t \in Elements(active) : is_used[td[t].info] = 1
  /\ \A t, u \in Elements(active) : td[t].info = td[u].info => t = u

IInv == TypeOK /\ Conservation /\ HardwareOwnsActive /\ Ownership

\* HardwareOwnsActive, said of the transfers primed rather than of their places.
LEMMA PrimedActive ==
  HardwareOwnsActive <=>
    \A t \in Elements(endpoint.primed) :
      t \in Elements(active) /\ td[t].status = "active"
BY DEF HardwareOwnsActive, Elements

LEMMA PrimedActiveNext ==
  HardwareOwnsActive' <=>
    \A t \in Elements(endpoint'.primed) :
      t \in Elements(active') /\ td'[t].status = "active"
BY DEF HardwareOwnsActive, Elements

LEMMA NoRepeatConservation ==
  Conservation <=>
    /\ NoRepeat(active)
    /\ free_transfers \cap Elements(active) = {}
    /\ held \notin free_transfers \cup Elements(active)
    /\ held # None <=> pc = "enqueue"
    /\ Transfers = free_transfers \cup Elements(active) \cup ({held} \ {None})
BY DEF Conservation, NoRepeat

LEMMA NoRepeatConservationNext ==
  Conservation' <=>
    /\ NoRepeat(active')
    /\ free_transfers' \cap Elements(active') = {}
    /\ held' \notin free_transfers' \cup Elements(active')
    /\ held' # None <=> pc' = "enqueue"
    /\ Transfers = free_transfers' \cup Elements(active') \cup ({held'} \ {None})
BY DEF Conservation, NoRepeat, Elements

LEMMA InitIInv == Init => IInv
<1> SUFFICES ASSUME Init PROVE IInv
  OBVIOUS
<1>1. active = <<>> /\ endpoint.primed = <<>> /\ Elements(active) = {}
      /\ Elements(endpoint.primed) = {} /\ NoRepeat(active) /\ NoRepeat(endpoint.primed)
  BY EmptyElements DEF Init
<1>2. TypeOK
  <2>1. 0 \in Infos
    BY PathAssumption DEF Infos
  <2>2. <<>> \in Seq(Transfers) /\ <<>> \in Seq(Nat)
    BY EmptySeq
  <2>3. endpoint \in [enabled : BOOLEAN, primed : Seq(Transfers), complete : BOOLEAN]
    BY <2>2 DEF Init
  <2>4. td \in [Transfers -> [status : Statuses, info : Infos]]
    BY <2>1 DEF Init, Statuses
  <2> QED
    BY <2>1, <2>2, <2>3, <2>4 DEF Init, TypeOK, PCs
<1>3. Conservation
  BY <1>1, NoRepeatConservation, PathAssumption DEF Init
<1>4. HardwareOwnsActive
  BY <1>1, PrimedActive
<1>5. Ownership
  BY <1>1 DEF Init, Ownership, Busy
<1> QED
  BY <1>2, <1>3, <1>4, <1>5 DEF IInv

\* A step that leaves the queue, the records and main's work on them alone
\* keeps the invariant, even when the controller drops what is primed.
LEMMA QuietStep ==
  ASSUME IInv, TypeOK',
         UNCHANGED <<held, queue, is_used, demod_info_idx>>,
         endpoint'.primed = endpoint.primed \/ endpoint'.primed = <<>>,
         pc' \in Busy => pc \in Busy, pc' = "enqueue" <=> pc = "enqueue"
  PROVE  IInv'
<1>1. Elements(endpoint'.primed) \subseteq Elements(endpoint.primed)
      /\ NoRepeat(endpoint'.primed)
  BY EmptyElements DEF IInv, Ownership
<1>2. UNCHANGED <<active, free_transfers, td>>
  BY DEF queue
<1>3. Conservation'
  BY <1>2, NoRepeatConservation, NoRepeatConservationNext DEF IInv
<1>4. HardwareOwnsActive'
  BY <1>1, <1>2, PrimedActive, PrimedActiveNext DEF IInv
<1>5. Ownership'
  BY <1>1, <1>2 DEF IInv, Ownership, NoRepeat, Elements
<1> QED
  BY <1>3, <1>4, <1>5 DEF IInv
-----------------------------------------------------------------------------
(* Type correctness of a step *)

LEMMA MainTypes == IInv /\ Main => TypeOK'
<1> SUFFICES ASSUME IInv, Main PROVE TypeOK'
  OBVIOUS
<1> USE DEF IInv, TypeOK, PCs, radio, pool, queue, ghosts
<1>1. CASE MainLoop
  BY <1>1 DEF MainLoop
<1>2. CASE MainSpin
  BY <1>2 DEF MainSpin
<1>3. CASE MainWait
  BY <1>3 DEF MainWait
<1>4. CASE MainNoPacket
  BY <1>4 DEF MainNoPacket
<1>5. CASE MainPacket
  BY <1>5 DEF MainPacket
<1>6. CASE MainAllocate
  <2>1. PICK t \in free_transfers :
          /\ held' = t /\ free_transfers' = free_transfers \ {t}
          /\ td' = [td EXCEPT ![t] = [status |-> "active", info |-> demod_info_idx]]
    BY <1>6 DEF MainAllocate
  <2>2. [status |-> "active", info |-> demod_info_idx] \in [status : Statuses, info : Infos]
    BY DEF Statuses
  <2>3. td' \in [Transfers -> [status : Statuses, info : Infos]]
    BY <2>1, <2>2
  <2> QED
    BY <1>6, <2>1, <2>3 DEF MainAllocate
<1>7. CASE MainEnqueue
  <2>1. held \in Transfers
    BY <1>7 DEF MainEnqueue, MainAt, Conservation
  <2>2. active' \in Seq(Transfers) /\ Append(endpoint.primed, held) \in Seq(Transfers)
    BY <1>7, <2>1, AppendElements DEF MainEnqueue
  <2>3. endpoint' \in [enabled : BOOLEAN, primed : Seq(Transfers), complete : BOOLEAN]
    BY <1>7, <2>2 DEF MainEnqueue
  <2>4. demod_info_idx' \in Infos
    BY <1>7, NextInfoType DEF MainEnqueue
  <2> QED
    BY <1>7, <2>2, <2>3, <2>4 DEF MainEnqueue
<1> QED
  BY <1>1, <1>2, <1>3, <1>4, <1>5, <1>6, <1>7 DEF Main

LEMMA FlushType ==
  ASSUME TypeOK, NEW enabled \in BOOLEAN, FlushEndpoint(enabled)
  PROVE  /\ free_transfers' \subseteq Transfers /\ active' \in Seq(Transfers)
         /\ endpoint' \in [enabled : BOOLEAN, primed : Seq(Transfers), complete : BOOLEAN]
<1>1. Elements(active) \subseteq Transfers
  BY ElementsType DEF TypeOK
<1>2. <<>> \in Seq(Transfers)
  BY EmptySeq
<1>3. (endpoint.complete /\ enabled) \in BOOLEAN
  OBVIOUS
<1> QED
  BY <1>1, <1>2, <1>3 DEF FlushEndpoint, TypeOK

LEMMA OtherTypes == IInv /\ (SgpioIsr \/ Transmit \/ UsbIsr) => TypeOK'
<1> SUFFICES ASSUME IInv, SgpioIsr \/ Transmit \/ UsbIsr PROVE TypeOK'
  OBVIOUS
<1> USE DEF IInv, TypeOK, PCs, radio, pool, queue, ghosts
<1>1. CASE SgpioIsr
  BY <1>1 DEF SgpioIsr
<1>2. CASE Transmit
  <2> DEFINE t == Head(endpoint.primed)
  <2>1. t \in Transfers /\ Tail(endpoint.primed) \in Seq(Transfers)
    BY <1>2, TailElements DEF Transmit
  <2>2. td' \in [Transfers -> [status : Statuses, info : Infos]]
    <3>1. [td[t] EXCEPT !.status = "done"] \in [status : Statuses, info : Infos]
      BY ZenonT(40), <2>1 DEF Statuses
    <3> QED
      BY <1>2, <2>1, <3>1 DEF Transmit
  <2>3. delivered' \in Seq(Nat)
    BY <1>2, <2>1, AppendElements DEF Transmit
  <2>4. endpoint' \in [enabled : BOOLEAN, primed : Seq(Transfers), complete : BOOLEAN]
    BY <1>2, <2>1 DEF Transmit
  <2> QED
    BY <1>2, <2>2, <2>3, <2>4 DEF Transmit
<1>3. CASE CompleteInterrupt
  BY <1>3 DEF CompleteInterrupt
<1>4. CASE Retire
  <2>1. Head(active) \in Transfers /\ Tail(active) \in Seq(Transfers)
    BY <1>4, TailElements DEF Retire, HeadFinished
  <2> QED
    BY <1>4, <2>1 DEF Retire
<1>5. CASE CompleteReturn
  BY <1>5 DEF CompleteReturn
<1>6. CASE ModeOn
  <2>1. /\ free_transfers' \subseteq Transfers /\ active' \in Seq(Transfers)
        /\ endpoint' \in [enabled : BOOLEAN, primed : Seq(Transfers), complete : BOOLEAN]
    BY <1>6, FlushType DEF ModeOn
  <2> QED
    BY <1>6, <2>1 DEF ModeOn, Request
<1>7. CASE ModeOff
  <2>1. /\ free_transfers' \subseteq Transfers /\ active' \in Seq(Transfers)
        /\ endpoint' \in [enabled : BOOLEAN, primed : Seq(Transfers), complete : BOOLEAN]
    BY <1>7, FlushType DEF ModeOff
  <2>2. transceiver_mode' = "OFF" /\ streaming' = FALSE
    BY <1>7, Zenon DEF ModeOff
  <2>4. requests' \in Nat
    BY <1>7 DEF ModeOff, Request
  <2>3. UNCHANGED <<sgpio_callback_finished, pool, pc, held, td, completing, ghosts>>
    BY <1>7 DEF ModeOff, Request
  <2> QED
    BY <2>1, <2>2, <2>3, <2>4
<1>8. CASE SetConfiguration
  BY <1>8 DEF SetConfiguration, Request
<1>9. CASE BusReset
  BY <1>9, EmptySeq DEF BusReset, Request
<1> QED
  BY <1>1, <1>2, <1>3, <1>4, <1>5, <1>6, <1>7, <1>8, <1>9 DEF UsbIsr, Requests
-----------------------------------------------------------------------------
(* Each step keeps the invariant *)

LEMMA WaitStep == IInv /\ MainWait => IInv'
<1> SUFFICES ASSUME IInv, MainWait PROVE IInv'
  OBVIOUS
<1>1. TypeOK'
  BY MainTypes DEF Main
<1>2. /\ pc = "wait" /\ pc' = "demod" /\ is_used[demod_info_idx] = 0
      /\ is_used' = [is_used EXCEPT ![demod_info_idx] = 1]
      /\ UNCHANGED <<demod_info_idx, held, active, free_transfers, td, endpoint>>
  BY DEF MainWait, MainAt, queue
<1>3. Conservation'
  BY <1>2, NoRepeatConservation, NoRepeatConservationNext DEF IInv
<1>4. HardwareOwnsActive'
  BY <1>2, PrimedActive, PrimedActiveNext DEF IInv
<1>5. Ownership'
  <2>1. \A t \in Elements(active) : td[t].info # demod_info_idx
    BY <1>2 DEF IInv, Ownership
  <2>2. is_used'[demod_info_idx] = 1 /\ \A t \in Elements(active) : is_used'[td[t].info] = 1
    BY <1>2, <2>1 DEF IInv, Ownership, TypeOK
  <2> QED
    BY <1>2, <2>1, <2>2 DEF IInv, Ownership, Busy, NoRepeat, Elements
<1> QED
  BY <1>1, <1>3, <1>4, <1>5 DEF IInv

LEMMA NoPacketStep == IInv /\ MainNoPacket => IInv'
<1> SUFFICES ASSUME IInv, MainNoPacket PROVE IInv'
  OBVIOUS
<1>1. TypeOK'
  BY MainTypes DEF Main
<1>2. /\ pc = "demod" /\ pc' = "loop"
      /\ is_used' = [is_used EXCEPT ![demod_info_idx] = 0]
      /\ UNCHANGED <<demod_info_idx, held, active, free_transfers, td, endpoint>>
  BY DEF MainNoPacket, MainAt, queue
<1>3. Conservation'
  BY <1>2, NoRepeatConservation, NoRepeatConservationNext DEF IInv
<1>4. HardwareOwnsActive'
  BY <1>2, PrimedActive, PrimedActiveNext DEF IInv
<1>5. Ownership'
  <2>1. \A t \in Elements(active) : td[t].info # demod_info_idx
    BY <1>2 DEF IInv, Ownership, Busy
  <2>2. \A t \in Elements(active) : is_used'[td[t].info] = 1
    BY <1>2, <2>1 DEF IInv, Ownership, TypeOK
  <2> QED
    BY <1>2, <2>2 DEF IInv, Ownership, Busy, NoRepeat, Elements
<1> QED
  BY <1>1, <1>3, <1>4, <1>5 DEF IInv

LEMMA AllocateStep == IInv /\ MainAllocate => IInv'
<1> SUFFICES ASSUME IInv, MainAllocate PROVE IInv'
  OBVIOUS
<1>1. TypeOK'
  BY MainTypes DEF Main
<1>2. PICK t \in free_transfers :
        /\ held' = t /\ free_transfers' = free_transfers \ {t}
        /\ td' = [td EXCEPT ![t] = [status |-> "active", info |-> demod_info_idx]]
  BY DEF MainAllocate
<1>3. /\ pc = "allocate" /\ pc' = "enqueue"
      /\ UNCHANGED <<is_used, demod_info_idx, active, endpoint>>
  BY DEF MainAllocate, MainAt, pool
<1>4. /\ t \in Transfers /\ t # None /\ t \notin Elements(active)
      /\ held = None
  BY <1>3, NoRepeatConservation, PathAssumption DEF IInv, TypeOK
<1>5. td'[t].status = "active" /\ td'[t].info = demod_info_idx
      /\ \A u \in Elements(active) : td'[u] = td[u]
  BY <1>2, <1>4, ElementsType DEF IInv, TypeOK
<1>6. Conservation'
  BY <1>2, <1>3, <1>4, NoRepeatConservation, NoRepeatConservationNext DEF IInv
<1>7. HardwareOwnsActive'
  BY <1>3, <1>5, PrimedActive, PrimedActiveNext DEF IInv
<1>8. Ownership'
  BY <1>2, <1>3, <1>5 DEF IInv, Ownership, Busy, NoRepeat, Elements
<1> QED
  BY <1>1, <1>6, <1>7, <1>8 DEF IInv

LEMMA EnqueueStep == IInv /\ MainEnqueue => IInv'
<1> SUFFICES ASSUME IInv, MainEnqueue PROVE IInv'
  OBVIOUS
<1>1. TypeOK'
  BY MainTypes DEF Main
<1>2. /\ pc = "enqueue" /\ pc' = "loop" /\ held' = None
      /\ active' = Append(active, held)
      /\ endpoint'.primed = Append(endpoint.primed, held)
      /\ UNCHANGED <<is_used, free_transfers, td>>
  BY DEF MainEnqueue, MainAt, IInv, TypeOK
<1>3. /\ held \in Transfers /\ held # None /\ held \notin free_transfers
      /\ held \notin Elements(active) /\ NoRepeat(active)
  BY <1>2, NoRepeatConservation DEF IInv, TypeOK
<1>4. held \notin Elements(endpoint.primed)
  BY <1>3, PrimedActive DEF IInv
<1>5. Elements(active') = Elements(active) \cup {held} /\ NoRepeat(active')
  BY <1>2, <1>3, AppendElements DEF IInv, TypeOK
<1>6. Elements(endpoint'.primed) = Elements(endpoint.primed) \cup {held}
      /\ NoRepeat(endpoint'.primed)
  BY <1>2, <1>3, <1>4, AppendElements DEF IInv, TypeOK, Ownership
<1>7. Conservation'
  BY <1>2, <1>3, <1>5, NoRepeatConservation, NoRepeatConservationNext, PathAssumption DEF IInv, TypeOK
<1>8. td[held].status = "active" /\ td[held].info = demod_info_idx
      /\ is_used[demod_info_idx] = 1
      /\ \A t \in Elements(active) : td[t].info # demod_info_idx
  BY <1>2 DEF IInv, Ownership, Busy
<1>9. HardwareOwnsActive'
  BY <1>2, <1>5, <1>6, <1>8, PrimedActive, PrimedActiveNext DEF IInv
<1>10. Ownership'
  <2>1. \A t \in Elements(active') : is_used'[td'[t].info] = 1
    BY <1>2, <1>5, <1>8 DEF IInv, Ownership
  <2>2. \A t, u \in Elements(active') : td'[t].info = td'[u].info => t = u
    BY <1>2, <1>5, <1>8 DEF IInv, Ownership
  <2> QED
    BY <1>2, <1>6, <2>1, <2>2 DEF Ownership, Busy, NoRepeat, Elements
<1> QED
  BY <1>1, <1>7, <1>9, <1>10 DEF IInv

LEMMA TransmitStep == IInv /\ Transmit => IInv'
<1> SUFFICES ASSUME IInv, Transmit PROVE IInv'
  OBVIOUS
<1> DEFINE t == Head(endpoint.primed)
<1>1. TypeOK'
  BY OtherTypes
<1>2. /\ td' = [td EXCEPT ![t].status = "done"]
      /\ endpoint'.primed = Tail(endpoint.primed)
      /\ UNCHANGED <<is_used, demod_info_idx, pc, held, active, free_transfers>>
  BY DEF Transmit, IInv, TypeOK, pool
<1>3. /\ t \in Transfers /\ NoRepeat(endpoint'.primed)
      /\ Elements(endpoint.primed) = {t} \cup Elements(endpoint'.primed)
      /\ t \notin Elements(endpoint'.primed)
  BY <1>2, TailElements DEF Transmit, IInv, TypeOK, Ownership
<1>4. t \in Elements(active)
  BY <1>3, PrimedActive DEF IInv
<1> HIDE DEF t
<1>5. \A u \in Transfers : td'[u].info = td[u].info /\ (u # t => td'[u] = td[u])
  BY <1>2 DEF IInv, TypeOK
<1>6. Elements(active) \subseteq Transfers
  BY ElementsType DEF IInv, TypeOK
<1>7. Conservation'
  BY <1>2, NoRepeatConservation, NoRepeatConservationNext DEF IInv
<1>8. HardwareOwnsActive'
  BY <1>2, <1>3, <1>5, <1>6, PrimedActive, PrimedActiveNext DEF IInv
<1>9. Ownership'
  <2>1. pc = "enqueue" => held \in Transfers /\ held # t
    BY <1>4, NoRepeatConservation DEF IInv, TypeOK
  <2>2. pc' = "enqueue" => td'[held'].status = "active" /\ td'[held'].info = demod_info_idx'
    BY <1>2, <1>5, <2>1 DEF IInv, Ownership
  <2>3. Elements(active') = Elements(active)
    BY <1>2
  <2> QED
    BY <1>2, <1>3, <1>5, <1>6, <2>2, <2>3 DEF IInv, Ownership, NoRepeat, Elements
<1> QED
  BY <1>1, <1>7, <1>8, <1>9 DEF IInv

LEMMA RetireStep == IInv /\ Retire => IInv'
<1> SUFFICES ASSUME IInv, Retire PROVE IInv'
  OBVIOUS
<1> DEFINE t == Head(active)
<1>1. TypeOK'
  BY OtherTypes DEF UsbIsr
<1>2. /\ td[t].status = "done" /\ active' = Tail(active)
      /\ is_used' = [is_used EXCEPT ![td[t].info] = 0]
      /\ free_transfers' = free_transfers \cup {t}
      /\ UNCHANGED <<demod_info_idx, pc, held, td, endpoint>>
  BY DEF Retire, HeadFinished
<1>3. /\ t \in Transfers /\ NoRepeat(active') /\ t \notin Elements(active')
      /\ Elements(active) = {t} \cup Elements(active')
  BY <1>2, TailElements, NoRepeatConservation DEF Retire, HeadFinished, IInv, TypeOK
<1> HIDE DEF t
<1>4. Conservation'
  BY <1>2, <1>3, NoRepeatConservation, NoRepeatConservationNext DEF IInv
<1>5. HardwareOwnsActive'
  BY <1>2, <1>3, PrimedActive, PrimedActiveNext DEF IInv
<1>6. Ownership'
  <2>1. td[t].info \in Infos
    BY <1>3 DEF IInv, TypeOK
  <2>2. \A u \in Elements(active') : td[u].info # td[t].info
    BY <1>3 DEF IInv, Ownership
  <2>3. \A u \in Elements(active') : is_used'[td[u].info] = 1
    BY <1>2, <1>3, <2>1, <2>2, ElementsType DEF IInv, Ownership, TypeOK
  <2>4. pc \in Busy => is_used'[demod_info_idx] = 1
    BY <1>2, <1>3, <2>1 DEF IInv, Ownership, TypeOK
  <2> QED
    BY <1>2, <1>3, <2>3, <2>4 DEF IInv, Ownership, NoRepeat, Elements
<1> QED
  BY <1>1, <1>4, <1>5, <1>6 DEF IInv

LEMMA FlushStep ==
  ASSUME IInv, TypeOK', NEW enabled \in BOOLEAN, FlushEndpoint(enabled),
         UNCHANGED <<is_used, demod_info_idx, pc, held, td>>
  PROVE  IInv'
<1>1. /\ active' = <<>> /\ endpoint'.primed = <<>>
      /\ free_transfers' = free_transfers \cup Elements(active)
  BY DEF FlushEndpoint
<1>2. /\ Elements(active') = {} /\ NoRepeat(active')
      /\ Elements(endpoint'.primed) = {} /\ NoRepeat(endpoint'.primed)
  BY <1>1, EmptyElements
<1>3. Conservation'
  BY <1>1, <1>2, NoRepeatConservation, NoRepeatConservationNext DEF IInv
<1>4. HardwareOwnsActive'
  BY <1>2, PrimedActiveNext
<1>5. Ownership'
  BY <1>2 DEF IInv, Ownership, NoRepeat, Elements
<1> QED
  BY <1>3, <1>4, <1>5 DEF IInv

LEMMA NextIInv == IInv /\ [Next]_vars => IInv'
<1> SUFFICES ASSUME IInv, [Next]_vars PROVE IInv'
  OBVIOUS
<1>0. Next => TypeOK'
  BY MainTypes, OtherTypes DEF Next
<1>1. CASE SgpioIsr \/ MainLoop \/ MainSpin \/ MainPacket
  <2>1. UNCHANGED <<held, queue, is_used, demod_info_idx, endpoint>>
    BY <1>1 DEF SgpioIsr, MainLoop, MainSpin, MainPacket, pool
  <2>2. (pc' \in Busy => pc \in Busy) /\ (pc' = "enqueue" <=> pc = "enqueue")
    BY <1>1 DEF SgpioIsr, MainLoop, MainSpin, MainPacket, MainAt, Busy
  <2>3. TypeOK'
    BY <1>0, <1>1 DEF Next, Main
  <2> QED
    BY <2>1, <2>2, <2>3, QuietStep
<1>2. CASE CompleteInterrupt \/ CompleteReturn \/ SetConfiguration \/ BusReset
  <2>1. UNCHANGED <<pc, held, queue, is_used, demod_info_idx>>
    BY <1>2 DEF CompleteInterrupt, CompleteReturn, SetConfiguration, BusReset, Request,
                pool, queue
  <2>2. endpoint'.primed = endpoint.primed \/ endpoint'.primed = <<>>
    BY <1>2 DEF CompleteInterrupt, CompleteReturn, SetConfiguration, BusReset, IInv, TypeOK
  <2>3. TypeOK'
    BY <1>0, <1>2 DEF Next, UsbIsr, Requests
  <2> QED
    BY <2>1, <2>2, <2>3, QuietStep
<1>3. CASE MainWait
  BY <1>3, WaitStep
<1>4. CASE MainNoPacket
  BY <1>4, NoPacketStep
<1>5. CASE MainAllocate
  BY <1>5, AllocateStep
<1>6. CASE MainEnqueue
  BY <1>6, EnqueueStep
<1>7. CASE Transmit
  BY <1>7, TransmitStep
<1>8. CASE Retire
  BY <1>8, RetireStep
<1>9. CASE ModeOn \/ ModeOff
  <2>1. TypeOK'
    BY <1>0, <1>9 DEF Next, UsbIsr, Requests
  <2>2. UNCHANGED <<is_used, demod_info_idx, pc, held, td>>
    BY <1>9 DEF ModeOn, ModeOff, Request, pool
  <2> QED
    BY <1>9, <2>1, <2>2, FlushStep DEF ModeOn, ModeOff
<1>10. CASE UNCHANGED vars
  <2>1. TypeOK'
    BY <1>10 DEF IInv, TypeOK, vars, radio, pool, queue, ghosts
  <2> QED
    BY <1>10, <2>1, QuietStep DEF vars, pool
<1> QED
  BY <1>1, <1>2, <1>3, <1>4, <1>5, <1>6, <1>7, <1>8, <1>9, <1>10
     DEF Next, Main, UsbIsr, Requests

\* Every execution, with any requests, keeps the records, the queue and the
\* controller's list in step.
THEOREM Invariance == Spec => []IInv
<1> QED
  BY InitIInv, NextIInv, PTL DEF Spec

\* Every variable keeps its type; for the index of the next record that is a
\* fact about the mask, whatever the size of the pool.
THEOREM TypeCorrect == Spec => []TypeOK
<1>1. IInv => TypeOK
  BY DEF IInv
<1> QED
  BY Invariance, <1>1, PTL

\* No transfer is ever lost or in two places.
THEOREM TransfersConserved == Spec => []Conservation
<1>1. IInv => Conservation
  BY DEF IInv
<1> QED
  BY Invariance, <1>1, PTL

\* The controller never works on a transfer the software has taken back.
THEOREM ControllerOwnsActive == Spec => []HardwareOwnsActive
<1>1. IInv => HardwareOwnsActive
  BY DEF IInv
<1> QED
  BY Invariance, <1>1, PTL

\* Main never demodulates into a record that is queued for transmission.
THEOREM RecordsStable == Spec => []BufferStable
<1>1. IInv => BufferStable
  BY DEF IInv, Ownership, BufferStable, Busy
<1> QED
  BY Invariance, <1>1, PTL
-----------------------------------------------------------------------------
(* PacketPath implements PacketPipe *)

PipeProofs == INSTANCE PacketPipeProofs WITH accepted <- packets, pending <- Pending

Number(t) == demod_bytes[td[t].info]

InHand == pc \in {"allocate", "enqueue"}

\* The controller's list is in the order of the packets' numbers, and the packet
\* main has in hand is the newest.
Numbered ==
  /\ \A i, j \in DOMAIN endpoint.primed :
       i < j => Number(endpoint.primed[i]) < Number(endpoint.primed[j])
  /\ \A t \in Elements(endpoint.primed) : Number(t) <= packets
  /\ InHand => /\ demod_bytes[demod_info_idx] = packets
               /\ \A t \in Elements(endpoint.primed) : Number(t) < packets

PathInv == IInv /\ Numbered
-----------------------------------------------------------------------------
(* What the steps have in common *)

\* A primed transfer has a record of its own, and main does not work with it.
LEMMA PrimedRecords ==
  ASSUME IInv
  PROVE  \A t \in Elements(endpoint.primed) :
           /\ t \in Transfers /\ t \in Elements(active)
           /\ td[t].info \in Infos /\ is_used[td[t].info] = 1
           /\ pc \in Busy => td[t].info # demod_info_idx
<1>1. \A t \in Elements(endpoint.primed) : t \in Elements(active) /\ t \in Transfers
  BY PrimedActive, ElementsType DEF IInv, TypeOK
<1> QED
  BY <1>1 DEF IInv, Ownership, TypeOK

\* A step that leaves the numbers of the primed packets alone, and main's work on
\* the packet it has in hand, is no step of the pipe.
LEMMA KeepStep ==
  ASSUME IInv, Numbered, endpoint'.primed = endpoint.primed, packets' = packets,
         \A t \in Elements(endpoint.primed) : Number(t)' = Number(t),
         InHand' <=> InHand,
         InHand => demod_bytes'[demod_info_idx'] = demod_bytes[demod_info_idx]
  PROVE  Numbered' /\ Pending' = Pending
<1>1. Elements(endpoint'.primed) = Elements(endpoint.primed)
  BY DEF Elements
<1>2. \A i \in DOMAIN endpoint.primed : endpoint.primed[i] \in Elements(endpoint.primed)
  BY DEF Elements
<1>3. Numbered'
  BY <1>1, <1>2 DEF Numbered, Elements
<1>4. Pending' = Pending
  BY <1>1 DEF Pending, Number, InHand, Elements
<1> QED
  BY <1>3, <1>4

\* A flush discards what is primed and leaves the packet main has in hand.
LEMMA DropStep ==
  ASSUME IInv, Numbered, endpoint'.primed = <<>>, requests' = requests + 1,
         UNCHANGED <<packets, delivered, demod_bytes, demod_info_idx, pc>>
  PROVE  Numbered' /\ Pipe!Request
<1>1. Elements(endpoint'.primed) = {} /\ DOMAIN endpoint'.primed = {}
  BY EmptyElements DEF Elements
<1>2. Numbered'
  BY <1>1 DEF Numbered, InHand, Elements
<1>3. Pending' = IF InHand THEN {demod_bytes[demod_info_idx]} ELSE {}
  BY <1>1 DEF Pending, InHand, Elements
<1>4. Pending = {Number(t) : t \in Elements(endpoint.primed)}
                \cup (IF InHand THEN {demod_bytes[demod_info_idx]} ELSE {})
  BY DEF Pending, Number, InHand
<1>5. \A n \in Pending', m \in Pending \ Pending' : m < n
  <2> SUFFICES ASSUME NEW n \in Pending', NEW m \in Pending \ Pending' PROVE m < n
    OBVIOUS
  <2>1. InHand /\ n = packets
    BY <1>3 DEF Numbered
  <2>2. PICK t \in Elements(endpoint.primed) : m = Number(t)
    BY <1>3, <1>4, <2>1
  <2> QED
    BY <2>1, <2>2 DEF Numbered
<1>6. Pending' \subseteq Pending
  BY <1>3, <1>4
<1>7. Pipe!Request
  BY <1>5, <1>6 DEF Pipe!Request
<1> QED
  BY <1>2, <1>7
-----------------------------------------------------------------------------
(* The steps that move a packet *)

\* The record main waited for holds no packet under way.
LEMMA WaitKeeps ==
  ASSUME PathInv, MainWait
  PROVE  Numbered' /\ Pending' = Pending
<1>1. /\ pc = "wait" /\ pc' = "demod" /\ is_used[demod_info_idx] = 0
      /\ demod_bytes' = [demod_bytes EXCEPT ![demod_info_idx] = 0]
      /\ UNCHANGED <<td, endpoint, packets>>
  BY DEF MainWait, MainAt, queue, ghosts
<1>2. \A t \in Elements(endpoint.primed) : td[t].info \in Infos /\ td[t].info # demod_info_idx
  BY <1>1, PrimedRecords DEF PathInv
<1>3. \A t \in Elements(endpoint.primed) : Number(t)' = Number(t)
  BY <1>1, <1>2 DEF Number, PathInv, IInv, TypeOK
<1>4. ~InHand /\ ~InHand'
  BY <1>1 DEF InHand
<1> QED
  BY <1>1, <1>3, <1>4, KeepStep DEF PathInv

LEMMA PacketAccepted ==
  ASSUME PathInv, MainPacket
  PROVE  Numbered' /\ Pipe!Accept
<1>1. /\ pc = "demod" /\ pc' = "allocate" /\ packets' = packets + 1
      /\ demod_bytes' = [demod_bytes EXCEPT ![demod_info_idx] = packets + 1]
      /\ UNCHANGED <<td, endpoint, demod_info_idx, delivered, requests>>
  BY DEF MainPacket, MainAt, queue
<1>2. /\ packets \in Nat /\ demod_bytes'[demod_info_idx] = packets + 1
      /\ ~InHand /\ InHand'
  BY <1>1 DEF PathInv, IInv, TypeOK, InHand
<1>3. \A t \in Elements(endpoint.primed) : td[t].info \in Infos /\ td[t].info # demod_info_idx
  BY <1>1, PrimedRecords DEF PathInv, Busy
<1>4. \A t \in Elements(endpoint.primed) : Number(t)' = Number(t) /\ Number(t) \in Nat
  BY <1>1, <1>3 DEF Number, PathInv, IInv, TypeOK
<1>5. Numbered'
  <2>1. \A t \in Elements(endpoint.primed) : Number(t)' < packets'
    BY <1>1, <1>2, <1>4 DEF PathInv, Numbered
  <2>2. \A i \in DOMAIN endpoint.primed : endpoint.primed[i] \in Elements(endpoint.primed)
    BY DEF Elements
  <2>3. \A i, j \in DOMAIN endpoint'.primed :
          i < j => Number(endpoint.primed[i])' < Number(endpoint.primed[j])'
    <3>1. \A i \in DOMAIN endpoint'.primed :
            i \in DOMAIN endpoint.primed
            /\ Number(endpoint.primed[i])' = Number(endpoint.primed[i])
      BY <1>1, <1>4, <2>2 DEF Number
    <3> QED
      BY <3>1 DEF PathInv, Numbered
  <2>4. \A t \in Elements(endpoint.primed) : Number(t)' <= packets'
    BY <1>1, <1>2, <2>1, <1>4
  <2> QED
    BY <1>1, <1>2, <2>1, <2>3, <2>4 DEF Numbered, Elements
<1>6. Pending' = Pending \cup {packets + 1}
  <2>1. Pending = {Number(t) : t \in Elements(endpoint.primed)}
    BY <1>2 DEF Pending, InHand, Number
  <2>2. Pending' = {Number(t)' : t \in Elements(endpoint.primed)} \cup {packets + 1}
    BY <1>1, <1>2 DEF Pending, InHand, Number, Elements
  <2> QED
    BY <1>4, <2>1, <2>2
<1> QED
  BY <1>1, <1>5, <1>6 DEF Pipe!Accept

\* A transfer that is free is not primed.
LEMMA AllocateKeeps ==
  ASSUME PathInv, MainAllocate
  PROVE  Numbered' /\ Pending' = Pending
<1>1. PICK t \in free_transfers :
        td' = [td EXCEPT ![t] = [status |-> "active", info |-> demod_info_idx]]
  BY DEF MainAllocate
<1>2. /\ pc = "allocate" /\ pc' = "enqueue"
      /\ UNCHANGED <<demod_bytes, demod_info_idx, endpoint, packets>>
  BY DEF MainAllocate, MainAt, pool, ghosts
<1>3. t \notin Elements(active)
  BY NoRepeatConservation DEF PathInv, IInv
<1>4. \A u \in Elements(endpoint.primed) : td'[u] = td[u]
  BY <1>1, <1>3, PrimedRecords DEF PathInv, IInv, TypeOK
<1>5. \A u \in Elements(endpoint.primed) : Number(u)' = Number(u)
  BY <1>2, <1>4 DEF Number
<1>6. InHand /\ InHand'
  BY <1>2 DEF InHand
<1> QED
  BY <1>2, <1>5, <1>6, KeepStep DEF PathInv

\* The packet main had in hand is primed behind all the others.
LEMMA EnqueueKeeps ==
  ASSUME PathInv, MainEnqueue
  PROVE  Numbered' /\ Pending' = Pending
<1> DEFINE s == endpoint.primed
<1>1. /\ pc = "enqueue" /\ pc' = "loop" /\ endpoint'.primed = Append(s, held)
      /\ UNCHANGED <<demod_bytes, td, packets>>
  BY DEF MainEnqueue, MainAt, PathInv, IInv, TypeOK, ghosts
<1>2. held \in Transfers /\ td[held].info = demod_info_idx /\ s \in Seq(Transfers)
  BY <1>1, NoRepeatConservation DEF PathInv, IInv, TypeOK, Ownership
<1>3. InHand /\ ~InHand'
  BY <1>1 DEF InHand
<1>4. Number(held) = packets /\ \A t \in Elements(s) : Number(t) < packets
  BY <1>2, <1>3 DEF PathInv, Numbered, Number
<1>5. \A t : Number(t)' = Number(t)
  BY <1>1 DEF Number
<1>6. Len(s) \in Nat /\ DOMAIN s = 1 .. Len(s)
  BY <1>2, LenProperties
<1>7. /\ DOMAIN endpoint'.primed = 1 .. Len(s) + 1
      /\ \A i \in 1 .. Len(s) : endpoint'.primed[i] = s[i]
      /\ endpoint'.primed[Len(s) + 1] = held
  BY <1>1, <1>2, <1>6, AppendProperties
<1>8. Elements(endpoint'.primed) = Elements(s) \cup {held}
  BY <1>1, <1>2, AppendElements
<1>9. \A i, j \in DOMAIN endpoint'.primed :
        i < j => Number(endpoint'.primed[i]) < Number(endpoint'.primed[j])
  <2> SUFFICES ASSUME NEW i \in 1 .. Len(s) + 1, NEW j \in 1 .. Len(s) + 1, i < j
               PROVE  Number(endpoint'.primed[i]) < Number(endpoint'.primed[j])
    BY <1>7
  <2>1. i \in 1 .. Len(s) /\ endpoint'.primed[i] = s[i] /\ s[i] \in Elements(s)
    BY <1>6, <1>7 DEF Elements
  <2>2. CASE j \in 1 .. Len(s)
    BY <1>6, <1>7, <2>1, <2>2 DEF PathInv, Numbered
  <2>3. CASE j = Len(s) + 1
    BY <1>4, <1>7, <2>1, <2>3
  <2> QED
    BY <1>6, <2>2, <2>3
<1>10. packets \in Nat
  BY DEF PathInv, IInv, TypeOK
<1>11. Numbered'
  <2>1. \A t \in Elements(endpoint'.primed) : Number(t) <= packets
    BY <1>4, <1>8, <1>10 DEF PathInv, Numbered
  <2> QED
    BY <1>1, <1>3, <1>5, <1>9, <2>1 DEF Numbered, Elements
<1>12. Pending' = Pending
  <2>1. Pending = {Number(t) : t \in Elements(s)} \cup {packets}
    BY <1>3 DEF Pending, InHand, Number, PathInv, Numbered
  <2>2. Pending' = {Number(t) : t \in Elements(s) \cup {held}}
    BY <1>1, <1>3, <1>8 DEF Pending, InHand, Number, Elements
  <2> QED
    BY <1>4, <2>1, <2>2
<1> QED
  BY <1>11, <1>12

\* The controller sends the oldest packet under way.
LEMMA TransmitDelivers ==
  ASSUME PathInv, Transmit
  PROVE  Numbered' /\ Pipe!Deliver
<1> DEFINE s == endpoint.primed
           t == Head(s)
<1>1. /\ s # <<>> /\ endpoint'.primed = Tail(s)
      /\ td' = [td EXCEPT ![t].status = "done"]
      /\ delivered' = Append(delivered, Number(t))
      /\ UNCHANGED <<demod_bytes, demod_info_idx, pc, packets, requests>>
  BY DEF Transmit, PathInv, IInv, TypeOK, pool, Number
<1>2. s \in Seq(Transfers) /\ Len(s) \in Nat \ {0} /\ DOMAIN s = 1 .. Len(s)
  BY <1>1, LenProperties, EmptySeq DEF PathInv, IInv, TypeOK
<1>3. /\ t \in Transfers /\ t = s[1] /\ DOMAIN Tail(s) = 1 .. Len(s) - 1
      /\ \A i \in 1 .. Len(s) - 1 : Tail(s)[i] = s[i + 1]
  BY <1>1, <1>2, HeadTailProperties, LenProperties
<1>4. Elements(s) = {t} \cup Elements(Tail(s))
  BY <1>1, <1>2, TailElements
<1>5. \A u \in Transfers : td'[u].info = td[u].info
  BY <1>1, <1>3 DEF PathInv, IInv, TypeOK
<1>6. \A u \in Elements(s) : Number(u)' = Number(u) /\ Number(u) \in Nat
  BY <1>1, <1>5, PrimedRecords DEF Number, PathInv, IInv, TypeOK
<1>7. \A u \in Elements(Tail(s)) : Number(t) < Number(u)
  <2> SUFFICES ASSUME NEW i \in 1 .. Len(s) - 1 PROVE Number(t) < Number(s[i + 1])
    BY <1>3 DEF Elements
  <2> QED
    BY <1>2, <1>3 DEF PathInv, Numbered
<1>8. Numbered'
  <2>1. \A i \in DOMAIN Tail(s) : Tail(s)[i] \in Elements(s)
    BY <1>4 DEF Elements
  <2>2. \A i, j \in DOMAIN Tail(s) : i < j => Number(Tail(s)[i]) < Number(Tail(s)[j])
    <3> SUFFICES ASSUME NEW i \in 1 .. Len(s) - 1, NEW j \in 1 .. Len(s) - 1, i < j
                 PROVE  Number(s[i + 1]) < Number(s[j + 1])
      BY <1>3
    <3>1. i + 1 \in DOMAIN s /\ j + 1 \in DOMAIN s /\ i + 1 < j + 1
      BY <1>2
    <3> QED
      BY <3>1 DEF PathInv, Numbered
  <2>3. \A i, j \in DOMAIN endpoint'.primed :
          i < j => Number(endpoint.primed[i])' < Number(endpoint.primed[j])'
    <3>1. \A i \in DOMAIN endpoint'.primed :
            i \in DOMAIN Tail(s) /\ Number(endpoint.primed[i])' = Number(Tail(s)[i])
      BY <1>1, <1>6, <2>1 DEF Number
    <3> QED
      BY <1>1, <2>2, <3>1
  <2>4. \A u \in Elements(Tail(s)) : Number(u)' <= packets
    BY <1>4, <1>6 DEF PathInv, Numbered
  <2>5. InHand => demod_bytes[demod_info_idx] = packets
                  /\ \A u \in Elements(Tail(s)) : Number(u)' < packets
    BY <1>4, <1>6 DEF PathInv, Numbered
  <2> QED
    <3>1. Elements(endpoint'.primed) = Elements(Tail(s)) /\ (InHand' <=> InHand)
      BY <1>1 DEF Elements, InHand
    <3> QED
      BY <1>1, <2>3, <2>4, <2>5, <3>1 DEF Numbered
<1> DEFINE hand == IF InHand THEN {packets} ELSE {}
<1>9. Pending = {Number(u) : u \in Elements(s)} \cup hand
  BY DEF Pending, InHand, Number, PathInv, Numbered
<1>10. Pending' = {Number(u) : u \in Elements(Tail(s))} \cup hand
  <2>1. Pending' = {Number(u)' : u \in Elements(Tail(s))} \cup hand
    BY <1>1 DEF Pending, InHand, Number, PathInv, Numbered, Elements
  <2> QED
    BY <1>4, <1>6, <2>1
<1>11. \A n \in hand : Number(t) < n
  BY <1>4 DEF PathInv, Numbered
<1> HIDE DEF hand, t
<1>12. Number(t) \in Pending /\ Pending' = Pending \ {Number(t)}
  BY <1>4, <1>6, <1>7, <1>9, <1>10, <1>11
<1>13. \A m \in Pending : Number(t) <= m
  <2>1. \A u \in Elements(s) : Number(t) <= Number(u)
    <3>1. \A u \in Elements(s) : u = t \/ u \in Elements(Tail(s))
      BY <1>4
    <3>2. t \in Elements(s)
      BY <1>4
    <3> QED
      BY <1>6, <1>7, <3>1, <3>2
  <2>2. \A n \in hand : Number(t) <= n
    <3>1. packets \in Nat /\ hand \subseteq {packets} /\ Number(t) \in Nat
      BY <1>4, <1>6 DEF hand, PathInv, IInv, TypeOK
    <3> QED
      BY <1>11, <3>1
  <2> QED
    BY <1>9, <2>1, <2>2
<1> QED
  BY <1>1, <1>8, <1>12, <1>13 DEF Pipe!Deliver, Pipe!Oldest
-----------------------------------------------------------------------------
(* Every step is a step of the pipe, or none *)

LEMMA InitPath == Init => PathInv /\ Pipe!Init
<1> SUFFICES ASSUME Init PROVE Numbered /\ Pipe!Init
  BY InitIInv DEF PathInv
<1>1. Elements(endpoint.primed) = {} /\ DOMAIN endpoint.primed = {} /\ ~InHand
  BY EmptyElements DEF Init, InHand, Elements
<1>2. Pending = {}
  BY <1>1 DEF Pending, InHand
<1> QED
  BY <1>1, <1>2 DEF Init, Numbered, Pipe!Init

\* The steps that neither accept, deliver nor discard.
LEMMA QuietSteps ==
  ASSUME PathInv,
         \/ SgpioIsr \/ MainLoop \/ MainSpin \/ MainNoPacket \/ CompleteInterrupt
         \/ Retire \/ CompleteReturn \/ SetConfiguration \/ UNCHANGED vars
  PROVE  Numbered' /\ Pending' = Pending
<1> USE DEF radio, pool, queue, ghosts, MainAt, InHand
<1>1. /\ UNCHANGED <<demod_bytes, demod_info_idx, td, packets>>
      /\ InHand' <=> InHand
  BY DEF SgpioIsr, MainLoop, MainSpin, MainNoPacket, CompleteInterrupt, Retire,
         CompleteReturn, SetConfiguration, Request, vars
<1>2. endpoint'.primed = endpoint.primed
  BY DEF SgpioIsr, MainLoop, MainSpin, MainNoPacket, CompleteInterrupt, Retire,
         CompleteReturn, SetConfiguration, vars, PathInv, IInv, TypeOK
<1>3. \A t \in Elements(endpoint.primed) : Number(t)' = Number(t)
  BY <1>1 DEF Number
<1> QED
  BY <1>1, <1>2, <1>3, KeepStep DEF PathInv

LEMMA NextPath == PathInv /\ [Next]_vars => PathInv' /\ [Pipe!Next]_(Pipe!vars)
<1> SUFFICES ASSUME PathInv, [Next]_vars PROVE Numbered' /\ [Pipe!Next]_(Pipe!vars)
  BY NextIInv DEF PathInv
<1> USE DEF Pipe!Next, Pipe!vars
<1>1. CASE \/ SgpioIsr \/ MainLoop \/ MainSpin \/ MainNoPacket \/ CompleteInterrupt
           \/ Retire \/ CompleteReturn \/ UNCHANGED vars
  <2>1. UNCHANGED <<packets, delivered, requests>>
    BY <1>1 DEF SgpioIsr, MainLoop, MainSpin, MainNoPacket, CompleteInterrupt, Retire,
                CompleteReturn, vars, ghosts
  <2> QED
    BY <1>1, <2>1, QuietSteps
<1>2. CASE MainWait
  BY <1>2, WaitKeeps DEF MainWait, ghosts
<1>3. CASE MainPacket
  BY <1>3, PacketAccepted
<1>4. CASE MainAllocate
  BY <1>4, AllocateKeeps DEF MainAllocate, ghosts
<1>5. CASE MainEnqueue
  BY <1>5, EnqueueKeeps DEF MainEnqueue, ghosts
<1>6. CASE Transmit
  BY <1>6, TransmitDelivers
<1>7. CASE ModeOn \/ ModeOff \/ BusReset
  <2>1. endpoint'.primed = <<>> /\ requests' = requests + 1
    BY <1>7 DEF ModeOn, ModeOff, BusReset, Request, FlushEndpoint
  <2>2. UNCHANGED <<packets, delivered, demod_bytes, demod_info_idx, pc>>
    BY <1>7 DEF ModeOn, ModeOff, BusReset, Request, pool, ghosts
  <2> QED
    BY <2>1, <2>2, DropStep DEF PathInv
<1>8. CASE SetConfiguration
  <2>1. requests' = requests + 1 /\ UNCHANGED <<packets, delivered>>
    BY <1>8 DEF SetConfiguration, Request, ghosts
  <2>2. Numbered' /\ Pending' = Pending
    BY <1>8, QuietSteps
  <2> QED
    BY <2>1, <2>2 DEF Pipe!Request
<1> QED
  BY <1>1, <1>2, <1>3, <1>4, <1>5, <1>6, <1>7, <1>8 DEF Next, Main, UsbIsr, Requests

\* The pool, the queue and the controller implement the pipe.
THEOREM PathImplementsPipe == Spec => ImplementsPipe
BY InitPath, NextPath, PTL DEF Spec, ImplementsPipe, Pipe!Spec

\* So the host receives packets in the order they were demodulated, each at most
\* once, whatever requests do in between.
THEOREM PathInOrder == Spec => []DeliveredInOrder
<1>1. Spec => PipeProofs!Spec
  BY InitPath, NextPath, PTL DEF Spec, Pipe!Init, Pipe!Next, Pipe!vars, Pipe!Accept,
     Pipe!Deliver, Pipe!Oldest, Pipe!Request, PipeProofs!Spec, PipeProofs!Init,
     PipeProofs!Next, PipeProofs!vars, PipeProofs!Accept, PipeProofs!Deliver,
     PipeProofs!Oldest, PipeProofs!Request
<1>2. PipeProofs!InOrder => DeliveredInOrder
  BY DEF PipeProofs!InOrder, DeliveredInOrder
<1> QED
  BY <1>1, <1>2, PipeProofs!PipeInOrder, PTL
============================================================================
