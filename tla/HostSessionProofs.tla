------------------------- MODULE HostSessionProofs -------------------------
(***************************************************************************)
(* Proofs about HostSession for every size of the ring and any number of   *)
(* packets: callback and cycler share the ring without a lock, and still   *)
(* hand over whole packets, in order.                                      *)
(***************************************************************************)
EXTENDS HostSession, SequenceTheorems, TLAPS

\* The positions whose packets wait in the ring: all between the counters, but
\* for the one the cycler has emptied and not yet counted.
Live == {q \in packet_cnt_read .. packet_cnt_write - 1 :
           cycler_pc = "advance" => q # packet_cnt_read}

At(q) == packet_buffer[q % PACKETS_CNT]

InTransfer == transfer_pc \in {"full", "slot", "store", "count"}

\* The number of a packet that arrived before the one in the transfer.
Earlier(n) == 0 < n /\ n <= arrived /\ (InTransfer => n < arrived)

\* The live positions are in different slots, and what waits, what the cycler has
\* copied and what it has printed are in the order of arrival.
RingInv ==
  /\ cycler_pc \in {"take", "clear", "advance"} => packet_cnt_read < packet_cnt_write
  /\ InTransfer => arrived > 0
  /\ \A q \in Live :
       /\ packet_cnt_write - q <= PACKETS_CNT
       /\ transfer_pc = "count" => packet_cnt_write - q < PACKETS_CNT
       /\ Earlier(At(q))
  /\ \A p, q \in Live : p < q => At(p) < At(q)
  /\ transfer_pc = "store" => At(packet_cnt_write) = 0
  /\ transfer_pc = "count" => At(packet_cnt_write) = arrived
  /\ cycler_pc = "clear" => At(packet_cnt_read) = packet
  /\ cycler_pc = "advance" =>
       /\ Earlier(packet) /\ \A q \in Live : packet < At(q)
       /\ \A i \in DOMAIN printed : printed[i] < packet
  /\ \A i \in DOMAIN printed : Earlier(printed[i]) /\ \A q \in Live : printed[i] < At(q)
  /\ \A i, j \in DOMAIN printed : i < j => printed[i] < printed[j]

IInv == TypeOK /\ RingInv
-----------------------------------------------------------------------------
(* Positions and slots *)

LEMMA SlotOf == \A q \in Nat : q % PACKETS_CNT \in Slots
BY HostAssumption DEF Slots

\* Two positions less than a ring apart are in different slots.
LEMMA DifferentSlots ==
  ASSUME NEW p \in Nat, NEW q \in Nat, p < q, q - p < PACKETS_CNT
  PROVE  p % PACKETS_CNT # q % PACKETS_CNT
<1> DEFINE N == PACKETS_CNT
           a == p \div N
           b == q \div N
           x == p % N
<1>1. N \in Nat \ {0}
  BY HostAssumption
<1>2. a \in Nat /\ x \in Nat /\ p = N * a + x
  BY <1>1
<1>3. b \in Nat /\ q = N * b + (q % N)
  BY <1>1
<1> SUFFICES ASSUME q % N = x PROVE FALSE
  OBVIOUS
<1> HIDE DEF N, a, b, x
<1> DEFINE d == b - a
<1>4. d \in Int /\ q - p = N * d
  BY <1>1, <1>2, <1>3
<1>5. (d >= 1 => N * d >= N) /\ (d <= 0 => N * d <= 0) /\ N * d \in Int
  BY <1>1, <1>4
<1>6. q - p < N
  BY DEF N
<1> HIDE DEF d
<1> DEFINE Nd == N * d
<1>7. d \in Int /\ q - p = Nd /\ (d >= 1 => Nd >= N) /\ (d <= 0 => Nd <= 0) /\ Nd \in Int
  BY <1>4, <1>5
<1> HIDE DEF Nd
<1> QED
  BY <1>1, <1>6, <1>7

\* Two positions a whole ring apart share a slot.
LEMMA SameSlot ==
  ASSUME NEW p \in Nat
  PROVE  (p + PACKETS_CNT) % PACKETS_CNT = p % PACKETS_CNT
<1> DEFINE N == PACKETS_CNT
           q == p + N
           a == p \div N
           b == q \div N
           x == p % N
           y == q % N
           d == b - a
           Nd == N * d
<1>1. N \in Nat \ {0}
  BY HostAssumption
<1>2. a \in Nat /\ x \in 0 .. N - 1 /\ p = N * a + x
  BY <1>1
<1>3. b \in Nat /\ y \in 0 .. N - 1 /\ q = N * b + y
  BY <1>1
<1> HIDE DEF a, b, x, y
<1>4. d \in Int /\ N = Nd + (y - x)
  BY <1>1, <1>2, <1>3
<1>5. /\ (d >= 2 => Nd >= 2 * N) /\ (d <= 0 => Nd <= 0) /\ (d = 1 => Nd = N)
      /\ Nd \in Int
  BY <1>1, <1>4
<1> HIDE DEF d, Nd, N
<1>6. y = x
  BY <1>1, <1>2, <1>3, <1>4, <1>5
<1> QED
  BY <1>6 DEF x, y, N

LEMMA LiveFacts ==
  ASSUME IInv
  PROVE  /\ \A q \in Live : /\ q \in Nat /\ packet_cnt_read <= q /\ q < packet_cnt_write
                            /\ At(q) \in Nat
         /\ At(packet_cnt_read) \in Nat /\ At(packet_cnt_write) \in Nat
BY SlotOf DEF IInv, TypeOK, Live, At
-----------------------------------------------------------------------------
(* Type correctness of a step *)

LEMMA TransferTypes == IInv /\ (Arrive \/ TransferEnd \/ Callback) => TypeOK'
<1> SUFFICES ASSUME IInv, Arrive \/ TransferEnd \/ Callback PROVE TypeOK'
  OBVIOUS
<1> USE DEF IInv, TypeOK, ring, flags, cycler, Transfer
<1>1. CASE Arrive
  BY <1>1 DEF Arrive
<1>2. CASE TransferEnd
  BY <1>2 DEF TransferEnd
<1>3. CASE CallbackFull
  BY <1>3 DEF CallbackFull
<1>4. CASE CallbackSlot
  BY <1>4 DEF CallbackSlot
<1>5. CASE CallbackStore
  BY <1>5 DEF CallbackStore
<1>6. CASE Publish
  <2>1. UNCHANGED <<packet_buffer, packet_cnt_read, arrived, flags, request_exit, cycler, main_pc>>
    BY <1>6 DEF Publish
  <2>2. packet_cnt_write' \in {packet_cnt_write, packet_cnt_write + 1}
    BY <1>6 DEF Publish
  <2>3. lock_packet_read' \in BOOLEAN /\ transfer_pc' \in {"unlock", "events"}
    BY <1>6 DEF Publish
  <2> QED
    BY <2>1, <2>2, <2>3
<1> QED
  BY <1>1, <1>2, <1>3, <1>4, <1>5, <1>6 DEF Callback

LEMMA CyclerTypes == IInv /\ PacketCycler => TypeOK'
<1> SUFFICES ASSUME IInv, PacketCycler PROVE TypeOK'
  OBVIOUS
<1> USE DEF IInv, TypeOK, ring, Cycler
<1>0. CASE Cycle \/ Get \/ Wait
  <2>1. UNCHANGED <<ring, lock_packet_read, is_running, packet, printed, do_exit,
                    request_exit, arrived, transfer_pc, main_pc>>
    BY <1>0 DEF Cycle, Get, Wait
  <2>2. cycler_pc' \in {"get", "ended", "cycle", "wait", "lock", "take"}
    BY <1>0 DEF Cycle, Get, Wait
  <2> QED
    BY <2>1, <2>2
<1>1. CASE Lock
  BY <1>1 DEF Lock
<1>2. CASE Woken
  BY <1>2 DEF Woken
<1>3. CASE Take
  <2>1. packet_cnt_read < packet_cnt_write
    BY <1>3 DEF Take, RingInv
  <2>2. packet_buffer[Read] \in Nat
    BY SlotOf DEF Read
  <2> QED
    BY <1>3, <2>1, <2>2 DEF Take
<1>4. CASE Clear
  BY <1>4 DEF Clear
<1>5. CASE Advance
  <2>1. packet_cnt_read < packet_cnt_write
    BY <1>5 DEF Advance, RingInv
  <2>2. printed' \in Seq(Nat)
    BY <1>5, AppendProperties DEF Advance
  <2> QED
    BY <1>5, <2>1, <2>2 DEF Advance
<1> QED
  BY <1>0, <1>1, <1>2, <1>3, <1>4, <1>5 DEF PacketCycler

LEMMA MainTypes == IInv /\ (MainThread \/ Enter \/ Key \/ Signal) => TypeOK'
<1> SUFFICES ASSUME IInv, MainThread \/ Enter \/ Key \/ Signal PROVE TypeOK'
  OBVIOUS
<1> USE DEF IInv, TypeOK, ring, cycler, Main
<1>1. CASE MainLoop \/ StopRunning \/ Unlock
  <2>1. UNCHANGED <<ring, do_exit, request_exit, arrived, transfer_pc, cycler>>
    BY <1>1 DEF MainLoop, StopRunning, Unlock
  <2>2. main_pc' \in {"input", "stop", "unlock", "join"}
    BY <1>1 DEF MainLoop, StopRunning, Unlock
  <2>3. is_running' \in BOOLEAN /\ lock_packet_read' \in BOOLEAN
    BY <1>1, Zenon DEF MainLoop, StopRunning, Unlock
  <2> QED
    BY <2>1, <2>2, <2>3
<1>2. CASE Join \/ Kill \/ Close
  BY <1>2 DEF Join, Kill, Close
<1>3. CASE Enter \/ Key
  BY ZenonT(40), <1>3 DEF Enter, Key
<1>4. CASE Signal
  BY <1>4 DEF Signal
<1> QED
  BY <1>1, <1>2, <1>3, <1>4 DEF MainThread
-----------------------------------------------------------------------------
(* Each step keeps the ring in order *)

\* A step that moves no packet and no counter.
LEMMA QuietStep ==
  ASSUME IInv, UNCHANGED <<ring, arrived, packet, printed>>, InTransfer' => InTransfer,
         transfer_pc' \in {"store", "count"} => transfer_pc' = transfer_pc,
         cycler_pc' = "advance" <=> cycler_pc = "advance",
         cycler_pc' = "take" => packet_cnt_read < packet_cnt_write,
         cycler_pc' = "clear" => cycler_pc = "clear"
  PROVE  RingInv'
<1>1. UNCHANGED <<packet_buffer, packet_cnt_write, packet_cnt_read, arrived, packet, printed>>
  BY DEF ring
<1>2. Live' = Live /\ \A q : At(q)' = At(q)
  BY <1>1 DEF Live, At
<1>3. \A n : Earlier(n) => Earlier(n)'
  BY <1>1 DEF Earlier
<1> QED
  BY <1>1, <1>2, <1>3 DEF IInv, RingInv

LEMMA ArriveStep == IInv /\ Arrive => RingInv'
<1> SUFFICES ASSUME IInv, Arrive PROVE RingInv'
  OBVIOUS
<1>1. /\ transfer_pc' = "full" /\ arrived' = arrived + 1
      /\ UNCHANGED <<packet_buffer, packet_cnt_write, packet_cnt_read, cycler_pc, packet,
                     printed>>
  BY DEF Arrive, Transfer, ring, cycler
<1>2. Live' = Live /\ \A q : At(q)' = At(q)
  BY <1>1 DEF Live, At
<1>4. InTransfer' /\ arrived' > 0
  BY <1>1 DEF InTransfer, IInv, TypeOK
<1>5. /\ \A q \in Live : At(q) \in Nat
      /\ packet \in Nat /\ \A i \in DOMAIN printed : printed[i] \in Nat
  BY LiveFacts, LenProperties, ElementOfSeq DEF IInv, TypeOK
<1>6. /\ \A q \in Live : packet_cnt_write - q <= PACKETS_CNT /\ Earlier(At(q))'
      /\ cycler_pc = "advance" => Earlier(packet)'
      /\ \A i \in DOMAIN printed : Earlier(printed[i])'
  BY <1>1, <1>2, <1>5 DEF IInv, RingInv, Earlier, TypeOK
<1> QED
  BY <1>1, <1>2, <1>4, <1>6 DEF IInv, RingInv

\* The slot the callback has found empty is that of no live position.
LEMMA EmptySlot ==
  ASSUME IInv, transfer_pc = "store"
  PROVE  \A q \in Live : /\ packet_cnt_write - q < PACKETS_CNT
                         /\ q % PACKETS_CNT # packet_cnt_write % PACKETS_CNT
<1> SUFFICES ASSUME NEW q \in Live
             PROVE  /\ packet_cnt_write - q < PACKETS_CNT
                    /\ q % PACKETS_CNT # packet_cnt_write % PACKETS_CNT
  OBVIOUS
<1>1. At(q) > 0 /\ At(packet_cnt_write) = 0
  BY DEF IInv, RingInv, Earlier
<1>2. q % PACKETS_CNT # packet_cnt_write % PACKETS_CNT
  BY <1>1 DEF At
<1>3. /\ packet_cnt_write - q <= PACKETS_CNT /\ q \in Nat /\ packet_cnt_write \in Nat
      /\ q < packet_cnt_write /\ PACKETS_CNT \in Nat \ {0}
  BY LiveFacts, HostAssumption DEF IInv, RingInv, TypeOK
<1>4. packet_cnt_write - q # PACKETS_CNT
  <2> SUFFICES ASSUME packet_cnt_write = q + PACKETS_CNT PROVE FALSE
    BY <1>3
  <2> QED
    BY <1>2, <1>3, SameSlot
<1> QED
  BY <1>2, <1>3, <1>4

LEMMA StoreStep == IInv /\ CallbackStore => RingInv'
<1> SUFFICES ASSUME IInv, CallbackStore PROVE RingInv'
  OBVIOUS
<1>1. /\ transfer_pc = "store" /\ transfer_pc' = "count"
      /\ packet_buffer' = [packet_buffer EXCEPT ![Slot] = arrived]
      /\ UNCHANGED <<packet_cnt_write, packet_cnt_read, arrived, cycler_pc, packet, printed>>
  BY DEF CallbackStore, Transfer, cycler
<1>2. Slot \in Slots /\ Slot = packet_cnt_write % PACKETS_CNT
  BY SlotOf DEF Slot, IInv, TypeOK
<1>3. Live' = Live /\ InTransfer /\ InTransfer'
  BY <1>1 DEF Live, InTransfer
<1>4. \A q \in Live : At(q)' = At(q) /\ packet_cnt_write - q < PACKETS_CNT
  <2>1. \A q \in Live : q % PACKETS_CNT # Slot
    BY <1>1, <1>2, EmptySlot
  <2> QED
    BY <1>1, <1>2, <2>1, EmptySlot DEF At, IInv, TypeOK
<1>5. At(packet_cnt_write)' = arrived
  BY <1>1, <1>2 DEF At, IInv, TypeOK
<1>6. cycler_pc = "clear" => packet_cnt_read \in Live
  BY DEF Live, IInv, RingInv, TypeOK
<1>7. \A n : Earlier(n) <=> Earlier(n)'
  BY <1>1, <1>3 DEF Earlier
<1>8. \A q \in Live' : /\ packet_cnt_write' - q <= PACKETS_CNT
                       /\ packet_cnt_write' - q < PACKETS_CNT /\ Earlier(At(q))'
  BY <1>1, <1>3, <1>4, <1>7 DEF IInv, RingInv
<1>9. \A p, q \in Live' : p < q => At(p)' < At(q)'
  BY <1>3, <1>4 DEF IInv, RingInv
<1>10. cycler_pc' = "clear" => At(packet_cnt_read)' = packet'
  BY <1>1, <1>4, <1>6 DEF IInv, RingInv, At
<1>11. cycler_pc' = "advance" =>
         /\ Earlier(packet)' /\ \A q \in Live' : packet' < At(q)'
         /\ \A i \in DOMAIN printed' : printed'[i] < packet'
  BY <1>1, <1>3, <1>4, <1>7 DEF IInv, RingInv
<1>12. \A i \in DOMAIN printed' :
         Earlier(printed[i])' /\ \A q \in Live' : printed'[i] < At(q)'
  BY <1>1, <1>3, <1>4, <1>7 DEF IInv, RingInv, Earlier, InTransfer
<1> QED
  BY <1>1, <1>3, <1>5, <1>8, <1>9, <1>10, <1>11, <1>12 DEF IInv, RingInv, At

LEMMA SlotStep == IInv /\ CallbackSlot => RingInv'
<1> SUFFICES ASSUME IInv, CallbackSlot PROVE RingInv'
  OBVIOUS
<1>1. UNCHANGED <<ring, arrived, cycler_pc, packet, printed>> /\ transfer_pc = "slot"
  BY DEF CallbackSlot, Transfer, cycler
<1>2. CASE transfer_pc' = "events"
  BY <1>1, <1>2, QuietStep DEF InTransfer, IInv, RingInv
<1>3. CASE transfer_pc' = "store" /\ packet_buffer[Slot] = 0
  <2>1. UNCHANGED <<packet_buffer, packet_cnt_write, packet_cnt_read>>
    BY <1>1 DEF ring
  <2>2. Live' = Live /\ (\A q : At(q)' = At(q)) /\ InTransfer /\ InTransfer'
    BY <1>1, <1>3, <2>1 DEF Live, At, InTransfer
  <2>3. At(packet_cnt_write)' = 0
    BY <1>3, <2>1 DEF At, Slot
  <2>4. \A n : Earlier(n)' <=> Earlier(n)
    BY <1>1, <2>2 DEF Earlier
  <2> QED
    BY <1>1, <1>3, <2>1, <2>2, <2>3, <2>4 DEF IInv, RingInv
<1> QED
  BY <1>2, <1>3 DEF CallbackSlot, Transfer

\* The packet stored becomes the newest live one.
LEMMA PublishStep == IInv /\ Publish => RingInv'
<1> SUFFICES ASSUME IInv, Publish PROVE RingInv'
  OBVIOUS
<1> DEFINE w == packet_cnt_write
<1>1. CASE transfer_pc = "unlock"
  <2>1. transfer_pc' = "events" /\ UNCHANGED <<ring, arrived, cycler_pc, packet, printed>>
    BY <1>1 DEF Publish, Transfer, cycler
  <2> QED
    BY <1>1, <2>1, QuietStep DEF InTransfer, IInv, RingInv
<1>2. CASE transfer_pc = "count"
  <2>1. /\ transfer_pc' = "unlock" /\ packet_cnt_write' = w + 1
        /\ UNCHANGED <<packet_buffer, packet_cnt_read, arrived, cycler_pc, packet, printed>>
    BY <1>2 DEF Publish, Transfer, cycler
  <2>2. /\ InTransfer /\ ~InTransfer' /\ arrived \in Nat /\ w \in Nat
        /\ packet_cnt_read \in Nat /\ packet_cnt_read <= w /\ PACKETS_CNT \in Nat \ {0}
    BY <1>2, <2>1, HostAssumption DEF InTransfer, IInv, TypeOK
  <2>3. Live' \subseteq Live \cup {w}
    BY <2>1, <2>2 DEF Live
  <2>4. \A q : At(q)' = At(q)
    BY <2>1 DEF At
  <2>5. At(w) = arrived /\ arrived > 0
    BY <1>2, <2>2 DEF IInv, RingInv
  <2>6. \A q \in Live : q \in Nat /\ q < w /\ At(q) \in Nat /\ At(q) < arrived /\ At(q) > 0
                        /\ w - q < PACKETS_CNT
    BY <1>2, <2>2, LiveFacts DEF IInv, RingInv, Earlier
  <2>7. \A n : Earlier(n)' <=> 0 < n /\ n <= arrived
    BY <2>1, <2>2 DEF Earlier
  <2>8. \A q \in Live' : packet_cnt_write' - q <= PACKETS_CNT /\ 0 < At(q) /\ At(q) <= arrived
    BY <2>1, <2>2, <2>3, <2>5, <2>6
  <2>9. \A p, q \in Live' : p < q => At(p) < At(q)
    BY <2>2, <2>3, <2>5, <2>6 DEF IInv, RingInv
  <2>10. cycler_pc = "clear" => At(packet_cnt_read)' = packet'
    BY <2>1 DEF At, IInv, RingInv
  <2>11. cycler_pc = "advance" =>
           /\ 0 < packet /\ packet <= arrived /\ \A q \in Live' : packet < At(q)
           /\ \A i \in DOMAIN printed : printed[i] < packet
    BY <2>2, <2>3, <2>5 DEF IInv, RingInv, Earlier
  <2>12. \A i \in DOMAIN printed :
           /\ 0 < printed[i] /\ printed[i] <= arrived
           /\ \A q \in Live' : printed[i] < At(q)
    BY <2>2, <2>3, <2>5 DEF IInv, RingInv, Earlier
  <2>13. cycler_pc \in {"take", "clear", "advance"} => packet_cnt_read < w + 1
    BY <2>2
  <2> HIDE DEF w
  <2>14. \A q \in Live' : packet_cnt_write' - q <= PACKETS_CNT /\ Earlier(At(q))'
    BY <2>4, <2>7, <2>8, <2>1, <2>2 DEF Earlier
  <2>15. \A p, q \in Live' : p < q => At(p)' < At(q)'
    BY <2>4, <2>9
  <2>16. cycler_pc' = "advance" =>
           /\ Earlier(packet)' /\ \A q \in Live' : packet' < At(q)'
           /\ \A i \in DOMAIN printed' : printed'[i] < packet'
    BY <2>1, <2>2, <2>4, <2>11 DEF Earlier
  <2>17. \A i \in DOMAIN printed' :
           Earlier(printed[i])' /\ \A q \in Live' : printed'[i] < At(q)'
    BY <2>1, <2>2, <2>4, <2>12 DEF Earlier
  <2>18. \A i, j \in DOMAIN printed' : i < j => printed'[i] < printed'[j]
    BY <2>1 DEF IInv, RingInv
  <2> QED
    BY <2>1, <2>2, <2>10, <2>13, <2>14, <2>15, <2>16, <2>17, <2>18 DEF RingInv
<1> QED
  BY <1>1, <1>2 DEF Publish, Transfer

LEMMA TakeStep == IInv /\ Take => RingInv'
<1> SUFFICES ASSUME IInv, Take PROVE RingInv'
  OBVIOUS
<1>1. cycler_pc = "take" /\ packet_cnt_read < packet_cnt_write
  BY DEF Take, Cycler, IInv, RingInv
<1>2. packet_cnt_read \in Live
  BY <1>1 DEF Live, IInv, TypeOK
<1>3. At(packet_cnt_read) > 0 /\ packet_buffer[Read] = At(packet_cnt_read)
  BY <1>2 DEF IInv, RingInv, Earlier, At, Read
<1>4. /\ cycler_pc' = "clear" /\ packet' = At(packet_cnt_read)
      /\ UNCHANGED <<packet_buffer, packet_cnt_write, packet_cnt_read, arrived, transfer_pc,
                     printed>>
  BY <1>3 DEF Take, Cycler
<1>5. Live' = Live /\ (\A q : At(q)' = At(q)) /\ (InTransfer' <=> InTransfer)
  BY <1>1, <1>4 DEF Live, At, InTransfer
<1>6. \A n : Earlier(n)' <=> Earlier(n)
  BY <1>4, <1>5 DEF Earlier
<1>7. At(packet_cnt_read)' = packet'
  BY <1>4 DEF At
<1> QED
  BY <1>1, <1>4, <1>5, <1>6, <1>7 DEF IInv, RingInv, At

\* The slot is emptied; its position is live no more.
LEMMA ClearStep == IInv /\ Clear => RingInv'
<1> SUFFICES ASSUME IInv, Clear PROVE RingInv'
  OBVIOUS
<1> DEFINE r == packet_cnt_read
<1>1. /\ cycler_pc = "clear" /\ cycler_pc' = "advance"
      /\ packet_buffer' = [packet_buffer EXCEPT ![Read] = 0]
      /\ UNCHANGED <<packet_cnt_write, packet_cnt_read, arrived, transfer_pc, packet, printed>>
  BY DEF Clear, Cycler
<1>2. r < packet_cnt_write /\ r \in Nat /\ packet_cnt_write \in Nat /\ r \in Live
      /\ At(r) = packet /\ Read \in Slots
  BY <1>1, SlotOf DEF IInv, RingInv, TypeOK, Live, Read
<1>3. Live' = Live \ {r}
  BY <1>1 DEF Live
<1>4. \A q \in Live' : q \in Nat /\ r < q /\ q % PACKETS_CNT # Read
  <2> SUFFICES ASSUME NEW q \in Live' PROVE q \in Nat /\ r < q /\ q % PACKETS_CNT # Read
    OBVIOUS
  <2>1. q \in Live /\ q # r /\ q \in Nat /\ r < q /\ q < packet_cnt_write
    BY <1>2, <1>3, LiveFacts
  <2>2. q - r < PACKETS_CNT
    BY <1>2, <2>1, HostAssumption DEF IInv, RingInv
  <2> QED
    BY <1>2, <2>1, <2>2, DifferentSlots DEF Read
<1>5. \A q \in Live' : At(q)' = At(q)
  BY <1>1, <1>2, <1>4 DEF At, IInv, TypeOK
<1>6. transfer_pc = "count" => At(packet_cnt_write)' = At(packet_cnt_write)
  <2> SUFFICES ASSUME transfer_pc = "count"
               PROVE  At(packet_cnt_write)' = At(packet_cnt_write)
    OBVIOUS
  <2>1. packet_cnt_write - r < PACKETS_CNT
    BY <1>2 DEF IInv, RingInv
  <2>2. packet_cnt_write % PACKETS_CNT # Read
    BY <1>2, <2>1, DifferentSlots DEF Read
  <2> QED
    BY <1>1, <1>2, <2>2 DEF At, IInv, TypeOK
<1>7. transfer_pc = "store" => At(packet_cnt_write)' = 0
  <2>1. packet_cnt_write % PACKETS_CNT \in Slots
    BY <1>2, SlotOf
  <2> QED
    BY <1>1, <1>2, <2>1 DEF At, IInv, RingInv, TypeOK
<1>8. (InTransfer' <=> InTransfer) /\ \A n : Earlier(n)' <=> Earlier(n)
  BY <1>1 DEF Earlier, InTransfer
<1>9. /\ Earlier(packet) /\ \A q \in Live' : packet < At(q)
      /\ \A i \in DOMAIN printed : printed[i] < packet
  BY <1>2, <1>3, <1>4 DEF IInv, RingInv
<1>10. \A q \in Live' : /\ packet_cnt_write' - q <= PACKETS_CNT
                        /\ transfer_pc' = "count" => packet_cnt_write' - q < PACKETS_CNT
                        /\ Earlier(At(q))'
  BY <1>1, <1>3, <1>5, <1>8 DEF IInv, RingInv, Earlier
<1>11. \A p, q \in Live' : p < q => At(p)' < At(q)'
  BY <1>3, <1>5 DEF IInv, RingInv
<1>12. \A i \in DOMAIN printed' :
         Earlier(printed[i])' /\ \A q \in Live' : printed'[i] < At(q)'
  BY <1>1, <1>3, <1>5, <1>8 DEF IInv, RingInv, Earlier
<1>13. /\ Earlier(packet)' /\ \A q \in Live' : packet' < At(q)'
       /\ \A i \in DOMAIN printed' : printed'[i] < packet'
  BY <1>1, <1>5, <1>8, <1>9 DEF Earlier
<1> QED
  BY <1>1, <1>2, <1>6, <1>7, <1>8, <1>10, <1>11, <1>12, <1>13 DEF IInv, RingInv

\* The emptied position is counted and its packet printed.
LEMMA AdvanceStep == IInv /\ Advance => RingInv'
<1> SUFFICES ASSUME IInv, Advance PROVE RingInv'
  OBVIOUS
<1>1. /\ cycler_pc = "advance" /\ cycler_pc' = "cycle"
      /\ packet_cnt_read' = packet_cnt_read + 1
      /\ printed' = Append(printed, packet)
      /\ UNCHANGED <<packet_buffer, packet_cnt_write, arrived, transfer_pc, packet>>
  BY DEF Advance, Cycler
<1>2. Live' = Live
  BY <1>1 DEF Live, IInv, TypeOK
<1>3. (\A q : At(q)' = At(q)) /\ (InTransfer' <=> InTransfer)
      /\ \A n : Earlier(n)' <=> Earlier(n)
  BY <1>1 DEF At, Earlier, InTransfer
<1>4. /\ Len(printed) \in Nat /\ DOMAIN printed = 1 .. Len(printed)
      /\ DOMAIN printed' = 1 .. Len(printed) + 1
      /\ \A i \in 1 .. Len(printed) : printed'[i] = printed[i]
      /\ printed'[Len(printed) + 1] = packet
  BY <1>1, AppendProperties, LenProperties DEF IInv, TypeOK
<1>5. /\ Earlier(packet) /\ \A q \in Live : packet < At(q)
      /\ \A i \in DOMAIN printed : printed[i] < packet
  BY <1>1 DEF IInv, RingInv
<1>6. \A i \in DOMAIN printed' : Earlier(printed'[i]) /\ \A q \in Live : printed'[i] < At(q)
  <2> SUFFICES ASSUME NEW i \in 1 .. Len(printed) + 1
               PROVE  Earlier(printed'[i]) /\ \A q \in Live : printed'[i] < At(q)
    BY <1>4
  <2>1. CASE i \in 1 .. Len(printed)
    BY <1>4, <2>1 DEF IInv, RingInv
  <2>2. CASE i = Len(printed) + 1
    BY <1>4, <1>5, <2>2
  <2> QED
    BY <1>4, <2>1, <2>2
<1>7. \A i, j \in DOMAIN printed' : i < j => printed'[i] < printed'[j]
  <2> SUFFICES ASSUME NEW i \in 1 .. Len(printed) + 1, NEW j \in 1 .. Len(printed) + 1, i < j
               PROVE  printed'[i] < printed'[j]
    BY <1>4
  <2>1. CASE j \in 1 .. Len(printed)
    BY <1>4, <2>1 DEF IInv, RingInv
  <2>2. CASE j = Len(printed) + 1
    BY <1>4, <1>5, <2>2
  <2> QED
    BY <1>4, <2>1, <2>2
<1>8. \A i \in DOMAIN printed' :
        Earlier(printed[i])' /\ \A q \in Live' : printed'[i] < At(q)'
  BY <1>1, <1>2, <1>3, <1>6 DEF Earlier
<1> QED
  BY <1>1, <1>2, <1>3, <1>7, <1>8 DEF IInv, RingInv

LEMMA InitIInv == Init => IInv
<1> SUFFICES ASSUME Init PROVE IInv
  OBVIOUS
<1>1. TypeOK
  <2>1. <<>> \in Seq(Nat) /\ packet_buffer \in [Slots -> Nat]
    BY EmptySeq DEF Init
  <2>2. packet_cnt_read \in 0 .. packet_cnt_write /\ packet_cnt_write \in Nat
    BY DEF Init
  <2> QED
    BY <2>1, <2>2 DEF Init, TypeOK
<1>2. Live = {} /\ ~InTransfer /\ DOMAIN printed = {}
  BY DEF Init, Live, InTransfer
<1>3. RingInv
  BY <1>2 DEF Init, RingInv
<1> QED
  BY <1>1, <1>3 DEF IInv

LEMMA NextIInv == IInv /\ [Next]_vars => IInv'
<1> SUFFICES ASSUME IInv, [Next]_vars PROVE TypeOK' /\ RingInv'
  BY DEF IInv
<1>1. TypeOK'
  <2>1. CASE UNCHANGED vars
    BY <2>1 DEF IInv, TypeOK, vars, ring, flags, cycler
  <2> QED
    BY <2>1, TransferTypes, CyclerTypes, MainTypes DEF Next
<1>2. CASE Arrive
  BY <1>1, <1>2, ArriveStep
<1>3. CASE CallbackSlot
  BY <1>1, <1>3, SlotStep
<1>4. CASE CallbackStore
  BY <1>1, <1>4, StoreStep
<1>5. CASE Publish
  BY <1>1, <1>5, PublishStep
<1>6. CASE Take
  BY <1>1, <1>6, TakeStep
<1>7. CASE Clear
  BY <1>1, <1>7, ClearStep
<1>8. CASE Advance
  BY <1>1, <1>8, AdvanceStep
<1>9. CASE TransferEnd \/ CallbackFull
  <2>1. UNCHANGED <<ring, arrived, cycler_pc, packet, printed>>
    BY <1>9 DEF TransferEnd, CallbackFull, Transfer, cycler
  <2>2. (InTransfer' => InTransfer) /\ transfer_pc' \notin {"store", "count"}
    BY <1>9 DEF TransferEnd, CallbackFull, Transfer, InTransfer
  <2> QED
    BY <1>1, <2>1, <2>2, QuietStep DEF IInv, RingInv
<1>10. CASE Cycle \/ Get \/ Wait \/ Lock \/ Woken
  <2>1. UNCHANGED <<ring, arrived, transfer_pc, packet, printed>>
    BY <1>10 DEF Cycle, Get, Wait, Lock, Woken, Cycler
  <2>2. /\ cycler_pc # "advance" /\ cycler_pc' \notin {"advance", "clear"}
        /\ cycler_pc' = "take" => ~(packet_cnt_read >= packet_cnt_write)
    BY <1>10 DEF Cycle, Get, Wait, Lock, Woken, Cycler
  <2>3. cycler_pc' = "take" => packet_cnt_read < packet_cnt_write
    BY <2>2 DEF IInv, TypeOK
  <2> QED
    BY <1>1, <2>1, <2>2, <2>3, QuietStep DEF InTransfer
<1>11. CASE MainThread \/ Enter \/ Key \/ Signal \/ UNCHANGED vars
  <2>1. UNCHANGED <<ring, arrived, transfer_pc, cycler_pc, packet, printed>>
    BY <1>11 DEF MainThread, MainLoop, StopRunning, Unlock, Join, Kill, Close, Enter, Key,
                 Signal, Main, cycler, vars
  <2> QED
    BY <1>1, <2>1, QuietStep DEF InTransfer, IInv, RingInv
<1> QED
  BY <1>1, <1>2, <1>3, <1>4, <1>5, <1>6, <1>7, <1>8, <1>9, <1>10, <1>11
     DEF Next, Callback, PacketCycler

THEOREM Invariance == Spec => []IInv
BY InitIInv, NextIInv, PTL DEF Spec

\* Every variable keeps its type, and the reader never overtakes the writer.
THEOREM TypeCorrect == Spec => []TypeOK
<1>1. IInv => TypeOK
  BY DEF IInv
<1> QED
  BY Invariance, <1>1, PTL

\* Slots are handed over whole, for every size of the ring.
THEOREM SlotsHandedOver == Spec => []SlotHandedOver
<1>1. IInv => SlotHandedOver
  BY DEF IInv, RingInv, At, Slot, Read, SlotHandedOver
<1> QED
  BY Invariance, <1>1, PTL

\* Packets are printed in the order of their arrival, for any number of packets.
THEOREM PrintsInOrder == Spec => []PrintedInOrder
<1>1. IInv => PrintedInOrder
  BY DEF IInv, RingInv, Earlier, PrintedInOrder
<1> QED
  BY Invariance, <1>1, PTL
============================================================================
