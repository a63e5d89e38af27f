-------------------------- MODULE PacketPipeProofs --------------------------
(***************************************************************************)
(* The pipe keeps packets in order, for any number of packets and requests *)
(***************************************************************************)
EXTENDS PacketPipe, SequenceTheorems, TLAPS

\* What was delivered is in order and older than everything under way.
Ordered ==
  /\ accepted \in Nat /\ pending \subseteq 1 .. accepted
  /\ delivered \in Seq(1 .. accepted)
  /\ \A i, j \in DOMAIN delivered : i < j => delivered[i] < delivered[j]
  /\ \A i \in DOMAIN delivered, n \in pending : delivered[i] < n

LEMMA InitOrdered == Init => Ordered
<1> SUFFICES ASSUME Init PROVE Ordered
  OBVIOUS
<1>1. <<>> \in Seq(1 .. accepted) /\ DOMAIN <<>> = {}
  BY EmptySeq
<1> QED
  BY <1>1 DEF Init, Ordered

LEMMA AcceptOrdered == Ordered /\ Accept => Ordered'
<1> SUFFICES ASSUME Ordered, Accept PROVE Ordered'
  OBVIOUS
<1>1. 1 .. accepted \subseteq 1 .. accepted' /\ accepted' = accepted + 1
      /\ accepted' \in Nat /\ pending' = pending \cup {accepted + 1}
      /\ delivered' = delivered
  BY DEF Accept, Ordered
<1>2. delivered' \in Seq(1 .. accepted')
  <2>1. Len(delivered) \in Nat /\ DOMAIN delivered = 1 .. Len(delivered)
        /\ \A i \in DOMAIN delivered : delivered[i] \in 1 .. accepted
    BY LenProperties, ElementOfSeq DEF Ordered
  <2> HIDE DEF Ordered
  <2>2. \A i \in 1 .. Len(delivered) : delivered[i] \in 1 .. accepted'
    BY <1>1, <2>1
  <2>3. delivered = [i \in 1 .. Len(delivered) |-> delivered[i]]
    BY <2>1 DEF Ordered
  <2> QED
    BY <1>1, <2>1, <2>2, <2>3, IsASeq DEF Ordered
<1>3. \A i \in DOMAIN delivered : delivered[i] \in 1 .. accepted
  BY LenProperties, ElementOfSeq DEF Ordered
<1>4. \A i \in DOMAIN delivered', n \in pending' : delivered'[i] < n
  BY <1>1, <1>3 DEF Ordered
<1>5. pending' \subseteq 1 .. accepted'
  BY <1>1 DEF Ordered
<1> QED
  BY <1>1, <1>2, <1>4, <1>5 DEF Ordered

LEMMA DeliverOrdered == Ordered /\ Deliver => Ordered'
<1> SUFFICES ASSUME Ordered, NEW n \in pending, Oldest(n),
                    pending' = pending \ {n}, delivered' = Append(delivered, n),
                    accepted' = accepted
             PROVE  Ordered'
  BY DEF Deliver
<1>1. n \in 1 .. accepted /\ Len(delivered) \in Nat
      /\ DOMAIN delivered = 1 .. Len(delivered)
  BY LenProperties DEF Ordered
<1>2. /\ delivered' \in Seq(1 .. accepted)
      /\ DOMAIN delivered' = 1 .. Len(delivered) + 1
      /\ \A i \in 1 .. Len(delivered) : delivered'[i] = delivered[i]
      /\ delivered'[Len(delivered) + 1] = n
  BY <1>1, AppendProperties DEF Ordered
<1>3. \A i \in DOMAIN delivered : delivered[i] \in 1 .. accepted
  BY ElementOfSeq, <1>1 DEF Ordered
<1>4. ASSUME NEW i \in DOMAIN delivered', NEW j \in DOMAIN delivered', i < j
      PROVE  delivered'[i] < delivered'[j]
  <2>1. i \in DOMAIN delivered
    BY <1>1, <1>2, <1>4
  <2>2. CASE j \in DOMAIN delivered
    BY <1>1, <1>2, <1>4, <2>1, <2>2 DEF Ordered
  <2>3. CASE j = Len(delivered) + 1
    BY <1>1, <1>2, <2>1, <2>3 DEF Ordered
  <2> QED
    BY <1>1, <1>2, <2>2, <2>3
<1>5. ASSUME NEW i \in DOMAIN delivered', NEW m \in pending'
      PROVE  delivered'[i] < m
  <2>1. m \in pending /\ m # n /\ n <= m /\ m \in 1 .. accepted
    BY <1>5 DEF Oldest, Ordered
  <2>2. CASE i \in DOMAIN delivered
    BY <1>1, <1>2, <2>1, <2>2 DEF Ordered
  <2>3. CASE i = Len(delivered) + 1
    BY <1>1, <1>2, <2>1, <2>3
  <2> QED
    BY <1>1, <1>2, <2>2, <2>3
<1> QED
  BY <1>2, <1>4, <1>5 DEF Ordered

LEMMA NextOrdered == Ordered /\ [Next]_vars => Ordered'
<1> SUFFICES ASSUME Ordered, [Next]_vars PROVE Ordered'
  OBVIOUS
<1>1. CASE Accept
  BY <1>1, AcceptOrdered
<1>2. CASE Deliver
  BY <1>2, DeliverOrdered
<1>3. CASE Request
  BY <1>3 DEF Request, Ordered
<1>4. CASE UNCHANGED vars
  BY <1>4 DEF vars, Ordered
<1> QED
  BY <1>1, <1>2, <1>3, <1>4 DEF Next

\* Whatever the pipe accepts and its requests discard, the host receives packets
\* in the order they were accepted and none twice.
THEOREM PipeInOrder == Spec => []InOrder
<1>1. Ordered => InOrder
  <2> SUFFICES ASSUME Ordered PROVE InOrder
    OBVIOUS
  <2>1. \A i \in DOMAIN delivered : delivered[i] \in 1 .. accepted
    BY LenProperties, ElementOfSeq DEF Ordered
  <2> QED
    BY <2>1 DEF Ordered, InOrder
<1> QED
  BY InitOrdered, NextOrdered, <1>1, PTL DEF Spec
============================================================================
