----------------------------- MODULE ChannelMap -----------------------------
(***************************************************************************)
(* get_channels: from the channel map of a CONNECT_REQ to the hop sequence *)
(* of the connection.  A used channel stands for itself; an unused one is  *)
(* given the next used channel that no other unused one has taken, and the *)
(* ones left over at the end are mapped by their number modulo the number  *)
(* of used channels.                                                       *)
(***************************************************************************)
EXTENDS Integers, Sequences, FiniteSets, SequencesExt

CONSTANT Hops    \* number of data channels (37)

ASSUME HopsAssumption == Hops \in Nat \ {0}

DataChannels == 0 .. Hops - 1

\* used_channels, in ascending order
UsedChannels(used) == SetToSortSeq(used, <)

\* channel_sequence_data and the queue of unused channels before channel n
Scan(used) ==
  LET scan[n \in 0 .. Hops] ==
        IF n = 0
          THEN [data |-> [c \in DataChannels |-> 0], waiting |-> <<>>]
        ELSE IF n - 1 \notin used
          THEN [scan[n - 1] EXCEPT !.waiting = Append(@, n - 1)]
        ELSE IF scan[n - 1].waiting = <<>>
          THEN [scan[n - 1] EXCEPT !.data[n - 1] = n - 1]
          ELSE [data |-> [scan[n - 1].data EXCEPT ![n - 1] = n - 1,
                                           ![Head(scan[n - 1].waiting)] = n - 1],
                waiting |-> Tail(scan[n - 1].waiting)]
  IN  scan[Hops]

\* the hop sequence; used # {}, or the modulus is zero
GetChannels(used) ==
  [c \in DataChannels |->
     IF Contains(Scan(used).waiting, c)
       THEN UsedChannels(used)[1 + (c % Cardinality(used))]
       ELSE Scan(used).data[c]]
============================================================================
