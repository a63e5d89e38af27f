----------------------------- MODULE PacketPipe -----------------------------
(***************************************************************************)
(* What the path from a demodulated packet to the host promises, whatever  *)
(* the pool, the queue and the controller do: packets are numbered as they *)
(* are accepted, the oldest one under way is the next the host receives,   *)
(* and only a request may discard packets, the oldest ones first.          *)
(***************************************************************************)
EXTENDS Naturals, Sequences

VARIABLES
  accepted,    \* packets accepted so far; the newest has this number
  pending,     \* packets on their way to the host
  delivered,   \* packets the host has received, in order
  requests     \* requests served so far

vars == <<accepted, pending, delivered, requests>>

Init == accepted = 0 /\ pending = {} /\ delivered = <<>> /\ requests = 0

Accept ==
  /\ accepted' = accepted + 1
  /\ pending' = pending \cup {accepted + 1}
  /\ UNCHANGED <<delivered, requests>>

Oldest(n) == n \in pending /\ \A m \in pending : n <= m

Deliver ==
  \E n \in pending :
    /\ Oldest(n)
    /\ pending' = pending \ {n}
    /\ delivered' = Append(delivered, n)
    /\ UNCHANGED <<accepted, requests>>

\* what a request keeps is newer than all it discards
Request ==
  /\ pending' \subseteq pending
  /\ \A n \in pending', m \in pending \ pending' : m < n
  /\ requests' = requests + 1
  /\ UNCHANGED <<accepted, delivered>>

Next == Accept \/ Deliver \/ Request

Spec == Init /\ [][Next]_vars

\* The host receives packets in the order they were accepted, each at most once.
InOrder ==
  /\ \A i \in DOMAIN delivered : delivered[i] > 0
  /\ \A i, j \in DOMAIN delivered : i < j => delivered[i] < delivered[j]
============================================================================
