---------------------------- MODULE PacketPath ----------------------------
(***************************************************************************)
(* From a demodulated packet to the host: the pool of DEMOD_INFO records,  *)
(* the transfer queue of the bulk IN endpoint, the controller that sends   *)
(* what is primed, and the requests that disable, initialise and flush     *)
(* the endpoint while main uses it.                                        *)
(*                                                                         *)
(* Contexts: main; the USB interrupt, which preempts main and runs one     *)
(* request, or one iteration of usb_queue_transfer_complete, per step; the *)
(* USB controller, which works beside both.                                *)
(***************************************************************************)
EXTENDS Integers, Sequences, FiniteSets

CONSTANTS
  DEMOD_INFO_CNT,   \* records of the pool (100)
  Transfers,        \* transfers of the bulk IN queue (one)
  None,             \* no transfer
  MaxPackets,       \* bound: packets main demodulates
  MaxRequests       \* bound: requests that touch the endpoint

ASSUME PathAssumption ==
  /\ DEMOD_INFO_CNT \in 2 .. 128
  /\ IsFiniteSet(Transfers) /\ None \notin Transfers
  /\ MaxPackets \in Nat /\ MaxRequests \in Nat

Infos == 0 .. DEMOD_INFO_CNT - 1

VARIABLES
  transceiver_mode, streaming, sgpio_callback_finished,
  is_used,          \* demod_infos[i].is_used
  demod_bytes,      \* ghost: number of the packet in demod_infos[i], 0 for none
  demod_info_idx,
  pc,               \* where main is in its loop
  held,             \* the transfer main has allocated and not yet queued
  free_transfers,   \* the queue's free list
  active,           \* the queue's active list, oldest first
  td,               \* per transfer: status and user_data
  endpoint,         \* controller: enabled, primed descriptors, completion flag
  completing,       \* the USB interrupt is in usb_queue_transfer_complete
  packets,          \* ghost: packets demodulated so far
  delivered,        \* ghost: packets the host has received, in order
  requests          \* the bounded counter

radio == <<transceiver_mode, streaming, sgpio_callback_finished>>
pool == <<is_used, demod_bytes, demod_info_idx>>
queue == <<free_transfers, active, td>>
ghosts == <<packets, delivered>>
vars == <<radio, pool, pc, held, queue, endpoint, completing, ghosts, requests>>

PCs == {"loop", "spin", "wait", "demod", "allocate", "enqueue"}

Init ==
  /\ transceiver_mode = "OFF" /\ streaming = FALSE
  /\ sgpio_callback_finished = FALSE
  /\ is_used = [i \in Infos |-> 0]
  /\ demod_bytes = [i \in Infos |-> 0]
  /\ demod_info_idx = 0
  /\ pc = "loop" /\ held = None
  /\ free_transfers = Transfers /\ active = <<>>
  /\ td = [t \in Transfers |-> [status |-> "done", info |-> 0]]
  /\ endpoint = [enabled |-> FALSE, primed |-> <<>>, complete |-> FALSE]
  /\ completing = FALSE
  /\ packets = 0 /\ delivered = <<>> /\ requests = 0
-----------------------------------------------------------------------------
(* (demod_info_idx + 1) & (DEMOD_INFO_CNT_MASK) *)

Bit(n, weight) == (n \div weight) % 2
Common(a, b, weight) == weight * Bit(a, weight) * Bit(b, weight)
And(a, b) == Common(a, b, 1) + Common(a, b, 2) + Common(a, b, 4) + Common(a, b, 8)
             + Common(a, b, 16) + Common(a, b, 32) + Common(a, b, 64)

\* mutant: one more than the mask allows
NextInfoUnmasked(i) == i + 1

NextInfo(i) == And(i + 1, DEMOD_INFO_CNT - 1)
-----------------------------------------------------------------------------
(* main *)

MainAt(from) == pc = from /\ ~completing

SgpioIsr ==
  /\ streaming /\ ~sgpio_callback_finished
  /\ sgpio_callback_finished' = TRUE
  /\ UNCHANGED <<transceiver_mode, streaming, pool, pc, held, queue, endpoint,
                 completing, ghosts, requests>>

MainLoop ==
  /\ MainAt("loop") /\ transceiver_mode = "BTLE"
  /\ pc' = "spin"
  /\ UNCHANGED <<radio, pool, held, queue, endpoint, completing, ghosts, requests>>

\* samples have arrived; the window is large enough to demodulate, or not yet
MainSpin ==
  /\ MainAt("spin") /\ sgpio_callback_finished
  /\ sgpio_callback_finished' = FALSE
  /\ pc' \in {"wait", "loop"}
  /\ UNCHANGED <<transceiver_mode, streaming, pool, held, queue, endpoint,
                 completing, ghosts, requests>>

\* mutant: the record is taken without waiting
MainWaitNot ==
  /\ MainAt("wait")
  /\ is_used' = [is_used EXCEPT ![demod_info_idx] = 1]
  /\ demod_bytes' = [demod_bytes EXCEPT ![demod_info_idx] = 0]
  /\ pc' = "demod"
  /\ UNCHANGED <<radio, demod_info_idx, held, queue, endpoint, completing, ghosts,
                 requests>>

\* all demod infos are used up: wait for the completion callback to free one
MainWait ==
  /\ MainAt("wait") /\ is_used[demod_info_idx] = 0
  /\ is_used' = [is_used EXCEPT ![demod_info_idx] = 1]
  /\ demod_bytes' = [demod_bytes EXCEPT ![demod_info_idx] = 0]
  /\ pc' = "demod"
  /\ UNCHANGED <<radio, demod_info_idx, held, queue, endpoint, completing, ghosts,
                 requests>>

\* no packet in the window: the record can be reused
MainNoPacket ==
  /\ MainAt("demod")
  /\ is_used' = [is_used EXCEPT ![demod_info_idx] = 0]
  /\ pc' = "loop"
  /\ UNCHANGED <<radio, demod_bytes, demod_info_idx, held, queue, endpoint,
                 completing, ghosts, requests>>

MainPacket ==
  /\ MainAt("demod") /\ packets < MaxPackets
  /\ packets' = packets + 1
  /\ demod_bytes' = [demod_bytes EXCEPT ![demod_info_idx] = packets + 1]
  /\ pc' = "allocate"
  /\ UNCHANGED <<radio, is_used, demod_info_idx, held, queue, endpoint, completing,
                 delivered, requests>>

\* mutant: the transfer is taken but stays in the free list
MainAllocateShared ==
  /\ MainAt("allocate")
  /\ \E t \in free_transfers :
       /\ held' = t /\ free_transfers' = free_transfers
       /\ td' = [td EXCEPT ![t] = [status |-> "active", info |-> demod_info_idx]]
  /\ pc' = "enqueue"
  /\ UNCHANGED <<radio, pool, active, endpoint, completing, ghosts, requests>>

\* usb_transfer_schedule_block retries until a transfer is free; the descriptor
\* is filled in before interrupts are disabled
MainAllocate ==
  /\ MainAt("allocate")
  /\ \E t \in free_transfers :
       /\ held' = t /\ free_transfers' = free_transfers \ {t}
       /\ td' = [td EXCEPT ![t] = [status |-> "active", info |-> demod_info_idx]]
  /\ pc' = "enqueue"
  /\ UNCHANGED <<radio, pool, active, endpoint, completing, ghosts, requests>>

\* with interrupts disabled: append to the active list, and prime the endpoint
\* or link the descriptor to the last one.  An empty list primes only once the
\* endpoint is no longer ready.
MainEnqueue ==
  /\ MainAt("enqueue")
  /\ active = <<>> => endpoint.primed = <<>>
  /\ active' = Append(active, held)
  /\ endpoint' = [endpoint EXCEPT !.primed = Append(@, held)]
  /\ held' = None
  /\ demod_info_idx' = NextInfo(demod_info_idx)
  /\ pc' = "loop"
  /\ UNCHANGED <<radio, is_used, demod_bytes, free_transfers, td, completing, ghosts,
                 requests>>

Main == \/ MainLoop \/ MainSpin \/ MainWait \/ MainNoPacket \/ MainPacket
        \/ MainAllocate \/ MainEnqueue
-----------------------------------------------------------------------------
(* The controller and the completion interrupt *)

\* the host reads the endpoint: the oldest primed descriptor is sent and retired
Transmit ==
  /\ endpoint.enabled /\ endpoint.primed # <<>>
  /\ LET t == Head(endpoint.primed)
     IN  /\ td' = [td EXCEPT ![t].status = "done"]
         /\ delivered' = Append(delivered, demod_bytes[td[t].info])
  /\ endpoint' = [endpoint EXCEPT !.primed = Tail(@), !.complete = TRUE]
  /\ UNCHANGED <<radio, pool, pc, held, free_transfers, active, completing, packets,
                 requests>>

\* usb_check_for_transfer_events
CompleteInterrupt ==
  /\ ~completing /\ endpoint.complete
  /\ endpoint' = [endpoint EXCEPT !.complete = FALSE]
  /\ completing' = TRUE
  /\ UNCHANGED <<radio, pool, pc, held, queue, ghosts, requests>>

HeadFinished == active # <<>> /\ td[Head(active)].status = "done"

\* mutant: the callback is called, the transfer forgotten
RetireLeaky ==
  /\ completing /\ HeadFinished
  /\ active' = Tail(active)
  /\ is_used' = [is_used EXCEPT ![td[Head(active)].info] = 0]
  /\ UNCHANGED <<radio, demod_bytes, demod_info_idx, pc, held, free_transfers, td,
                 endpoint, completing, ghosts, requests>>

\* one iteration: advance the head, call completion_callback, free the transfer
Retire ==
  /\ completing /\ HeadFinished
  /\ active' = Tail(active)
  /\ is_used' = [is_used EXCEPT ![td[Head(active)].info] = 0]
  /\ free_transfers' = free_transfers \cup {Head(active)}
  /\ UNCHANGED <<radio, demod_bytes, demod_info_idx, pc, held, td, endpoint,
                 completing, ghosts, requests>>

\* the list is empty, or its head still not finished
CompleteReturn ==
  /\ completing /\ ~HeadFinished
  /\ completing' = FALSE
  /\ UNCHANGED <<radio, pool, pc, held, queue, endpoint, ghosts, requests>>
-----------------------------------------------------------------------------
(* Requests, in the USB interrupt *)

Elements(s) == {s[i] : i \in DOMAIN s}

\* mutant: the controller keeps its descriptors
FlushQueueOnly(enabled) ==
  /\ free_transfers' = free_transfers \cup Elements(active)
  /\ active' = <<>>
  /\ endpoint' = [endpoint EXCEPT !.enabled = enabled]

\* usb_endpoint_flush: every active transfer is freed, none is called back,
\* and the controller forgets what was primed
FlushEndpoint(enabled) ==
  /\ free_transfers' = free_transfers \cup Elements(active)
  /\ active' = <<>>
  /\ endpoint' = [enabled |-> enabled, primed |-> <<>>,
                  complete |-> endpoint.complete /\ enabled]

Request ==
  /\ ~completing /\ requests < MaxRequests
  /\ requests' = requests + 1
  /\ UNCHANGED <<sgpio_callback_finished, pool, pc, held, td, completing, ghosts>>

\* set_btle_transfer_mode(TRANSCEIVER_MODE_BTLE): usb_endpoint_init
ModeOn ==
  /\ Request /\ transceiver_mode = "OFF"
  /\ transceiver_mode' = "BTLE" /\ streaming' = TRUE
  /\ FlushEndpoint(TRUE)

\* set_btle_transfer_mode(TRANSCEIVER_MODE_OFF): usb_endpoint_disable, which
\* clears the completion flag too
ModeOff ==
  /\ Request /\ transceiver_mode # "OFF"
  /\ transceiver_mode' = "OFF" /\ streaming' = FALSE
  /\ FlushEndpoint(FALSE)

\* usb_configuration_changed: only the mode is reset
SetConfiguration ==
  /\ Request
  /\ transceiver_mode' = "OFF"
  /\ UNCHANGED <<streaming, free_transfers, active, endpoint>>

\* usb_bus_reset: the controller is flushed, the queue is not
BusReset ==
  /\ Request
  /\ transceiver_mode' = "OFF"
  /\ endpoint' = [enabled |-> FALSE, primed |-> <<>>, complete |-> FALSE]
  /\ UNCHANGED <<streaming, free_transfers, active>>

Requests == ModeOn \/ ModeOff \/ SetConfiguration \/ BusReset

UsbIsr == CompleteInterrupt \/ Retire \/ CompleteReturn \/ Requests

Next == SgpioIsr \/ Main \/ Transmit \/ UsbIsr

Spec == Init /\ [][Next]_vars

\* The host keeps reading the endpoint, interrupts are served, and main runs
\* whenever no interrupt does; requests are never due.
Fairness == /\ WF_vars(SgpioIsr) /\ WF_vars(Main) /\ WF_vars(Transmit)
            /\ WF_vars(CompleteInterrupt \/ Retire \/ CompleteReturn)

FairSpec == Spec /\ Fairness
-----------------------------------------------------------------------------
(* Properties *)

Statuses == {"active", "done"}

\* Type invariant of the pool, the queue and the controller.
TypeOK ==
  /\ transceiver_mode \in {"OFF", "BTLE"} /\ streaming \in BOOLEAN
  /\ sgpio_callback_finished \in BOOLEAN
  /\ is_used \in [Infos -> {0, 1}]
  /\ demod_bytes \in [Infos -> Nat]
  /\ demod_info_idx \in Infos
  /\ pc \in PCs /\ held \in Transfers \cup {None}
  /\ free_transfers \subseteq Transfers /\ active \in Seq(Transfers)
  /\ td \in [Transfers -> [status : Statuses, info : Infos]]
  /\ endpoint \in [enabled : BOOLEAN, primed : Seq(Transfers), complete : BOOLEAN]
  /\ completing \in BOOLEAN
  /\ packets \in Nat /\ delivered \in Seq(Nat) /\ requests \in Nat

\* No transfer is lost or in two places: each one is in the free list, held by
\* main between allocation and queueing, or once in the active list, whatever
\* flush or completion interrupts usb_transfer_schedule (usb_queue.c:62-167).
Conservation ==
  /\ \A i, j \in DOMAIN active : active[i] = active[j] => i = j
  /\ free_transfers \cap Elements(active) = {}
  /\ held \notin free_transfers \cup Elements(active)
  /\ held # None <=> pc = "enqueue"
  /\ Transfers = free_transfers \cup Elements(active) \cup ({held} \ {None})

\* The controller never works on a descriptor of a transfer that is free or
\* about to be reused: what it has primed is active and not yet finished.
HardwareOwnsActive ==
  \A i \in DOMAIN endpoint.primed :
    /\ endpoint.primed[i] \in Elements(active)
    /\ td[endpoint.primed[i]].status = "active"

\* While main demodulates into a record, no queued transfer points at it: the
\* record's bytes do not change under the controller (hackrf_usb.c:272-285).
BufferStable ==
  pc = "demod" => \A t \in Elements(active) : td[t].info # demod_info_idx

\* The host receives packets in the order they were demodulated, each at most
\* once and complete, even when requests discard some of them.
DeliveredInOrder ==
  /\ \A i \in DOMAIN delivered : delivered[i] > 0
  /\ \A i, j \in DOMAIN delivered : i < j => delivered[i] < delivered[j]

\* The packets on their way: those the controller has primed, and the one main
\* has demodulated and not yet queued.
Pending ==
  {demod_bytes[td[t].info] : t \in Elements(endpoint.primed)}
  \cup (IF pc \in {"allocate", "enqueue"} THEN {demod_bytes[demod_info_idx]} ELSE {})

Pipe == INSTANCE PacketPipe WITH accepted <- packets, pending <- Pending

\* The pool, the queue and the controller together are the pipe: no step loses,
\* repeats, overtakes or overwrites a packet under way, and a flush is the only
\* way to discard one (hackrf_usb.c:272-334, usb_queue.c:116-223).
ImplementsPipe == Pipe!Spec

\* Main's wait for a record can end: "all demod infos are used up, wait for
\* completion callback to free one" (hackrf_usb.c:272).  A record that is waited
\* for belongs to a transfer whose completion will call back.
WaitEnds ==
  pc = "wait" /\ is_used[demod_info_idx] = 1 =>
    \E t \in Elements(active) : td[t].info = demod_info_idx

\* In a session the host does not end, every demodulated packet reaches it.
PacketsArrive ==
  \A n \in 1 .. MaxPackets : packets >= n ~> n \in Elements(delivered) \/ requests > 1
============================================================================
