---------------------------- MODULE HostSession ----------------------------
(***************************************************************************)
(* The host side of a session: libhackrf's transfer thread puts packets    *)
(* into the wrapper's ring (rx_callback), the packet cycler of bluehack.py *)
(* takes them out (get_next_packet), and the main thread of bluehack.py    *)
(* waits for input and ends both.  The mutex lock_packet_read serves as a  *)
(* binary semaphore: it is locked at the start, the cycler locks it to     *)
(* wait, everybody else unlocks it to wake the cycler.                     *)
(*                                                                         *)
(* Packets are numbered in the order they arrive over USB; 0 is an empty   *)
(* slot.  Python's printing, the pcap file and the requests sent to the    *)
(* device are left out; libusb resubmits every transfer.                   *)
(***************************************************************************)
EXTENDS Integers, Sequences

CONSTANTS
  PACKETS_CNT,   \* slots of the ring (1024)
  MaxPackets     \* bound: packets the device sends

ASSUME HostAssumption == PACKETS_CNT \in Nat \ {0} /\ MaxPackets \in Nat

VARIABLES
  packet_buffer, packet_cnt_write, packet_cnt_read,
  lock_packet_read,    \* is the mutex locked?
  do_exit,             \* of the wrapper: a signal was caught
  is_running,          \* of bluehack.py
  request_exit,        \* do_exit of libhackrf
  arrived,             \* packets sent so far; the last is in the transfer
  transfer_pc, cycler_pc, main_pc,
  packet,              \* what get_next_packet has copied
  printed              \* what the cycler has printed

ring == <<packet_buffer, packet_cnt_write, packet_cnt_read>>
flags == <<do_exit, is_running>>
cycler == <<cycler_pc, packet, printed>>
vars == <<ring, lock_packet_read, flags, request_exit, arrived, transfer_pc, cycler, main_pc>>

Slots == 0 .. PACKETS_CNT - 1

Init ==
  /\ packet_buffer = [s \in Slots |-> 0]
  /\ packet_cnt_write = 0 /\ packet_cnt_read = 0
  /\ lock_packet_read = TRUE
  /\ do_exit = FALSE /\ is_running = TRUE
  /\ request_exit = FALSE
  /\ arrived = 0 /\ packet = 0 /\ printed = <<>>
  /\ transfer_pc = "events" /\ cycler_pc = "cycle" /\ main_pc = "loop"
-----------------------------------------------------------------------------
(* transfer thread: libusb's event loop and rx_callback *)

Transfer(from, to) ==
  /\ transfer_pc = from /\ transfer_pc' = to
  /\ UNCHANGED <<flags, request_exit, cycler, main_pc>>

Arrive ==
  /\ Transfer("events", "full")
  /\ arrived < MaxPackets
  /\ arrived' = arrived + 1
  /\ UNCHANGED <<ring, lock_packet_read>>

\* the events of libusb, or its timeout of 180 seconds, end the wait
TransferEnd ==
  /\ Transfer("events", "ended")
  /\ request_exit
  /\ UNCHANGED <<ring, lock_packet_read, arrived>>

Slot == packet_cnt_write % PACKETS_CNT

Full == packet_cnt_write - packet_cnt_read > PACKETS_CNT

\* "buffer full, ignoring packet..."
CallbackFull ==
  /\ IF Full THEN Transfer("full", "events") ELSE Transfer("full", "slot")
  /\ UNCHANGED <<ring, lock_packet_read, arrived>>

\* mutant: a slot is used before it is empty
CallbackSlotAny ==
  /\ Transfer("slot", "store")
  /\ UNCHANGED <<ring, lock_packet_read, arrived>>

\* the slot is not empty, or the packet too long: ignored
CallbackSlot ==
  /\ \/ Transfer("slot", "events")
     \/ packet_buffer[Slot] = 0 /\ Transfer("slot", "store")
  /\ UNCHANGED <<ring, lock_packet_read, arrived>>

CallbackStore ==
  /\ Transfer("store", "count")
  /\ packet_buffer' = [packet_buffer EXCEPT ![Slot] = arrived]
  /\ UNCHANGED <<packet_cnt_write, packet_cnt_read, lock_packet_read, arrived>>

\* mutant: the cycler is woken first
PublishLate ==
  \/ /\ Transfer("count", "unlock")
     /\ lock_packet_read' = FALSE
     /\ UNCHANGED <<ring, arrived>>
  \/ /\ Transfer("unlock", "events")
     /\ packet_cnt_write' = packet_cnt_write + 1
     /\ UNCHANGED <<packet_buffer, packet_cnt_read, lock_packet_read, arrived>>

\* the packet is counted, then the cycler is woken
Publish ==
  \/ /\ Transfer("count", "unlock")
     /\ packet_cnt_write' = packet_cnt_write + 1
     /\ UNCHANGED <<packet_buffer, packet_cnt_read, lock_packet_read, arrived>>
  \/ /\ Transfer("unlock", "events")
     /\ lock_packet_read' = FALSE
     /\ UNCHANGED <<ring, arrived>>

Callback == \/ CallbackFull \/ CallbackSlot \/ CallbackStore \/ Publish
-----------------------------------------------------------------------------
(* packet cycler and get_next_packet *)

Cycler(from, to) ==
  /\ cycler_pc = from /\ cycler_pc' = to
  /\ UNCHANGED <<do_exit, request_exit, arrived, transfer_pc, main_pc>>

Cycle ==
  /\ IF is_running THEN Cycler("cycle", "get") ELSE Cycler("cycle", "ended")
  /\ UNCHANGED <<ring, lock_packet_read, is_running, packet, printed>>

\* once a signal was caught nothing is fetched, and the length returned is 0
Get ==
  /\ IF do_exit THEN Cycler("get", "cycle") ELSE Cycler("get", "wait")
  /\ UNCHANGED <<ring, lock_packet_read, is_running, packet, printed>>

Wait ==
  /\ IF packet_cnt_read >= packet_cnt_write THEN Cycler("wait", "lock")
                                            ELSE Cycler("wait", "take")
  /\ UNCHANGED <<ring, lock_packet_read, is_running, packet, printed>>

Lock ==
  /\ Cycler("lock", "woken")
  /\ ~lock_packet_read /\ lock_packet_read' = TRUE
  /\ UNCHANGED <<ring, is_running, packet, printed>>

\* mutant: the signal is not seen before the next wait
WokenUnaware ==
  /\ Cycler("woken", "wait")
  /\ UNCHANGED <<ring, lock_packet_read, is_running, packet, printed>>

\* RETURN_ERROR is an exception in bluehack.py, which ends the cycler
Woken ==
  /\ IF do_exit THEN Cycler("woken", "ended") /\ is_running' = FALSE
                ELSE Cycler("woken", "wait") /\ UNCHANGED is_running
  /\ UNCHANGED <<ring, lock_packet_read, packet, printed>>

Read == packet_cnt_read % PACKETS_CNT

\* a packet of length 0 is skipped with a warning
Take ==
  /\ IF packet_buffer[Read] = 0
       THEN /\ Cycler("take", "get")
            /\ packet_cnt_read' = packet_cnt_read + 1
            /\ UNCHANGED packet
       ELSE /\ Cycler("take", "clear")
            /\ packet' = packet_buffer[Read]
            /\ UNCHANGED packet_cnt_read
  /\ UNCHANGED <<packet_buffer, packet_cnt_write, lock_packet_read, is_running, printed>>

Clear ==
  /\ Cycler("clear", "advance")
  /\ packet_buffer' = [packet_buffer EXCEPT ![Read] = 0]
  /\ UNCHANGED <<packet_cnt_write, packet_cnt_read, lock_packet_read, is_running,
                 packet, printed>>

\* mutant: counted twice
AdvanceTwice ==
  /\ Cycler("advance", "cycle")
  /\ packet_cnt_read' = packet_cnt_read + 2
  /\ printed' = Append(printed, packet)
  /\ UNCHANGED <<packet_buffer, packet_cnt_write, lock_packet_read, is_running, packet>>

Advance ==
  /\ Cycler("advance", "cycle")
  /\ packet_cnt_read' = packet_cnt_read + 1
  /\ printed' = Append(printed, packet)
  /\ UNCHANGED <<packet_buffer, packet_cnt_write, lock_packet_read, is_running, packet>>

PacketCycler == \/ Cycle \/ Get \/ Wait \/ Lock \/ Woken \/ Take \/ Clear \/ Advance
-----------------------------------------------------------------------------
(* main thread of bluehack.py *)

Main(from, to) ==
  /\ main_pc = from /\ main_pc' = to
  /\ UNCHANGED <<ring, do_exit, arrived, transfer_pc, cycler>>

MainLoop ==
  /\ IF is_running THEN Main("loop", "input") ELSE Main("loop", "stop")
  /\ UNCHANGED <<lock_packet_read, is_running, request_exit>>

\* "Press Enter to switch channels"
Enter ==
  /\ Main("input", "loop")
  /\ UNCHANGED <<lock_packet_read, is_running, request_exit>>

\* "Press [some key] + Enter ... to exit": the reader is unlocked first
Key ==
  /\ Main("input", "key")
  /\ lock_packet_read' = FALSE
  /\ UNCHANGED <<is_running, request_exit>>

StopRunning ==
  /\ Main("key", "unlock") \/ Main("stop", "unlock")
  /\ is_running' = FALSE
  /\ UNCHANGED <<lock_packet_read, request_exit>>

Unlock ==
  /\ Main("unlock", "join")
  /\ lock_packet_read' = FALSE
  /\ UNCHANGED <<is_running, request_exit>>

\* thread.join of the cycler
Join ==
  /\ Main("join", "kill")
  /\ cycler_pc = "ended"
  /\ UNCHANGED <<lock_packet_read, is_running, request_exit>>

Kill ==
  /\ Main("kill", "close")
  /\ request_exit' = TRUE
  /\ UNCHANGED <<lock_packet_read, is_running>>

\* once the transfer thread is joined the board is closed
Close ==
  /\ Main("close", "closed")
  /\ transfer_pc = "ended"
  /\ UNCHANGED <<lock_packet_read, is_running, request_exit>>

\* Ctrl + c, at any time
Signal ==
  /\ ~do_exit /\ main_pc # "closed"
  /\ do_exit' = TRUE /\ lock_packet_read' = FALSE
  /\ UNCHANGED <<ring, is_running, request_exit, arrived, transfer_pc, cycler, main_pc>>

MainThread == MainLoop \/ StopRunning \/ Unlock \/ Join \/ Kill \/ Close

Next == \/ Arrive \/ TransferEnd \/ Callback
        \/ PacketCycler \/ MainThread \/ Enter \/ Key \/ Signal

Spec == Init /\ [][Next]_vars

\* Threads run between their events, and the transfer thread's wait ends; no
\* packet, line of input or signal is ever due.
Fairness == /\ WF_vars(Callback) /\ WF_vars(TransferEnd)
            /\ WF_vars(PacketCycler) /\ WF_vars(MainThread)

FairSpec == Spec /\ Fairness
-----------------------------------------------------------------------------
(* Properties *)

\* Type invariant; the reader never overtakes the writer.
TypeOK ==
  /\ packet_buffer \in [Slots -> Nat]
  /\ packet_cnt_write \in Nat /\ packet_cnt_read \in 0 .. packet_cnt_write
  /\ lock_packet_read \in BOOLEAN /\ do_exit \in BOOLEAN
  /\ is_running \in BOOLEAN /\ request_exit \in BOOLEAN
  /\ arrived \in Nat /\ packet \in Nat /\ printed \in Seq(Nat)
  /\ transfer_pc \in {"events", "full", "slot", "store", "count", "unlock", "ended"}
  /\ cycler_pc \in {"cycle", "get", "wait", "lock", "woken", "take", "clear", "advance",
                    "ended"}
  /\ main_pc \in {"loop", "input", "key", "stop", "unlock", "join", "kill", "close",
                  "closed"}

\* A slot belongs to one thread at a time, though neither takes a lock: what the
\* callback fills is empty, stays as it was written until it is counted, and what
\* the cycler has copied is what it marks as empty (libhackrf_wrapper.c:18-38,
\* 274-293).
SlotHandedOver ==
  /\ transfer_pc = "store" => packet_buffer[Slot] = 0
  /\ transfer_pc = "count" => packet_buffer[Slot] = arrived
  /\ cycler_pc = "clear" => packet_buffer[Read] = packet

\* Packets are printed in the order they arrived, none twice and none empty,
\* even though the "buffer full" test lets one too many pass.
PrintedInOrder ==
  /\ \A i \in DOMAIN printed : printed[i] > 0
  /\ \A i, j \in DOMAIN printed : i < j => printed[i] < printed[j]

\* No wake-up is lost: a packet in the ring is taken out, unless the session ends.
Drained ==
  \A n \in 1 .. MaxPackets :
    packet_cnt_write >= n ~> packet_cnt_read >= n \/ do_exit \/ ~is_running

\* Ctrl + c and a key together end the program, whatever the threads are doing
\* and in which order they are given.
BothEnd == do_exit /\ main_pc \notin {"loop", "input"} ~> main_pc = "closed"
============================================================================
