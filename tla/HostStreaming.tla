--------------------------- MODULE HostStreaming ---------------------------
(***************************************************************************)
(* libhackrf below the wrapper: the calls that start, stop and close a     *)
(* session, the transfer thread, the bulk transfers it resubmits and the   *)
(* control transfers that tell the device.                                 *)
(*                                                                         *)
(* Contexts: the thread that calls the library (main), the transfer        *)
(* thread, the kernel with the device behind it, and whoever kills and     *)
(* restarts the program.  libusb calls back from whichever of the two      *)
(* threads handles events: the transfer thread, or main inside a           *)
(* synchronous control transfer.  The kernel reports transfers in the      *)
(* order they ended.  A call is a list of steps, todo.  Submissions of idle*)
(* transfers by prepare_transfers are assumed to succeed.                  *)
(***************************************************************************)
EXTENDS Integers, Sequences

CONSTANTS
  TRANSFER_COUNT,  \* bulk transfers of a session (64)
  MaxCalls,        \* bound: calls of the library
  MaxPackets,      \* bound: packets the device sends
  MaxKills,        \* bound: times the program is killed
  MaxFailures      \* bound: resubmissions and event handling that fail

ASSUME StreamingAssumption ==
  /\ TRANSFER_COUNT \in Nat \ {0}
  /\ {MaxCalls, MaxPackets, MaxKills, MaxFailures} \subseteq Nat

VARIABLES
  transceiver_mode,  \* of the device
  opened,            \* does the program hold the device?
  transfer_thread_started, streaming, do_exit,
  thread,            \* the transfer thread: where it is, or "none"
  todo,              \* what is left of the call main is in
  next,              \* the transfer prepare_transfers submits next
  request,           \* control request on its way to the device
  answer,            \* its result, once an event handler has seen it
  submitted,         \* transfers the kernel waits for, oldest first
  ended,             \* ended and not yet reported, oldest first
  reply,             \* what the last call returned
  failed,            \* ghost: resubmission or event handling of this session has failed
  calls, packets, kills, failures   \* the bounded counters

flags == <<transfer_thread_started, streaming, do_exit>>
usb == <<request, answer, submitted, ended>>
bounds == <<calls, packets, kills, failures>>
vars == <<transceiver_mode, opened, flags, thread, todo, next, usb, reply, failed, bounds>>

Transfers == 0 .. TRANSFER_COUNT - 1
Ends == {"completed", "cancelled"}
Answers == {"ok", "stall"}
Replies == {"success", "usb error", "already started", "already stopped"}

KillThread == <<"exit", "join", "cancel">>

\* mutant: the flags are reset before the device is asked
StartFlagsFirst == <<"reset", "on", "prepare", "launch">>

\* hackrf_set_btle_mode, then create_transfer_thread
StartSteps == <<"on", "reset", "prepare", "launch">>

\* mutant: as in hackrf_stop_tx, the device is told last
StopDeviceLast == KillThread \o <<"off">>

StopSteps == <<"off">> \o KillThread

\* close_board: MODE_OFF, then hackrf_stop_rx, hackrf_stop_tx, libusb_close
CloseSteps == <<"off", "exit", "join", "cancel", "off", "exit", "join", "cancel",
                "exit", "join", "cancel", "off", "close">>

Init ==
  /\ transceiver_mode = "OFF" /\ opened = FALSE
  /\ transfer_thread_started = FALSE /\ streaming = FALSE /\ do_exit = FALSE
  /\ thread = "none" /\ todo = <<>> /\ next = 0
  /\ request = "none" /\ answer = "none" /\ submitted = <<>> /\ ended = <<>>
  /\ reply = "success" /\ failed = FALSE
  /\ calls = 0 /\ packets = 0 /\ kills = 0 /\ failures = 0
-----------------------------------------------------------------------------
(* Calls of the library *)

Call ==
  /\ todo = <<>> /\ calls < MaxCalls
  /\ calls' = calls + 1
  /\ UNCHANGED <<transceiver_mode, thread, next, usb, failed, packets, kills, failures>>

\* the device's configuration is current: nothing is sent to it
Open ==
  /\ Call /\ ~opened
  /\ opened' = TRUE
  /\ transfer_thread_started' = FALSE /\ streaming' = FALSE /\ do_exit' = FALSE
  /\ UNCHANGED <<todo, reply>>

\* hackrf_set_btle_mode with any mode but OFF
Start ==
  /\ Call /\ opened
  /\ IF transfer_thread_started
       THEN reply' = "already started" /\ UNCHANGED todo
       ELSE todo' = StartSteps /\ UNCHANGED reply
  /\ UNCHANGED <<opened, flags>>

\* hackrf_set_btle_mode(OFF), on its own or as the first step of close_board,
\* which leaves the device open when there was nothing to stop
Stop(steps) ==
  /\ Call /\ opened
  /\ IF transfer_thread_started
       THEN todo' = steps /\ UNCHANGED reply
       ELSE reply' = "already stopped" /\ UNCHANGED todo
  /\ UNCHANGED <<opened, flags>>

\* another request in a session: hackrf_set_btle_channel
Channel ==
  /\ Call /\ opened
  /\ todo' = <<"channel">>
  /\ UNCHANGED <<opened, flags, reply>>
-----------------------------------------------------------------------------
(* Steps of a call *)

Step(label) ==
  /\ todo # <<>> /\ Head(todo) = label
  /\ UNCHANGED <<transceiver_mode, bounds>>

Requests == {"on", "off", "channel"}

\* libusb_control_transfer: submit, then wait for the answer
Ask ==
  \E r \in Requests :
    /\ Step(r) /\ request = "none" /\ answer = "none"
    /\ request' = r
    /\ answer' = "awaited"
    /\ UNCHANGED <<opened, flags, thread, todo, next, submitted, ended, reply, failed>>

Waiting == answer = "awaited"

Answered ==
  \E r \in Requests :
    /\ Step(r) /\ answer \in Answers
    /\ answer' = "none"
    /\ todo' = IF answer = "ok" THEN Tail(todo) ELSE <<>>
    /\ reply' = IF answer = "ok" THEN "success" ELSE "usb error"
    /\ UNCHANGED <<opened, flags, thread, next, request, submitted, ended, failed>>

ResetFlags ==
  /\ Step("reset")
  /\ streaming' = FALSE /\ do_exit' = FALSE
  /\ todo' = Tail(todo) /\ next' = 0 /\ failed' = FALSE
  /\ UNCHANGED <<opened, transfer_thread_started, thread, usb, reply>>

Elements(s) == {s[i] : i \in DOMAIN s}
InFlight == Elements(submitted) \cup {e.transfer : e \in {d \in Elements(ended) : d.end \in Ends}}

\* prepare_transfers, one libusb_submit_transfer at a time; a transfer that is
\* still in flight is refused
Prepare ==
  /\ Step("prepare")
  /\ IF next \in InFlight
       THEN todo' = <<>> /\ reply' = "usb error" /\ UNCHANGED <<next, submitted>>
     ELSE IF next + 1 < TRANSFER_COUNT
       THEN next' = next + 1 /\ submitted' = Append(submitted, next) /\ UNCHANGED <<todo, reply>>
       ELSE /\ submitted' = Append(submitted, next) /\ todo' = Tail(todo)
            /\ UNCHANGED <<next, reply>>
  /\ UNCHANGED <<opened, flags, thread, request, answer, ended, failed>>

Launch ==
  /\ Step("launch")
  /\ streaming' = TRUE
  /\ thread' = "check" /\ transfer_thread_started' = TRUE
  /\ todo' = Tail(todo)
  /\ UNCHANGED <<opened, do_exit, next, usb, reply, failed>>

RequestExit ==
  /\ Step("exit")
  /\ do_exit' = TRUE
  /\ todo' = Tail(todo)
  /\ UNCHANGED <<opened, transfer_thread_started, streaming, thread, next, usb,
                 reply, failed>>

\* kill_transfer_thread: without a thread there is nothing to join or cancel
Join ==
  /\ Step("join")
  /\ IF transfer_thread_started
       THEN thread = "ended" /\ thread' = "none" /\ todo' = Tail(todo)
       ELSE todo' = Tail(Tail(todo)) /\ UNCHANGED thread
  /\ transfer_thread_started' = FALSE
  /\ UNCHANGED <<opened, streaming, do_exit, next, usb, reply, failed>>

Cancelled(s) == [i \in DOMAIN s |-> [transfer |-> s[i], end |-> "cancelled"]]

\* mutant: what is cancelled is waited for as well
CancelKeeps ==
  /\ Step("cancel")
  /\ ended' = ended \o Cancelled(submitted)
  /\ todo' = Tail(todo)
  /\ UNCHANGED <<opened, flags, thread, next, request, answer, submitted, reply, failed>>

\* cancel_transfers: the kernel gives back what it waits for; what has ended
\* already is reported as it ended
Cancel ==
  /\ Step("cancel")
  /\ ended' = ended \o Cancelled(submitted)
  /\ submitted' = <<>>
  /\ todo' = Tail(todo)
  /\ UNCHANGED <<opened, flags, thread, next, request, answer, reply, failed>>

\* libusb_close and free_transfers
Close ==
  /\ Step("close")
  /\ opened' = FALSE
  /\ submitted' = <<>> /\ ended' = <<>>
  /\ todo' = Tail(todo)
  /\ UNCHANGED <<flags, thread, next, request, answer, reply, failed>>

Steps == \/ Ask \/ Answered \/ ResetFlags \/ Prepare \/ Launch \/ RequestExit \/ Join
         \/ Cancel \/ Close
-----------------------------------------------------------------------------
(* The device and the kernel *)

Control(result) == [transfer |-> TRANSFER_COUNT, end |-> result]

\* a mode can only be started from OFF, a channel only be set in a session
Refused(r) == \/ r = "on" /\ transceiver_mode # "OFF"
              \/ r = "channel" /\ transceiver_mode = "OFF"

Serve ==
  /\ request # "none"
  /\ transceiver_mode' = IF Refused(request) \/ request = "channel" THEN transceiver_mode
                         ELSE IF request = "on" THEN "BTLE" ELSE "OFF"
  /\ ended' = Append(ended, Control(IF Refused(request) THEN "stall" ELSE "ok"))
  /\ request' = "none"
  /\ UNCHANGED <<opened, flags, thread, todo, next, answer, submitted, reply, failed, bounds>>

\* a packet completes the oldest transfer
Send ==
  /\ transceiver_mode = "BTLE" /\ submitted # <<>> /\ packets < MaxPackets
  /\ packets' = packets + 1
  /\ ended' = Append(ended, [transfer |-> Head(submitted), end |-> "completed"])
  /\ submitted' = Tail(submitted)
  /\ UNCHANGED <<transceiver_mode, opened, flags, thread, todo, next, request, answer, reply,
                 failed, calls, kills, failures>>
-----------------------------------------------------------------------------
(* Event handling and the transfer thread *)

Resubmit(t) ==
  /\ submitted' = Append(submitted, t)
  /\ UNCHANGED <<do_exit, failed, failures>>

ResubmitFails ==
  /\ failures < MaxFailures /\ failures' = failures + 1
  /\ do_exit' = TRUE /\ failed' = TRUE
  /\ UNCHANGED submitted

\* hackrf_libusb_transfer_callback: a packet is handed over and its transfer
\* submitted again; any other end of a transfer is fatal
TransferCallback(t, end) ==
  IF end = "completed"
    THEN Resubmit(t) \/ ResubmitFails
    ELSE do_exit' = TRUE /\ UNCHANGED <<submitted, failed, failures>>

\* what has ended first is reported first
HandleEvent ==
  /\ ended # <<>>
  /\ ended' = Tail(ended)
  /\ LET e == Head(ended)
     IN  IF e.end \in Answers
           THEN answer' = e.end /\ UNCHANGED <<submitted, do_exit, failed, failures>>
           ELSE TransferCallback(e.transfer, e.end) /\ UNCHANGED answer
  /\ UNCHANGED <<transceiver_mode, opened, transfer_thread_started, streaming, todo,
                 next, request, reply, calls, packets, kills>>

MainEvent == Waiting /\ HandleEvent /\ UNCHANGED thread

ThreadEvent == thread = "events" /\ HandleEvent /\ thread' = "check"

\* mutant: the thread waits for an event, however long
TimeoutNever ==
  /\ thread = "events" /\ ended # <<>> /\ thread' = "check"
  /\ UNCHANGED <<transceiver_mode, opened, flags, todo, next, usb, reply, failed, bounds>>

\* nothing has happened for 180.5 seconds
Timeout ==
  /\ thread = "events" /\ thread' = "check"
  /\ UNCHANGED <<transceiver_mode, opened, flags, todo, next, usb, reply, failed, bounds>>

\* an error other than LIBUSB_ERROR_INTERRUPTED ends the thread, with the exit flag clear
EventsFail ==
  /\ thread = "events" /\ thread' = "check"
  /\ failures < MaxFailures /\ failures' = failures + 1
  /\ streaming' = FALSE /\ failed' = TRUE
  /\ UNCHANGED <<transceiver_mode, opened, transfer_thread_started, do_exit, todo, next,
                 usb, reply, calls, packets, kills>>

\* while (streaming && do_exit == false)
ThreadCheck ==
  /\ thread = "check"
  /\ thread' = IF streaming /\ ~do_exit THEN "events" ELSE "ended"
  /\ UNCHANGED <<transceiver_mode, opened, flags, todo, next, usb, reply, failed, bounds>>
-----------------------------------------------------------------------------
\* The program is killed, or leaves without closing: the kernel drops its
\* transfers; the device is not told.
Kill ==
  /\ opened /\ kills < MaxKills /\ kills' = kills + 1
  /\ opened' = FALSE
  /\ transfer_thread_started' = FALSE /\ streaming' = FALSE /\ do_exit' = FALSE
  /\ thread' = "none" /\ todo' = <<>> /\ next' = 0
  /\ request' = "none" /\ answer' = "none" /\ submitted' = <<>> /\ ended' = <<>>
  /\ reply' = "success" /\ failed' = FALSE
  /\ UNCHANGED <<transceiver_mode, calls, packets, failures>>

Next == \/ Open \/ Start \/ Stop(StopSteps) \/ Stop(CloseSteps) \/ Channel
        \/ Steps \/ Serve \/ Send \/ MainEvent \/ ThreadEvent \/ Timeout \/ EventsFail
        \/ ThreadCheck \/ Kill

Spec == Init /\ [][Next]_vars

\* The calls run, the device answers control requests, waits of the transfer
\* thread end (libusb's timeout).  Packets, calls and kills need not come.
Fairness == /\ WF_vars(Steps) /\ WF_vars(Serve) /\ WF_vars(MainEvent)
            /\ WF_vars(ThreadEvent) /\ WF_vars(Timeout) /\ WF_vars(ThreadCheck)

FairSpec == Spec /\ Fairness
-----------------------------------------------------------------------------
(* Properties *)

EndsOf(t) == {i \in DOMAIN ended : ended[i].transfer = t}

\* Type invariant of the library, the kernel's queues and the device; a
\* transfer is in at most one place.
TypeOK ==
  /\ transceiver_mode \in {"OFF", "BTLE"} /\ opened \in BOOLEAN
  /\ {transfer_thread_started, streaming, do_exit, failed} \subseteq BOOLEAN
  /\ thread \in {"none", "check", "events", "ended"}
  /\ next \in Transfers
  /\ request \in {"none"} \cup Requests /\ answer \in {"none", "awaited"} \cup Answers
  /\ submitted \in Seq(Transfers)
  /\ Elements(ended) \subseteq [transfer : 0 .. TRANSFER_COUNT, end : Ends \cup Answers]
  /\ Len(submitted) + Len(ended) <= TRANSFER_COUNT + 1
  /\ reply \in Replies

At(label) == todo # <<>> /\ Head(todo) = label

\* A session's transfers are all idle when they are submitted, and when they are
\* freed: no transfer of an earlier session, cancelled after the thread that
\* would have seen it was joined (hackrf.c:1497), is still in flight.
SubmittedIdle ==
  /\ At("prepare") => next \notin InFlight
  /\ At("close") => InFlight = {}

\* Between calls, a session that was started runs until something has failed:
\* the device is on, the thread handles events and the exit flag is clear,
\* though every cancelled transfer of the session before has set it (hackrf.c:1475).
SessionRuns ==
  todo = <<>> /\ transfer_thread_started =>
    /\ transceiver_mode = "BTLE"
    /\ ~failed => ~do_exit /\ streaming /\ thread \in {"check", "events"}
                  /\ InFlight = Transfers

\* Every call returns: the join ends although the device, switched off first,
\* sends nothing more that would wake the thread (hackrf.c:1428, 1489).
CallsReturn == todo # <<>> ~> todo = <<>>

\* "already stopped" (hackrf.c:2007): when the library refuses to stop for that
\* reason, the device is off.
AlreadyStopped == [][Stop(StopSteps) /\ reply' = "already stopped" => transceiver_mode = "OFF"]_vars
============================================================================
