-------------------------- MODULE ControlEndpoint --------------------------
(***************************************************************************)
(* Control transfers: the host, the device controller, and the USB         *)
(* interrupt, which looks at SETUP packets first and at finished transfers *)
(* afterwards, and takes the stage of a finished transfer from the SETUP   *)
(* packet it has read last.  Requests are numbered in the order the host   *)
(* issues them and reduced to the way their handler uses the endpoints:    *)
(*                                                                         *)
(*  read     schedules its data and the host's acknowledgement at SETUP    *)
(*  flash    reads, but schedules the acknowledgement after the data       *)
(*  act      acts at SETUP and schedules its own acknowledgement           *)
(*  write    schedules a buffer at SETUP; acts and acknowledges at DATA    *)
(*  refuse   stalls at SETUP                                               *)
(*  reject   schedules a buffer at SETUP, stalls at DATA                   *)
(*                                                                         *)
(* and the four requests of usb_vendor_request_btle_mode, which depend on  *)
(* whether the session runs: off, fixed, follow (with an address of six    *)
(* bytes) and dynamic (BTLE_MODE_FOLLOW_DYNAMIC with another length).      *)
(***************************************************************************)
EXTENDS Integers, Sequences, FiniteSetsExt

CONSTANTS
  Shapes,        \* kinds of requests the host issues
  POOL,          \* transfers of each control queue (8)
  Abandons,      \* does the host give up on requests?
  MaxRequests    \* bound: requests

Reads == {"read", "flash"}
Modes == {"off", "fixed", "follow", "dynamic"}
Writes == {"write", "reject", "follow", "dynamic"}

ASSUME ControlAssumption ==
  /\ Shapes \subseteq Reads \cup Writes \cup Modes \cup {"act", "refuse"}
  /\ POOL \in Nat \ {0} /\ Abandons \in BOOLEAN /\ MaxRequests \in Nat

VARIABLES
  issued,     \* the requests of the host so far
  phase,      \* what the host does next for the last of them
  endptsetupstat,  \* controller: a SETUP packet is waiting
  endptcomplete,   \* controller: endpoints with a finished transfer
  stalled,         \* controller: both endpoints are stalled
  queue,      \* per endpoint the active transfers, oldest first
  setup,      \* endpoint->setup: the request read last, 0 for none
  streaming,  \* _transceiver_mode: the session runs
  pc, seen,   \* the interrupt, and the completions it has read
  acted,      \* ghost: requests carried out, in order
  sent,       \* ghost: requests whose data the host has sent
  outcome,    \* ghost: what the host has been told of each request
  served,     \* ghost: whose transfer served the host's last transaction
  upset       \* ghost: a request was abandoned, refused once acknowledged, or
              \* met a completion that was taken for its own

host == <<issued, phase>>
controller == <<endptsetupstat, endptcomplete, stalled>>
ghosts == <<acted, sent, outcome, served, upset>>
vars == <<host, controller, queue, setup, streaming, pc, seen, ghosts>>

Endpoints == {"out", "in"}
Phases == {"idle", "in data", "out data", "in status", "out status"}
Latest == Len(issued)
Shape(n) == issued[n]

Init ==
  /\ issued = <<>> /\ phase = "idle"
  /\ endptsetupstat = FALSE /\ endptcomplete = {} /\ stalled = FALSE
  /\ queue = [e \in Endpoints |-> <<>>]
  /\ setup = 0 /\ streaming = FALSE /\ pc = "idle" /\ seen = {}
  /\ acted = <<>> /\ sent = {} /\ outcome = <<>> /\ served = "own" /\ upset = FALSE
-----------------------------------------------------------------------------
(* Host and controller *)

Quiet == pc = "idle" /\ endptcomplete = {} /\ ~endptsetupstat

FirstPhase(shape) ==
  IF shape \in Reads THEN "in data" ELSE IF shape \in Writes THEN "out data" ELSE "in status"

\* what an aborted transaction has left primed, flushed by the controller
Dropped(q) == [i \in DOMAIN q |-> IF q[i].state = "primed" THEN [q[i] EXCEPT !.state = "dropped"]
                                                           ELSE q[i]]

\* the host was refused, but the acknowledgement scheduled before is still queued
Forsaken(n) == n > 0 /\ Shape(n) = "dynamic" /\ outcome[n] = "stall" /\ n \in sent

\* a SETUP packet: clears the stall, and may flush the endpoints; it comes at any
\* time after the host is done with the request before, or has given up on it
HostSetup ==
  \E shape \in Shapes :
    /\ Latest < MaxRequests
    /\ phase = "idle" \/ Abandons
    /\ ~endptsetupstat
    /\ issued' = Append(issued, shape) /\ outcome' = Append(outcome, "none")
    /\ phase' = FirstPhase(shape)
    /\ endptsetupstat' = TRUE /\ stalled' = FALSE
    /\ queue' \in {queue, [e \in Endpoints |-> Dropped(queue[e])]}
    /\ upset' = (upset \/ phase # "idle" \/ Forsaken(Latest))
    /\ UNCHANGED <<endptcomplete, setup, streaming, pc, seen, acted, sent, served>>

Primed(e) == {i \in DOMAIN queue[e] : queue[e][i].state = "primed"}
FirstPrimed(e) == CHOOSE i \in Primed(e) : \A j \in Primed(e) : i <= j

\* the endpoint and the kind of transfer the host's next transaction needs
EndpointOf(p) == IF p \in {"in data", "in status"} THEN "in" ELSE "out"
KindOf(p) == IF p \in {"in data", "out data"} THEN "data" ELSE "ack"

NextPhase(p) == CASE p = "in data" -> "out status" [] p = "out data" -> "in status"
                  [] OTHER -> "idle"

\* a transaction, when a transfer is primed; until the SETUP packet has been
\* read the controller answers with NAK
Transact ==
  /\ phase # "idle" /\ ~endptsetupstat /\ ~stalled
  /\ LET e == EndpointOf(phase)
     IN  /\ Primed(e) # {}
         /\ LET i == FirstPrimed(e) t == queue[e][i]
            IN  /\ queue' = [queue EXCEPT ![e][i].state = "done"]
                /\ served' = IF t.request = Latest /\ t.kind = KindOf(phase) THEN "own" ELSE "other"
         /\ endptcomplete' = endptcomplete \cup {e}
  /\ phase' = NextPhase(phase)
  /\ sent' = IF phase = "out data" THEN sent \cup {Latest} ELSE sent
  /\ outcome' = IF NextPhase(phase) = "idle" THEN [outcome EXCEPT ![Latest] = "ok"] ELSE outcome
  /\ UNCHANGED <<issued, endptsetupstat, stalled, setup, streaming, pc, seen, acted, upset>>

HostStalled ==
  /\ phase # "idle" /\ ~endptsetupstat /\ stalled
  /\ phase' = "idle"
  /\ outcome' = [outcome EXCEPT ![Latest] = "stall"]
  /\ UNCHANGED <<issued, controller, queue, setup, streaming, pc, seen, acted, sent, served, upset>>
-----------------------------------------------------------------------------
(* Transfer queues *)

Scheduled(n, kind) == [request |-> n, kind |-> kind, state |-> "primed"]

\* usb_transfer_schedule_block: a transfer is free; otherwise the interrupt waits
\* for ever.  An empty queue has nothing primed, so usb_endpoint_schedule_wait
\* does not wait.
CanSchedule(e) == Len(queue[e]) < POOL

\* the queues once the given transfers of request n have been scheduled
With(n, kinds) ==
  [e \in Endpoints |-> IF e \in DOMAIN kinds THEN Append(queue[e], Scheduled(n, kinds[e]))
                                             ELSE queue[e]]

\* mutant: at most one transfer is freed
RetiredOne(q) == IF q # <<>> /\ Head(q).state = "done" THEN Tail(q) ELSE q

\* mutant: finished transfers are marked and stay in the list
RetiredMarked(q) ==
  [i \in DOMAIN q |-> IF q[i].state = "done" THEN [q[i] EXCEPT !.state = "free"] ELSE q[i]]

\* usb_queue_transfer_complete: the finished transfers at the head are freed
Retired(q) ==
  LET Left == {i \in DOMAIN q : q[i].state # "done"}
  IN  IF Left = {} THEN <<>> ELSE SubSeq(q, Min(Left), Len(q))
-----------------------------------------------------------------------------
(* The handlers: what they schedule, whether they act, whether they refuse *)

Response(answers, acts) == [answers |-> answers, acts |-> acts, stalls |-> FALSE]
Nothing == Response(<<>>, FALSE)
Stall == [Nothing EXCEPT !.stalls = TRUE]

ReadHandler(stage) ==
  IF stage = "setup" THEN Response([in |-> "data", out |-> "ack"], FALSE) ELSE Nothing

FlashHandler(stage) ==
  CASE stage = "setup" -> Response([in |-> "data"], FALSE)
    [] stage = "data" -> Response([out |-> "ack"], FALSE)
    [] stage = "status" -> Nothing

ActHandler(stage) == IF stage = "setup" THEN Response([in |-> "ack"], TRUE) ELSE Nothing

\* a session starts only when none runs; the address of a follow mode arrives at
\* DATA, where the acknowledgement is scheduled first and refused afterwards
ModeHandler(mode, stage) ==
  CASE stage = "setup" /\ mode # "off" /\ streaming -> Stall
    [] stage = "setup" /\ mode \in {"follow", "dynamic"} /\ ~streaming ->
         Response([out |-> "data"], FALSE)
    [] stage = "setup" /\ (mode = "off" \/ (mode = "fixed" /\ ~streaming)) ->
         Response([in |-> "ack"], TRUE)
    [] stage = "data" -> [Response([in |-> "ack"], ~streaming /\ mode # "dynamic")
                            EXCEPT !.stalls = ~streaming /\ mode = "dynamic"]
    [] stage = "status" -> Nothing

\* mutant: the request is carried out while its data is on the way
WriteHandlerEarly(stage) ==
  CASE stage = "setup" -> Response([out |-> "data"], TRUE)
    [] stage = "data" -> Response([in |-> "ack"], FALSE)
    [] stage = "status" -> Nothing

WriteHandler(stage) ==
  CASE stage = "setup" -> Response([out |-> "data"], FALSE)
    [] stage = "data" -> Response([in |-> "ack"], TRUE)
    [] stage = "status" -> Nothing

RefuseHandler(stage) == IF stage = "setup" THEN Stall ELSE Nothing

\* mutant: the acknowledgement is scheduled before the data is looked at
RejectHandlerAck(stage) ==
  CASE stage = "setup" -> Response([out |-> "data"], FALSE)
    [] stage = "data" -> [Response([in |-> "ack"], FALSE) EXCEPT !.stalls = TRUE]
    [] stage = "status" -> Nothing

RejectHandler(stage) ==
  CASE stage = "setup" -> Response([out |-> "data"], FALSE)
    [] stage = "data" -> Stall
    [] stage = "status" -> Nothing

Handler(shape, stage) ==
  CASE shape = "read" -> ReadHandler(stage)
    [] shape = "flash" -> FlashHandler(stage)
    [] shape = "act" -> ActHandler(stage)
    [] shape \in Modes -> ModeHandler(shape, stage)
    [] shape = "write" -> WriteHandler(stage)
    [] shape = "refuse" -> RefuseHandler(stage)
    [] shape = "reject" -> RejectHandler(stage)

\* usb_request(endpoint, stage) for request n, a stall excepted
UsbRequest(n, stage) ==
  LET response == Handler(Shape(n), stage)
  IN  /\ \A e \in DOMAIN response.answers : CanSchedule(e)
      /\ acted' = IF response.acts THEN Append(acted, n) ELSE acted
      /\ streaming' = IF response.acts /\ Shape(n) \in Modes
                        THEN Shape(n) # "off" \/ stage = "data" ELSE streaming

Refuses(n, stage) == Handler(Shape(n), stage).stalls

\* the queues it leaves behind
Queued(n, stage) == With(n, Handler(Shape(n), stage).answers)
-----------------------------------------------------------------------------
(* The USB interrupt *)

\* mutant: the SETUP packet is not marked as read
IsrSetupAgain ==
  /\ pc = "idle" /\ ~Quiet
  /\ IF endptsetupstat
       THEN /\ setup' = Latest
            /\ UsbRequest(Latest, "setup") /\ queue' = Queued(Latest, "setup")
            /\ stalled' = (stalled \/ Refuses(Latest, "setup"))
       ELSE UNCHANGED <<setup, stalled, acted, streaming, queue>>
  /\ pc' = "transfers"
  /\ UNCHANGED <<host, endptsetupstat, endptcomplete, seen, sent, outcome, served, upset>>

\* usb_check_for_setup_events
IsrSetup ==
  /\ pc = "idle" /\ ~Quiet
  /\ IF endptsetupstat
       THEN /\ setup' = Latest /\ endptsetupstat' = FALSE
            /\ UsbRequest(Latest, "setup")
            /\ queue' = Queued(Latest, "setup")
            /\ stalled' = (stalled \/ Refuses(Latest, "setup"))
       ELSE UNCHANGED <<setup, endptsetupstat, stalled, acted, streaming, queue>>
  /\ pc' = "transfers"
  /\ UNCHANGED <<host, endptcomplete, seen, sent, outcome, served, upset>>

\* usb_check_for_transfer_events: the flags are read once, for both endpoints
IsrTransfers ==
  /\ pc = "transfers"
  /\ seen' = endptcomplete
  /\ pc' = "out"
  /\ UNCHANGED <<host, controller, queue, setup, streaming, ghosts>>

\* mutant: the direction of the request is not looked at
StageByEndpoint(shape, e) == IF e = "out" THEN "data" ELSE "status"

\* a transfer towards the host is the data of a request that reads
StageIn(shape, e) == IF (e = "in") = (shape \in Reads) THEN "data" ELSE "status"

\* the stage of a finished transfer, by the SETUP packet read last
StageOf(e) == StageIn(Shape(setup), e)

\* the finished transfer was an earlier request's, and the stage it is taken for
\* does something
Mistaken(e) ==
  /\ \E i \in DOMAIN queue[e] : queue[e][i].state = "done" /\ queue[e][i].request # setup
  /\ Handler(Shape(setup), StageOf(e)) # Nothing

\* usb_control_out_complete, usb_control_in_complete: the stage's handler, then
\* the queue
Complete(e, following) ==
  /\ pc = e
  /\ IF e \in seen
       THEN /\ UsbRequest(setup, StageOf(e))
            /\ endptcomplete' = endptcomplete \ {e}
            /\ upset' = (upset \/ Mistaken(e))
            /\ IF Refuses(setup, StageOf(e))
                 THEN queue' = Queued(setup, StageOf(e)) /\ pc' = "refuse"
                 ELSE queue' = [Queued(setup, StageOf(e)) EXCEPT ![e] = Retired(@)] /\ pc' = following
       ELSE pc' = following /\ UNCHANGED <<acted, streaming, queue, endptcomplete, upset>>
  /\ UNCHANGED <<host, endptsetupstat, stalled, setup, seen, sent, outcome, served>>

\* usb_endpoint_stall after the data of a request, with what the handler has
\* scheduled already primed; a waiting SETUP packet keeps the stall bits clear
Refuse ==
  /\ pc = "refuse" /\ pc' = "in"
  /\ stalled' = (stalled \/ ~endptsetupstat)
  /\ queue' = [queue EXCEPT !["out"] = Retired(@)]
  /\ UNCHANGED <<host, endptsetupstat, endptcomplete, setup, streaming, seen, ghosts>>

UsbIsr == IsrSetup \/ IsrTransfers \/ Complete("out", "in") \/ Complete("in", "idle") \/ Refuse

Next == HostSetup \/ Transact \/ HostStalled \/ UsbIsr

Spec == Init /\ [][Next]_vars

\* The host goes on with a request it has begun, and interrupts are served.
FairSpec == Spec /\ WF_vars(Transact \/ HostStalled) /\ WF_vars(UsbIsr)
-----------------------------------------------------------------------------
(* Properties *)

Transfer == [request : 1 .. MaxRequests, kind : {"data", "ack"},
             state : {"primed", "done", "dropped"}]

\* Type invariant of host, controller, queues and interrupt; no queue is longer
\* than its pool.
TypeOK ==
  /\ issued \in Seq(Shapes) /\ phase \in Phases
  /\ endptsetupstat \in BOOLEAN /\ stalled \in BOOLEAN
  /\ endptcomplete \subseteq Endpoints /\ seen \subseteq Endpoints
  /\ \A e \in Endpoints : queue[e] \in Seq(Transfer) /\ Len(queue[e]) <= POOL
  /\ setup \in 0 .. Latest /\ streaming \in BOOLEAN
  /\ pc \in {"idle", "transfers", "refuse"} \cup Endpoints
  /\ acted \in Seq(1 .. Latest) /\ sent \subseteq 1 .. Latest
  /\ outcome \in [1 .. Latest -> {"none", "ok", "stall"}] /\ served \in {"own", "other"}
  /\ upset \in BOOLEAN

Times(n) == Cardinality({i \in DOMAIN acted : acted[i] = n})

\* A request that changes the device is carried out exactly once before the host
\* is told so, one that is refused never, and none twice, in every overlap of a
\* request with the completions of the one before (usb.c:623, usb_request.c:72)
\* that the device survives: until a completion is taken for another request's
\* and acted upon, a request is abandoned, or one is refused with its
\* acknowledgement queued.  A start of the dynamic mode without an address may
\* be told "ok" and is not carried out: its acknowledgement is scheduled before
\* the length is looked at (usb_api_btle.c:122).
CarriedOutOnce ==
  ~upset =>
    \A n \in 1 .. Latest :
      /\ Times(n) <= 1
      /\ outcome[n] = "ok" => Times(n) = IF Shape(n) \in Reads \cup {"dynamic"} THEN 0 ELSE 1
      /\ outcome[n] = "stall" => Times(n) = 0

\* every request that was carried out on data had been sent them
Arrived == \A i \in DOMAIN acted : Shape(acted[i]) \in Writes => acted[i] \in sent

\* A request is carried out on the data the host has sent with it, the pairs of
\* requests excepted in which the interrupt takes a completion of the first for
\* the data of the second.
DataArrived == ~upset => Arrived

\* "response arrived, now we can activate streaming" (usb_api_btle.c:137): a
\* session that follows connections starts on the address the host has sent.
ResponseArrived == \A i \in DOMAIN acted : Shape(acted[i]) = "follow" => acted[i] \in sent

\* Whatever the host reads or is acknowledged was scheduled for that very stage
\* of its own request, as long as no request was abandoned, refused once
\* acknowledged or confused with the next: all the others leave nothing behind.
OwnTransfers == ~upset => served = "own"

\* When a request is over and its completions have been seen, both queues are
\* empty again, so that a device that serves requests for days does not run out
\* of transfers (usb_endpoint.c:38, usb_queue.c:186).  The one exception is
\* exact: a start of the dynamic mode refused for want of an address leaves its
\* acknowledgement, and nothing else (usb_api_btle.c:122-130).
PoolsRefill ==
  ~upset /\ phase = "idle" /\ Quiet =>
    queue = [out |-> <<>>,
             in |-> IF Forsaken(Latest) THEN <<Scheduled(Latest, "ack")>> ELSE <<>>]

\* Every request ends and the interrupt never waits for ever for a transfer,
\* until requests are upset: then a dropped transfer may stay at the head of its
\* queue and hold all that follow (usb_queue.c:186).
RequestsEnd == phase # "idle" ~> phase = "idle" \/ upset
============================================================================
