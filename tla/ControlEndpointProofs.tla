----------------------- MODULE ControlEndpointProofs -----------------------
(***************************************************************************)
(* Proofs about ControlEndpoint: types in every state, and the rest until  *)
(* requests are upset, in every order of host, controller and interrupt.   *)
(***************************************************************************)
EXTENDS ControlEndpoint, FiniteSetTheorems, SequenceTheorems,
        WellFoundedInduction, TLAPS

Results == {"none", "ok", "stall"}

\* what has become of a transfer: "handled" is finished and seen, but still queued
States == {"none", "primed", "done", "handled"}

\* The inductive invariant.

TypeInv ==
  /\ issued \in Seq(Shapes) /\ Len(issued) \in 0 .. MaxRequests /\ phase \in Phases
  /\ endptsetupstat \in BOOLEAN /\ stalled \in BOOLEAN /\ streaming \in BOOLEAN
  /\ endptcomplete \subseteq Endpoints /\ seen \subseteq Endpoints
  /\ queue \in [Endpoints -> Seq(Transfer)]
  /\ \A e \in Endpoints : Len(queue[e]) <= POOL
  /\ setup \in Nat /\ pc \in {"idle", "transfers", "refuse"} \cup Endpoints
  /\ acted \in Seq(1 .. setup) /\ sent \subseteq 1 .. Latest
  /\ outcome \in Seq(Results) /\ Len(outcome) = Latest

\* Only a waiting SETUP packet is ahead of the interrupt.
Reading ==
  IF endptsetupstat THEN Latest = setup + 1 /\ phase = FirstPhase(Shape(Latest)) /\ ~stalled
                    ELSE Latest = setup

Did(n) == \E i \in DOMAIN acted : acted[i] = n

NoneTwice == \A i, j \in DOMAIN acted : acted[i] = acted[j] => i = j

Settled(n) ==
  \/ outcome[n] = "ok" /\ (Did(n) <=> Shape(n) \notin Reads \cup {"dynamic"})
  \/ outcome[n] = "stall" /\ ~Did(n)

\* What has come of the requests before the one read last, and after it.
Outcomes ==
  /\ \A n \in 1 .. setup - 1 : Settled(n)
  /\ endptsetupstat => outcome[Latest] = "none" /\ Latest \notin sent

\* A queue holds at most one transfer that the request before has left finished,
\* then at most one of request n.
Carries(q, n, kind, left, state) ==
  /\ Len(q) = (IF left THEN 1 ELSE 0) + (IF state = "none" THEN 0 ELSE 1)
  /\ left => q[1].state = "done" /\ q[1].request # n
  /\ state # "none" =>
       q[Len(q)] = [request |-> n, kind |-> kind,
                    state |-> IF state = "handled" THEN "done" ELSE state]

KindIn(shape, e) == IF StageIn(shape, e) = "data" THEN "data" ELSE "ack"

Holds(e, left, state) == Carries(queue[e], setup, KindIn(Shape(setup), e), left, state)

\* The ways a request of each kind may go: the requests of usb_api_btle.c depend on
\* whether the session runs.
Roles == {"read", "flash", "command", "write", "refuse", "reject", "dynamic"}

RolesOf(shape) ==
  CASE shape \in {"act", "off"} -> {"command"}
    [] shape = "fixed" -> {"command", "refuse"}
    [] shape = "follow" -> {"write", "refuse"}
    [] shape = "dynamic" -> {"dynamic", "refuse"}
    [] OTHER -> {shape}

\* Where a request is with its transfers when the host is in phase p.
Position(role, p, i, o, did, stall) ==
  CASE role = "read" ->
         /\ ~did /\ ~stall
         /\ \/ p = "in data" /\ i = "primed" /\ o = "primed"
            \/ p = "out status" /\ i \in {"done", "none"} /\ o = "primed"
            \/ p = "idle" /\ i \in {"done", "none"} /\ o \in {"done", "none"}
    [] role = "flash" ->
         /\ ~did /\ ~stall
         /\ \/ p = "in data" /\ i = "primed" /\ o = "none"
            \/ p = "out status" /\ i = "done" /\ o = "none"
            \/ p = "out status" /\ i = "none" /\ o = "primed"
            \/ p = "idle" /\ i = "none" /\ o \in {"done", "none"}
    [] role = "command" ->
         /\ did /\ ~stall /\ o = "none"
         /\ \/ p = "in status" /\ i = "primed"
            \/ p = "idle" /\ i \in {"done", "none"}
    [] role = "write" ->
         /\ ~stall
         /\ \/ p = "out data" /\ o = "primed" /\ i = "none" /\ ~did
            \/ p = "in status" /\ o = "done" /\ i = "none" /\ ~did
            \/ p = "in status" /\ o = "none" /\ i = "primed" /\ did
            \/ p = "idle" /\ o = "none" /\ i \in {"done", "none"} /\ did
    [] role = "refuse" ->
         /\ ~did /\ i = "none" /\ o = "none"
         /\ p # "idle" => stall
         /\ p \in {"in status", "out data", "idle"}
    [] role = "reject" ->
         /\ ~did /\ i = "none"
         /\ \/ p = "out data" /\ o = "primed" /\ ~stall
            \/ p = "in status" /\ o \in {"done", "handled"} /\ ~stall
            \/ p = "in status" /\ o = "none" /\ stall
            \/ p = "idle" /\ o = "none"
    [] role = "dynamic" ->
         /\ ~did
         /\ \/ p = "out data" /\ o = "primed" /\ i = "none" /\ ~stall
            \/ p = "in status" /\ o = "done" /\ i = "none" /\ ~stall
            \/ p = "in status" /\ o = "handled" /\ i = "primed" /\ ~stall
            \/ p = "in status" /\ o = "none" /\ i = "primed" /\ stall
            \/ p = "idle" /\ o = "handled" /\ i = "done" /\ ~stall
            \/ p = "idle" /\ o = "none" /\ i \in {"primed", "done", "none"}

\* what the host has been told
Told(role, p, i) ==
  IF p # "idle" THEN "none"
  ELSE IF role \in {"refuse", "reject"} \/ (role = "dynamic" /\ i = "primed") THEN "stall"
  ELSE "ok"

\* the phase of the host for the request read last
PhaseRead == IF endptsetupstat THEN "idle" ELSE phase

\* has it sent its data; a DATA stage to come finds that no session runs
Sending(role, p, data) ==
  /\ p = "out data" \/ role = "refuse" => ~data
  /\ role \in {"write", "reject", "dynamic"} /\ p # "out data" => data

Starting(role, shape, o) ==
  role \in {"write", "dynamic"} /\ shape \in Modes /\ o \in {"primed", "done"} => ~streaming

InProgress(own, role) ==
  /\ IF setup = 0
       THEN own["in"] = "none" /\ own["out"] = "none" /\ PhaseRead = "idle" /\ ~stalled
       ELSE /\ role \in RolesOf(Shape(setup))
            /\ Position(role, PhaseRead, own["in"], own["out"], Did(setup), stalled)
            /\ outcome[setup] = Told(role, PhaseRead, own["in"])
            /\ Sending(role, PhaseRead, setup \in sent)
            /\ Starting(role, Shape(setup), own["out"])
  /\ endptsetupstat => \A e \in Endpoints : own[e] # "primed"

\* The completions the interrupt has not seen, and the transfers behind them.
Completions(left, own) ==
  /\ \A e \in Endpoints : Holds(e, e \in left, own[e])
  /\ \A e \in Endpoints : e \in endptcomplete <=> e \in left \/ own[e] = "done"
  /\ own["out"] = "handled" <=> pc = "refuse"
  /\ own["in"] # "handled"
  /\ pc = "idle" => left = {}
  /\ pc = "out" => left \subseteq seen
  /\ pc \in {"refuse", "in"} => left \subseteq seen \cap {"in"}
  /\ setup = 0 => left = {}

SeenStill ==
  /\ pc = "out" => seen \subseteq endptcomplete
  /\ pc \in {"refuse", "in"} => seen \cap {"in"} \subseteq endptcomplete

IInv ==
  /\ TypeInv /\ Reading /\ NoneTwice /\ Outcomes /\ SeenStill /\ Arrived /\ served = "own"
  /\ \E left \in SUBSET Endpoints, own \in [Endpoints -> States], role \in Roles :
       Completions(left, own) /\ InProgress(own, role)

\* It holds until requests are upset.
UpsetOr == upset \/ IInv
-----------------------------------------------------------------------------
(* Transfer queues *)

LEMMA EmptyQueue ==
  ASSUME NEW q \in Seq(Transfer)
  PROVE  q = <<>> <=> Len(q) = 0
  OBVIOUS

LEMMA Schedule ==
  ASSUME NEW q \in Seq(Transfer), NEW n \in 1 .. MaxRequests, NEW kind \in {"data", "ack"},
         NEW left, NEW other, Carries(q, n, other, left, "none")
  PROVE  LET longer == Append(q, Scheduled(n, kind)) IN
         /\ Carries(longer, n, kind, left, "primed")
         /\ longer \in Seq(Transfer) /\ Len(longer) = Len(q) + 1
<1>. DEFINE t == Scheduled(n, kind)
<1>1. t \in Transfer
  BY DEF Transfer, Scheduled
<1>2. t = [request |-> n, kind |-> kind, state |-> "primed"]
  BY DEF Scheduled
<1>. HIDE DEF t
<1>3. /\ Append(q, t) \in Seq(Transfer) /\ Len(Append(q, t)) = Len(q) + 1
      /\ Append(q, t)[Len(q) + 1] = t
      /\ \A i \in 1 .. Len(q) : Append(q, t)[i] = q[i]
  BY <1>1, AppendProperties
<1>4. Len(q) = (IF left THEN 1 ELSE 0) /\ (left => q[1].state = "done" /\ q[1].request # n)
  BY DEF Carries
<1>5. Carries(Append(q, t), n, kind, left, "primed")
  <2>1. left => Append(q, t)[1].state = "done" /\ Append(q, t)[1].request # n
    BY <1>3, <1>4
  <2>2. Append(q, t)[Len(Append(q, t))] = [request |-> n, kind |-> kind, state |-> "primed"]
    BY <1>2, <1>3
  <2>3. QED
    BY <1>3, <1>4, <2>1, <2>2 DEF Carries
<1>6. QED
  BY <1>3, <1>5 DEF t

LEMMA Serve ==
  ASSUME NEW q \in Seq(Transfer), NEW n \in 1 .. MaxRequests, NEW kind \in {"data", "ack"},
         NEW left, Carries(q, n, kind, left, "primed")
  PROVE  LET after == [q EXCEPT ![Len(q)].state = "done"] IN
         /\ {i \in DOMAIN q : q[i].state = "primed"} = {Len(q)}
         /\ Len(q) \in DOMAIN q
         /\ q[Len(q)].request = n /\ q[Len(q)].kind = kind
         /\ Carries(after, n, kind, left, "done")
         /\ after \in Seq(Transfer) /\ Len(after) = Len(q)
<1>. DEFINE t == [request |-> n, kind |-> kind, state |-> "primed"]
            d == [request |-> n, kind |-> kind, state |-> "done"]
<1>1. /\ Len(q) = (IF left THEN 1 ELSE 0) + 1
      /\ left => q[1].state = "done" /\ q[1].request # n
      /\ q[Len(q)] = t
  BY DEF Carries
<1>2. t.state = "primed" /\ t.request = n /\ t.kind = kind /\ [t EXCEPT !.state = "done"] = d
      /\ d \in Transfer
  BY DEF Transfer
<1>. HIDE DEF t, d
<1>3. DOMAIN q = 1 .. Len(q) /\ Len(q) \in {1, 2} /\ (Len(q) = 2 => left)
  <2>1. CASE left
    BY <1>1, <2>1
  <2>2. CASE ~left
    <3>1. Len(q) = 1
      BY <1>1, <2>2
    <3>2. QED
      BY <3>1
  <2>3. QED
    BY <2>1, <2>2
<1>4. {i \in DOMAIN q : q[i].state = "primed"} = {Len(q)}
  BY <1>1, <1>2, <1>3
<1>. DEFINE after == [q EXCEPT ![Len(q)] = d]
<1>5. [q EXCEPT ![Len(q)].state = "done"] = after
  BY <1>1, <1>2
<1>6. /\ after \in Seq(Transfer) /\ Len(after) = Len(q) /\ after[Len(q)] = d
      /\ \A i \in 1 .. Len(q) : i # Len(q) => after[i] = q[i]
  BY <1>2, <1>3, ExceptSeq
<1>. HIDE DEF after
<1>7. Carries(after, n, kind, left, "done")
  BY <1>1, <1>3, <1>6 DEF Carries, d
<1>8. QED
  BY <1>1, <1>2, <1>3, <1>4, <1>5, <1>6, <1>7

LEMMA NonePrimed ==
  ASSUME NEW q \in Seq(Transfer), NEW n, NEW kind, NEW left,
         NEW state \in {"none", "done", "handled"}, Carries(q, n, kind, left, state)
  PROVE  /\ \A i \in DOMAIN q : q[i].state = "done"
         /\ {i \in DOMAIN q : q[i].state = "primed"} = {}
         /\ Dropped(q) = q
<1>1. \A i \in DOMAIN q : q[i].state = "done"
  <2>1. DOMAIN q = 1 .. Len(q)
    OBVIOUS
  <2>2. CASE state = "none"
    BY <2>1, <2>2 DEF Carries
  <2>3. CASE state \in {"done", "handled"}
    <3>1. q[Len(q)].state = "done" /\ Len(q) \in {1, 2} /\ (Len(q) = 2 => q[1].state = "done")
      BY <2>3 DEF Carries
    <3>2. QED
      BY <2>1, <3>1
  <2>4. QED
    BY <2>2, <2>3
<1>2. Dropped(q) = [i \in DOMAIN q |-> q[i]]
  BY <1>1 DEF Dropped
<1>3. q = [i \in DOMAIN q |-> q[i]]
  OBVIOUS
<1>4. QED
  BY <1>1, <1>2, <1>3

LEMMA LeftBehind ==
  ASSUME NEW q \in Seq(Transfer), NEW n, NEW kind, NEW m, NEW other, m # n,
         NEW state \in {"none", "done"}, Carries(q, n, kind, FALSE, state)
  PROVE  Carries(q, m, other, state = "done", "none")
<1>1. CASE state = "none"
  BY <1>1 DEF Carries
<1>2. CASE state = "done"
  <2>1. Len(q) = 1 /\ q[1] = [request |-> n, kind |-> kind, state |-> "done"]
    BY <1>2 DEF Carries
  <2>2. q[1].state = "done" /\ q[1].request # m
    BY <2>1
  <2>3. QED
    BY <1>2, <2>1, <2>2 DEF Carries
<1>3. QED
  BY <1>1, <1>2

LEMMA Retire ==
  ASSUME NEW q \in Seq(Transfer), NEW n, NEW kind, NEW left, NEW state \in States,
         Carries(q, n, kind, left, state)
  PROVE  /\ Carries(Retired(q), n, kind, FALSE, IF state = "primed" THEN "primed" ELSE "none")
         /\ Retired(q) \in Seq(Transfer) /\ Len(Retired(q)) <= Len(q)
<1>. DEFINE Kept == {i \in DOMAIN q : q[i].state # "done"}
<1>1. CASE state # "primed"
  <2>1. Kept = {}
    BY <1>1, NonePrimed DEF States
  <2>2. Retired(q) = <<>>
    BY <2>1 DEF Retired
  <2>3. QED
    BY <1>1, <2>2 DEF Carries
<1>2. CASE state = "primed"
  <2>1. /\ Len(q) = (IF left THEN 1 ELSE 0) + 1 /\ (left => q[1].state = "done")
        /\ q[Len(q)] = [request |-> n, kind |-> kind, state |-> "primed"]
    BY <1>2 DEF Carries
  <2>2. DOMAIN q = 1 .. Len(q) /\ Len(q) \in {1, 2} /\ (Len(q) = 2 => left)
    <3>1. CASE left
      BY <2>1, <3>1
    <3>2. CASE ~left
      <4>1. Len(q) = 1
        BY <2>1, <3>2
      <4>2. QED
        BY <4>1
    <3>3. QED
      BY <3>1, <3>2
  <2>3. Kept = {Len(q)}
    BY <2>1, <2>2
  <2>. DEFINE rest == SubSeq(q, Len(q), Len(q))
  <2>4. Retired(q) = rest
    <3>1. Min({Len(q)}) = Len(q)
      BY DEF Min
    <3>2. QED
      BY <2>3, <3>1 DEF Retired
  <2>5. rest \in Seq(Transfer) /\ Len(rest) = 1 /\ rest[1] = q[Len(q)]
    <3>1. \A i \in Len(q) .. Len(q) : q[i] \in Transfer
      BY <2>2
    <3>2. Len(q) \in Int /\ Len(q) - Len(q) + 1 = 1 /\ Len(q) + 1 - 1 = Len(q)
      BY <2>2
    <3>. HIDE DEF rest
    <3>3. /\ rest \in Seq(Transfer) /\ Len(rest) = 1
          /\ \A i \in 1 .. 1 : rest[i] = q[Len(q) + i - 1]
      BY <3>1, <3>2, SubSeqProperties DEF rest
    <3>4. QED
      BY <3>2, <3>3
  <2>. HIDE DEF rest
  <2>6. Carries(rest, n, kind, FALSE, "primed")
    BY <2>1, <2>5 DEF Carries
  <2>7. Len(rest) <= Len(q)
    BY <2>2, <2>5
  <2>8. QED
    BY <1>2, <2>4, <2>5, <2>6, <2>7
<1>3. QED
  BY <1>1, <1>2
-----------------------------------------------------------------------------
(* Handlers *)

Kinds == Reads \cup Writes \cup Modes \cup {"act", "refuse"}

\* the way a request goes when its SETUP packet is read
RoleAt(shape) ==
  IF shape \in Modes \ {"off"} /\ streaming THEN "refuse"
  ELSE CASE shape \in {"act", "off", "fixed"} -> "command"
         [] shape = "follow" -> "write"
         [] OTHER -> shape

\* the endpoints a request schedules a transfer for at SETUP
Opening(role) ==
  CASE role = "read" -> {"in", "out"}
    [] role \in {"flash", "command"} -> {"in"}
    [] role \in {"write", "reject", "dynamic"} -> {"out"}
    [] role = "refuse" -> {}

\* A response answers on the given endpoints, with the transfer each is for.
Answers(response, shape, ends) ==
  /\ DOMAIN response.answers = ends
  /\ \A e \in ends : response.answers[e] = KindIn(shape, e)

LEMMA OneIn ==
  ASSUME NEW r, NEW k, NEW s, r.answers = [in |-> k], KindIn(s, "in") = k
  PROVE  Answers(r, s, {"in"})
<1>1. DOMAIN [in |-> k] = {"in"} /\ [in |-> k]["in"] = k
  OBVIOUS
<1>2. QED
  BY <1>1 DEF Answers

LEMMA OneOut ==
  ASSUME NEW r, NEW k, NEW s, r.answers = [out |-> k], KindIn(s, "out") = k
  PROVE  Answers(r, s, {"out"})
<1>1. DOMAIN [out |-> k] = {"out"} /\ [out |-> k]["out"] = k
  OBVIOUS
<1>2. QED
  BY <1>1 DEF Answers

LEMMA NoAnswer ==
  ASSUME NEW r, NEW s, r \in {Nothing, Stall}
  PROVE  Answers(r, s, {}) /\ ~r.acts /\ (r.stalls <=> r = Stall)
<1>1. r.answers = <<>> /\ ~r.acts /\ (r.stalls <=> r = Stall)
  BY DEF Nothing, Stall, Response
<1>2. QED
  BY <1>1 DEF Answers

LEMMA KindsOf ==
  /\ KindIn("read", "in") = "data" /\ KindIn("read", "out") = "ack"
  /\ KindIn("flash", "in") = "data" /\ KindIn("flash", "out") = "ack"
  /\ \A s \in Kinds \ Reads : KindIn(s, "out") = "data" /\ KindIn(s, "in") = "ack"
  /\ \A s \in Kinds \ Reads : StageIn(s, "out") = "data" /\ StageIn(s, "in") = "status"
  /\ StageIn("flash", "in") = "data" /\ StageIn("flash", "out") = "status"
  BY DEF KindIn, StageIn, Reads

LEMMA KindsAre ==
  /\ Kinds = {"read", "flash", "act", "off", "fixed", "write", "follow", "refuse", "reject", "dynamic"}
  /\ Reads = {"read", "flash"} /\ Modes = {"off", "fixed", "follow", "dynamic"}
  /\ Writes = {"write", "reject", "follow", "dynamic"}
  BY DEF Kinds, Reads, Writes, Modes

\* What each kind of request does at SETUP.
LEMMA AtSetup ==
  ASSUME NEW s \in Kinds, streaming \in BOOLEAN
  PROVE  LET r == Handler(s, "setup")  role == RoleAt(s) IN
         /\ Answers(r, s, Opening(role))
         /\ r.acts <=> role = "command"
         /\ r.stalls <=> role = "refuse"
         /\ role \in RolesOf(s) /\ role \in Roles
<1>. DEFINE r == Handler(s, "setup")
            role == RoleAt(s)
<1>1. s \in {"act", "off", "fixed", "write", "follow", "refuse", "reject", "dynamic"} =>
        KindIn(s, "in") = "ack" /\ KindIn(s, "out") = "data"
  BY KindsOf, KindsAre
<1>2. CASE s = "read"
  <2>1. r = Response([in |-> "data", out |-> "ack"], FALSE)
    BY <1>2 DEF Handler, ReadHandler, Modes
  <2>2. role = "read" /\ Opening(role) = {"in", "out"}
    BY <1>2 DEF RoleAt, Opening, Modes
  <2>. HIDE DEF r, role
  <2>3. /\ DOMAIN r.answers = {"in", "out"} /\ r.answers["in"] = "data" /\ r.answers["out"] = "ack"
        /\ ~r.acts /\ ~r.stalls
    BY <2>1 DEF Response
  <2>4. role \in RolesOf(s)
    BY <1>2, <2>2 DEF RolesOf
  <2>5. QED
    BY <1>2, <2>2, <2>3, <2>4, KindsOf DEF Answers, Roles, r, role
<1>3. CASE s = "flash"
  <2>1. r = Response([in |-> "data"], FALSE)
    BY <1>3 DEF Handler, FlashHandler, Modes
  <2>2. role = "flash" /\ Opening(role) = {"in"}
    BY <1>3 DEF RoleAt, Opening, Modes
  <2>. HIDE DEF r, role
  <2>3. r.answers = [in |-> "data"] /\ ~r.acts /\ ~r.stalls
    BY <2>1 DEF Response
  <2>4. role \in RolesOf(s)
    BY <1>3, <2>2 DEF RolesOf
  <2>5. Answers(r, s, {"in"})
    BY <1>3, <2>3, KindsOf, OneIn
  <2>6. QED
    BY <1>3, <2>2, <2>3, <2>4, <2>5 DEF Roles, r, role
<1>4. CASE role = "command"
  <2>1. s \in {"act", "off", "fixed"} /\ (s = "fixed" => ~streaming)
    BY <1>4, KindsAre DEF RoleAt
  <2>2. r.answers = [in |-> "ack"] /\ r.acts /\ ~r.stalls
    <3>1. r = Response([in |-> "ack"], TRUE)
      <4>1. CASE s = "act"
        BY <4>1 DEF Handler, ActHandler, Modes
      <4>2. CASE s \in {"off", "fixed"}
        BY <2>1, <4>2 DEF Handler, ModeHandler, Modes
      <4>3. QED
        BY <2>1, <4>1, <4>2
    <3>. HIDE DEF r
    <3>2. QED
      BY <3>1 DEF Response
  <2>3. Opening(role) = {"in"} /\ role \in RolesOf(s)
    BY <1>4, <2>1 DEF Opening, RolesOf
  <2>. HIDE DEF r, role
  <2>4. Answers(r, s, {"in"})
    BY <1>1, <2>1, <2>2, OneIn
  <2>5. QED
    BY <1>4, <2>2, <2>3, <2>4 DEF Roles, r, role
<1>5. CASE role \in {"write", "reject", "dynamic"}
  <2>1. \/ s = "write" /\ role = "write"
        \/ s = "reject" /\ role = "reject"
        \/ s = "follow" /\ role = "write" /\ ~streaming
        \/ s = "dynamic" /\ role = "dynamic" /\ ~streaming
    BY <1>5, KindsAre DEF RoleAt
  <2>2. r.answers = [out |-> "data"] /\ ~r.acts /\ ~r.stalls
    <3>1. r = Response([out |-> "data"], FALSE)
      <4>1. CASE s \in {"write", "reject"}
        BY <4>1 DEF Handler, WriteHandler, RejectHandler, Modes
      <4>2. CASE s \in {"follow", "dynamic"}
        BY <2>1, <4>2 DEF Handler, ModeHandler, Modes
      <4>3. QED
        BY <2>1, <4>1, <4>2
    <3>. HIDE DEF r
    <3>2. QED
      BY <3>1 DEF Response
  <2>3. Opening(role) = {"out"} /\ role \in RolesOf(s)
    BY <1>5, <2>1 DEF Opening, RolesOf
  <2>. HIDE DEF r, role
  <2>4. Answers(r, s, {"out"})
    BY <1>1, <2>1, <2>2, OneOut
  <2>5. QED
    BY <1>5, <2>2, <2>3, <2>4 DEF Roles, r, role
<1>6. CASE role = "refuse"
  <2>1. s = "refuse" \/ (s \in {"fixed", "follow", "dynamic"} /\ streaming)
    BY <1>6, KindsAre DEF RoleAt
  <2>2. r = Stall
    <3>1. CASE s = "refuse"
      BY <3>1 DEF Handler, RefuseHandler, Modes
    <3>2. CASE s \in {"fixed", "follow", "dynamic"} /\ streaming
      BY <3>2 DEF Handler, ModeHandler, Modes
    <3>3. QED
      BY <2>1, <3>1, <3>2
  <2>3. Opening(role) = {} /\ role \in RolesOf(s)
    BY <1>6, <2>1 DEF Opening, RolesOf
  <2>. HIDE DEF r, role
  <2>4. QED
    BY <1>6, <2>2, <2>3, NoAnswer DEF Roles, r, role
<1>7. QED
  <2>1. s \notin {"read", "flash"} => role \in {"command", "write", "reject", "dynamic", "refuse"}
    BY KindsAre DEF RoleAt
  <2>2. QED
    BY <1>2, <1>3, <1>4, <1>5, <1>6, <2>1

\* What the DATA stages do.
LEMMA FlashData ==
  LET r == Handler("flash", "data") IN Answers(r, "flash", {"out"}) /\ ~r.acts /\ ~r.stalls
<1>. DEFINE r == Handler("flash", "data")
<1>1. r = Response([out |-> "ack"], FALSE)
  BY DEF Handler, FlashHandler, Modes
<1>. HIDE DEF r
<1>2. KindIn("flash", "out") = "ack" /\ r.answers = [out |-> "ack"] /\ ~r.acts /\ ~r.stalls
  BY <1>1, KindsOf DEF Response
<1>3. QED
  BY <1>2, OneOut DEF r

LEMMA WriteData ==
  LET r == Handler("write", "data") IN Answers(r, "write", {"in"}) /\ r.acts /\ ~r.stalls
<1>. DEFINE r == Handler("write", "data")
<1>1. r = Response([in |-> "ack"], TRUE)
  BY DEF Handler, WriteHandler, Modes
<1>. HIDE DEF r
<1>2. KindIn("write", "in") = "ack" /\ r.answers = [in |-> "ack"] /\ r.acts /\ ~r.stalls
  BY <1>1, KindsOf, KindsAre DEF Response
<1>3. QED
  BY <1>2, OneIn DEF r

LEMMA ModeData ==
  ASSUME NEW s \in Modes
  PROVE  LET r == Handler(s, "data") IN
         /\ Answers(r, s, {"in"})
         /\ r.acts <=> ~streaming /\ s # "dynamic"
         /\ r.stalls <=> ~streaming /\ s = "dynamic"
<1>. DEFINE r == Handler(s, "data")
            yes == Response([in |-> "ack"], ~streaming /\ s # "dynamic")
<1>1. r = [yes EXCEPT !.stalls = ~streaming /\ s = "dynamic"]
  <2>1. s \in Modes /\ s \notin {"read", "flash", "act"}
    BY KindsAre
  <2>2. r = ModeHandler(s, "data")
    BY <2>1 DEF Handler, Modes
  <2>3. QED
    BY <2>2 DEF ModeHandler
<1>. HIDE DEF r
<1>2. /\ r.answers = [in |-> "ack"]
      /\ r.acts = (~streaming /\ s # "dynamic")
      /\ r.stalls = (~streaming /\ s = "dynamic")
  BY <1>1 DEF Response
<1>3. KindIn(s, "in") = "ack"
  BY KindsOf, KindsAre
<1>4. QED
  BY <1>2, <1>3, OneIn DEF r

LEMMA RejectData ==
  LET r == Handler("reject", "data") IN Answers(r, "reject", {}) /\ ~r.acts /\ r.stalls
<1>1. Handler("reject", "data") = Stall
  BY DEF Handler, RejectHandler, Modes
<1>2. QED
  BY <1>1, NoAnswer

\* The stages in which a handler does nothing.
LEMMA QuietStages ==
  /\ \A stage \in {"data", "status"} : Handler("read", stage) = Nothing
  /\ \A s \in Kinds : Handler(s, "status") = Nothing
  /\ Handler("act", "data") = Nothing /\ Handler("refuse", "data") = Nothing
<1>1. \A stage \in {"data", "status"} : Handler("read", stage) = Nothing
  BY DEF Handler, ReadHandler, Modes
<1>2. ASSUME NEW s \in Kinds
      PROVE  Handler(s, "status") = Nothing
  <2>1. CASE s \in Modes
    <3>1. Handler(s, "status") = ModeHandler(s, "status")
      BY <2>1 DEF Handler, Modes
    <3>2. QED
      BY <3>1 DEF ModeHandler
  <2>2. CASE s \notin Modes
    BY <2>2, KindsAre DEF Handler, ReadHandler, FlashHandler, ActHandler, WriteHandler,
                           RefuseHandler, RejectHandler
  <2>3. QED
    BY <2>1, <2>2
<1>3. Handler("act", "data") = Nothing /\ Handler("refuse", "data") = Nothing
  BY DEF Handler, ActHandler, RefuseHandler, Modes
<1>4. QED
  BY <1>1, <1>2, <1>3
-----------------------------------------------------------------------------
(* Steps *)

LEMMA Known ==
  ASSUME TypeInv
  PROVE  \A n \in 1 .. Latest : Shape(n) \in Shapes /\ Shape(n) \in Kinds
  BY ControlAssumption DEF TypeInv, Latest, Shape, Kinds

\* The requests that go each way.
LEMMA RoleShape ==
  ASSUME NEW s \in Kinds, NEW role \in RolesOf(s)
  PROVE  /\ role = "read" <=> s = "read"
         /\ role = "flash" <=> s = "flash"
         /\ role = "command" => s \in {"act", "off", "fixed"}
         /\ role = "write" => s \in {"write", "follow"}
         /\ role = "refuse" => s \in {"refuse", "fixed", "follow", "dynamic"}
         /\ role = "reject" => s = "reject"
         /\ role = "dynamic" => s = "dynamic"
         /\ role \in Roles
  BY KindsAre DEF RolesOf, Roles

\* A request that is over has nothing primed, unless it was refused once it had
\* been acknowledged, and it does not matter whether the stall is cleared.
LEMMA OverIs ==
  ASSUME NEW role \in Roles, NEW own \in [Endpoints -> States], NEW did, NEW stall,
         Position(role, "idle", own["in"], own["out"], did, stall)
  PROVE  /\ \/ own["in"] \in {"none", "done"}
            \/ role = "dynamic" /\ own["in"] = "primed"
         /\ own["out"] \in {"none", "done", "handled"}
         /\ Position(role, "idle", own["in"], own["out"], did, FALSE)
<1>. DEFINE i == own["in"]
            o == own["out"]
<1>1. Position(role, "idle", i, o, did, stall)
  OBVIOUS
<1>2. SUFFICES /\ i \in {"none", "done"} \/ (role = "dynamic" /\ i = "primed")
               /\ o \in {"none", "done", "handled"}
               /\ Position(role, "idle", i, o, did, FALSE)
  OBVIOUS
<1>. HIDE DEF i, o
<1>3. CASE role \in {"read", "flash"}
  BY <1>1, <1>3 DEF Position
<1>4. CASE role \in {"command", "write"}
  BY <1>1, <1>4 DEF Position
<1>5. CASE role \in {"refuse", "reject"}
  BY <1>1, <1>5 DEF Position
<1>6. CASE role = "dynamic"
  BY <1>1, <1>6 DEF Position
<1>7. QED
  BY <1>3, <1>4, <1>5, <1>6 DEF Roles

\* The same, of the request read last.
LEMMA IdleOwn ==
  ASSUME TypeInv, Reading, NEW own \in [Endpoints -> States], NEW role \in Roles,
         InProgress(own, role), PhaseRead = "idle", endptsetupstat \/ ~Forsaken(Latest)
  PROVE  \A e \in Endpoints : own[e] \in {"none", "done", "handled"}
<1>1. CASE setup = 0
  BY <1>1 DEF InProgress, Endpoints
<1>2. CASE setup # 0
  <2>1. setup \in 1 .. Latest /\ setup > 0
    BY <1>2 DEF TypeInv, Reading, Latest
  <2>2. /\ Position(role, "idle", own["in"], own["out"], Did(setup), stalled)
        /\ outcome[setup] = Told(role, "idle", own["in"]) /\ role \in RolesOf(Shape(setup))
        /\ Sending(role, "idle", setup \in sent)
        /\ endptsetupstat => \A e \in Endpoints : own[e] # "primed"
    BY <1>2 DEF InProgress
  <2>3. /\ own["in"] \in {"none", "done"} \/ (role = "dynamic" /\ own["in"] = "primed")
        /\ own["out"] \in {"none", "done", "handled"}
    BY <2>2, OverIs
  <2>4. ASSUME role = "dynamic", own["in"] = "primed"
        PROVE  FALSE
    <3>1. ~endptsetupstat
      BY <2>2, <2>4 DEF Endpoints
    <3>2. Latest = setup /\ outcome[setup] = "stall" /\ setup \in sent
      BY <2>2, <2>4, <3>1 DEF Reading, Told, Sending
    <3>3. Shape(setup) = "dynamic"
      BY <2>1, <2>2, <2>4, Known, RoleShape
    <3>4. Forsaken(Latest)
      BY <2>1, <3>2, <3>3 DEF Forsaken
    <3>5. QED
      BY <3>1, <3>4
  <2>5. QED
    BY <2>3, <2>4 DEF Endpoints
<1>3. QED
  BY <1>1, <1>2

LEMMA InitHolds == Init => IInv
<1>. SUFFICES ASSUME Init
              PROVE  IInv
  OBVIOUS
<1>. DEFINE own == [e \in Endpoints |-> "none"]
<1>1. own \in [Endpoints -> States] /\ {} \in SUBSET Endpoints /\ "read" \in Roles
  BY DEF States, Roles
<1>2. TypeInv
  <2>1. /\ issued = <<>> /\ outcome = <<>> /\ acted = <<>> /\ Latest = 0
        /\ queue = [e \in Endpoints |-> <<>>] /\ sent = {} /\ setup = 0
    BY DEF Init, Latest
  <2>2. phase \in Phases /\ endptsetupstat \in BOOLEAN /\ stalled \in BOOLEAN
        /\ endptcomplete = {} /\ seen = {} /\ pc = "idle" /\ streaming \in BOOLEAN
    BY DEF Init, Phases
  <2>3. POOL \in Nat /\ MaxRequests \in Nat
    BY ControlAssumption
  <2>4. queue \in [Endpoints -> Seq(Transfer)]
    BY <2>1
  <2>5. QED
    BY <2>1, <2>2, <2>3, <2>4 DEF TypeInv, Latest
<1>3. Reading /\ NoneTwice /\ Outcomes /\ SeenStill /\ Arrived /\ served = "own"
  BY DEF Init, Reading, NoneTwice, Outcomes, SeenStill, Arrived, Latest
<1>4. Completions({}, own)
  BY DEF Init, Completions, Holds, Carries, Endpoints
<1>5. InProgress(own, "read")
  BY DEF Init, InProgress, PhaseRead, Endpoints
<1>6. QED
  BY <1>1, <1>2, <1>3, <1>4, <1>5 DEF IInv

\* A SETUP packet leaves the queues as they are and waits to be read.
LEMMA HostSetupStep == ASSUME IInv, ~upset', HostSetup PROVE IInv'
<1>1. TypeInv /\ Reading /\ NoneTwice /\ Outcomes /\ SeenStill /\ Arrived /\ served = "own"
  BY DEF IInv
<1>2. PICK left \in SUBSET Endpoints, own \in [Endpoints -> States], role \in Roles :
             Completions(left, own) /\ InProgress(own, role)
  BY DEF IInv
<1>3. PICK shape \in Shapes :
        /\ Latest < MaxRequests
        /\ ~endptsetupstat
        /\ issued' = Append(issued, shape) /\ outcome' = Append(outcome, "none")
        /\ phase' = FirstPhase(shape) /\ endptsetupstat' = TRUE /\ stalled' = FALSE
        /\ queue' \in {queue, [e \in Endpoints |-> Dropped(queue[e])]}
        /\ UNCHANGED <<endptcomplete, setup, streaming, pc, seen, acted, sent, served>>
  BY DEF HostSetup
<1>4. phase = "idle" /\ ~Forsaken(Latest)
  BY DEF HostSetup
<1>5. Latest = setup /\ PhaseRead = "idle" /\ Latest \in Nat
  BY <1>1, <1>3, <1>4 DEF Reading, PhaseRead, TypeInv
<1>6. \A e \in Endpoints : own[e] \in {"none", "done", "handled"}
  BY <1>1, <1>2, <1>4, <1>5, IdleOwn
<1>7. queue' = queue
  <2>1. queue \in [Endpoints -> Seq(Transfer)]
    BY <1>1 DEF TypeInv
  <2>2. ASSUME NEW e \in Endpoints
        PROVE  Dropped(queue[e]) = queue[e]
    <3>1. Carries(queue[e], setup, KindIn(Shape(setup), e), e \in left, own[e])
      BY <1>2 DEF Completions, Holds
    <3>2. queue[e] \in Seq(Transfer) /\ own[e] \in {"none", "done", "handled"}
      BY <1>6, <2>1
    <3>3. QED
      BY <3>1, <3>2, NonePrimed
  <2>3. QED
    BY <1>3, <2>1, <2>2
<1>8. /\ issued' \in Seq(Shapes) /\ Latest' = setup + 1 /\ Shape(setup + 1)' = shape
      /\ \A n \in 1 .. setup : Shape(n)' = Shape(n)
  <2>1. issued \in Seq(Shapes) /\ Len(issued) = setup
    BY <1>1, <1>5 DEF TypeInv, Latest
  <2>2. QED
    BY <1>3, <2>1, AppendProperties DEF Latest, Shape
<1>9. /\ outcome' \in Seq(Results) /\ Len(outcome') = setup + 1 /\ outcome'[setup + 1] = "none"
      /\ \A n \in 1 .. setup : outcome'[n] = outcome[n]
  <2>1. outcome \in Seq(Results) /\ Len(outcome) = setup /\ "none" \in Results
    BY <1>1, <1>5 DEF TypeInv, Latest, Results
  <2>2. QED
    BY <1>3, <2>1, AppendProperties
<1>10. setup' = setup /\ acted' = acted /\ sent' = sent /\ \A n : Did(n)' <=> Did(n)
  BY <1>3 DEF Did
<1>a. TypeInv'
  <2>1. Len(issued') \in 0 .. MaxRequests /\ phase' \in Phases /\ sent' \subseteq 1 .. Latest'
    <3>1. Len(issued') = setup + 1 /\ setup < MaxRequests /\ MaxRequests \in Nat /\ setup \in Nat
      BY <1>3, <1>5, <1>8, ControlAssumption DEF Latest
    <3>2. sent' \subseteq 1 .. setup
      BY <1>1, <1>5, <1>10 DEF TypeInv
    <3>3. phase' \in Phases
      BY <1>3 DEF FirstPhase, Phases
    <3>4. QED
      BY <1>8, <3>1, <3>2, <3>3
  <2>2. QED
    BY <1>1, <1>3, <1>7, <1>8, <1>9, <1>10, <2>1 DEF TypeInv
<1>b. Reading'
  BY <1>3, <1>8, <1>10 DEF Reading
<1>c. NoneTwice' /\ SeenStill' /\ served' = "own"
  BY <1>1, <1>3, <1>10 DEF NoneTwice, SeenStill
<1>d. Outcomes'
  <2>1. \A n \in 1 .. setup - 1 : Settled(n)'
    BY <1>1, <1>5, <1>8, <1>9, <1>10 DEF Outcomes, Settled
  <2>2. setup + 1 \notin sent
    BY <1>1, <1>5 DEF TypeInv
  <2>3. QED
    BY <1>8, <1>9, <1>10, <2>1, <2>2 DEF Outcomes
<1>e. Arrived'
  <2>1. \A i \in DOMAIN acted : acted[i] \in 1 .. setup
    BY <1>1 DEF TypeInv
  <2>2. QED
    BY <1>1, <1>8, <1>10, <2>1 DEF Arrived
<1>f. Completions(left, own)'
  <2>1. ASSUME NEW e \in Endpoints
        PROVE  Holds(e, e \in left, own[e])'
    <3>1. CASE setup > 0
      <4>1. Shape(setup)' = Shape(setup)
        BY <1>5, <1>8, <1>10, <3>1 DEF Shape
      <4>2. QED
        BY <1>2, <1>7, <1>10, <4>1 DEF Completions, Holds
    <3>2. CASE setup = 0
      <4>1. own[e] = "none" /\ (e \in left) = FALSE
        BY <1>2, <3>2 DEF Completions, InProgress, Endpoints
      <4>2. QED
        BY <1>2, <1>7, <1>10, <4>1 DEF Completions, Holds, Carries
    <3>3. QED
      BY <1>5, <3>1, <3>2
  <2>2. QED
    BY <1>2, <1>3, <2>1 DEF Completions
<1>g. InProgress(own, role)'
  <2>1. PhaseRead' = "idle" /\ stalled' = FALSE /\ \A e \in Endpoints : own[e] # "primed"
    BY <1>3, <1>6 DEF PhaseRead
  <2>2. CASE setup = 0
    BY <1>2, <1>10, <2>1, <2>2 DEF InProgress
  <2>3. CASE setup > 0
    <3>1. Shape(setup)' = Shape(setup) /\ outcome'[setup] = outcome[setup]
      <4>1. setup \in 1 .. setup
        BY <1>5, <2>3
      <4>2. QED
        BY <1>8, <1>9, <1>10, <4>1 DEF Shape
    <3>2. /\ role \in RolesOf(Shape(setup))
          /\ Position(role, "idle", own["in"], own["out"], Did(setup), stalled)
          /\ outcome[setup] = Told(role, "idle", own["in"])
          /\ Sending(role, "idle", setup \in sent)
          /\ Starting(role, Shape(setup), own["out"])
      BY <1>2, <1>5, <2>3 DEF InProgress
    <3>3. Position(role, "idle", own["in"], own["out"], Did(setup), FALSE)
      BY <3>2, OverIs
    <3>4. Did(setup)' = Did(setup) /\ (setup \in sent)' = (setup \in sent)
      BY <1>10 DEF Did
    <3>5. Starting(role, Shape(setup), own["out"])'
      BY <1>3, <3>1, <3>2 DEF Starting
    <3>6. /\ Position(role, PhaseRead', own["in"], own["out"], Did(setup)', stalled')
          /\ outcome'[setup'] = Told(role, PhaseRead', own["in"])
          /\ Sending(role, PhaseRead', (setup \in sent)')
          /\ role \in RolesOf(Shape(setup)')
      BY <1>10, <2>1, <3>1, <3>2, <3>3, <3>4
    <3>7. QED
      BY <1>10, <2>1, <2>3, <3>5, <3>6 DEF InProgress
  <2>4. QED
    BY <1>5, <2>2, <2>3
<1>h. QED
  BY <1>2, <1>a, <1>b, <1>c, <1>d, <1>e, <1>f, <1>g DEF IInv

\* What a transaction finds primed is the stage the host has come to.
LEMMA Served ==
  ASSUME NEW s \in Kinds, NEW role \in RolesOf(s), NEW p \in Phases, NEW i \in States,
         NEW o \in States, NEW did, NEW data \in BOOLEAN,
         Position(role, p, i, o, did, FALSE), Sending(role, p, data), p # "idle",
         (IF EndpointOf(p) = "in" THEN i ELSE o) = "primed"
  PROVE  LET ni == IF EndpointOf(p) = "in" THEN "done" ELSE i
             no == IF EndpointOf(p) = "out" THEN "done" ELSE o IN
         /\ KindIn(s, EndpointOf(p)) = KindOf(p)
         /\ Position(role, NextPhase(p), ni, no, did, FALSE)
         /\ NextPhase(p) \in Phases
         /\ Told(role, NextPhase(p), ni) = IF NextPhase(p) = "idle" THEN "ok" ELSE "none"
         /\ Sending(role, NextPhase(p), data \/ p = "out data")
<1>1. /\ EndpointOf("in data") = "in" /\ EndpointOf("in status") = "in"
      /\ EndpointOf("out data") = "out" /\ EndpointOf("out status") = "out"
      /\ KindOf("in data") = "data" /\ KindOf("out data") = "data"
      /\ KindOf("in status") = "ack" /\ KindOf("out status") = "ack"
      /\ NextPhase("in data") = "out status" /\ NextPhase("out data") = "in status"
      /\ NextPhase("in status") = "idle" /\ NextPhase("out status") = "idle"
  BY DEF EndpointOf, KindOf, NextPhase
<1>2. p \in {"in data", "out data", "in status", "out status"}
  BY DEF Phases
<1>3. NextPhase(p) \in Phases
  BY <1>1, <1>2 DEF Phases
<1>4. CASE role = "read"
  <2>1. s = "read"
    BY <1>4, RoleShape
  <2>2. QED
    BY <1>1, <1>2, <1>3, <1>4, <2>1, KindsOf DEF Position, Told, Sending
<1>5. CASE role = "flash"
  <2>1. s = "flash"
    BY <1>5, RoleShape
  <2>2. QED
    BY <1>1, <1>2, <1>3, <1>5, <2>1, KindsOf DEF Position, Told, Sending
<1>6. CASE role \notin {"read", "flash"}
  <2>1. KindIn(s, "in") = "ack" /\ KindIn(s, "out") = "data"
    <3>1. s \notin {"read", "flash"}
      BY <1>6, RoleShape
    <3>2. QED
      BY <3>1, KindsOf, KindsAre
  <2>2. CASE role = "command"
    <3>1. p = "in status" /\ i = "primed" /\ o = "none" /\ did
      BY <1>2, <2>2 DEF Position
    <3>2. Position(role, "idle", "done", "none", did, FALSE)
      BY <2>2, <3>1 DEF Position
    <3>3. Told(role, "idle", "done") = "ok" /\ Sending(role, "idle", data)
      BY <2>2 DEF Told, Sending
    <3>4. QED
      BY <1>1, <1>3, <2>1, <3>1, <3>2, <3>3
  <2>3. CASE role = "write"
    BY <1>1, <1>2, <1>3, <2>1, <2>3 DEF Position, Told, Sending
  <2>4. CASE role = "refuse"
    BY <2>4 DEF Position
  <2>5. CASE role = "reject"
    BY <1>1, <1>2, <1>3, <2>1, <2>5 DEF Position, Told, Sending
  <2>6. CASE role = "dynamic"
    BY <1>1, <1>2, <1>3, <2>1, <2>6 DEF Position, Told, Sending
  <2>7. QED
    BY <1>6, <2>2, <2>3, <2>4, <2>5, <2>6, RoleShape DEF Roles
<1>7. QED
  BY <1>4, <1>5, <1>6

\* A transaction is served by the transfer that was scheduled for it.
LEMMA TransactStep == ASSUME IInv, Transact PROVE IInv'
<1>1. TypeInv /\ Reading /\ NoneTwice /\ Outcomes /\ SeenStill /\ Arrived /\ served = "own"
  BY DEF IInv
<1>2. PICK left \in SUBSET Endpoints, own \in [Endpoints -> States], role \in Roles :
             Completions(left, own) /\ InProgress(own, role)
  BY DEF IInv
<1>e. PICK e \in Endpoints : e = EndpointOf(phase)
  BY DEF EndpointOf, Endpoints
<1>. DEFINE k == Len(queue[e])
            after == [queue[e] EXCEPT ![k].state = "done"]
<1>n. PICK now : now = [own EXCEPT ![e] = "done"]
  OBVIOUS
<1>3. /\ phase # "idle" /\ ~endptsetupstat /\ ~stalled /\ Primed(e) # {}
      /\ queue' = [queue EXCEPT ![e][FirstPrimed(e)].state = "done"]
      /\ served' = IF /\ queue[e][FirstPrimed(e)].request = Latest
                      /\ queue[e][FirstPrimed(e)].kind = KindOf(phase)
                     THEN "own" ELSE "other"
      /\ endptcomplete' = endptcomplete \cup {e}
      /\ phase' = NextPhase(phase)
      /\ sent' = IF phase = "out data" THEN sent \cup {Latest} ELSE sent
      /\ outcome' = IF NextPhase(phase) = "idle" THEN [outcome EXCEPT ![Latest] = "ok"] ELSE outcome
      /\ UNCHANGED <<issued, endptsetupstat, stalled, setup, streaming, pc, seen, acted>>
  BY <1>e DEF Transact
<1>4. queue[e] \in Seq(Transfer)
  BY <1>1 DEF TypeInv
<1>5. Latest = setup /\ setup \in 1 .. MaxRequests /\ PhaseRead = phase /\ Latest \in Nat
  <2>1. Latest = setup /\ PhaseRead = phase
    BY <1>1, <1>3 DEF Reading, PhaseRead
  <2>2. setup # 0
    BY <1>2, <1>3, <2>1 DEF InProgress
  <2>3. setup \in 0 .. MaxRequests /\ MaxRequests \in Nat
    BY <1>1, <2>1, ControlAssumption DEF TypeInv, Latest
  <2>4. QED
    BY <2>1, <2>2, <2>3
<1>6. /\ Shape(setup) \in Kinds /\ role \in RolesOf(Shape(setup))
      /\ Position(role, phase, own["in"], own["out"], Did(setup), FALSE)
      /\ Sending(role, phase, setup \in sent)
      /\ Starting(role, Shape(setup), own["out"])
      /\ outcome[setup] = "none"
  <2>1. /\ Position(role, phase, own["in"], own["out"], Did(setup), stalled)
        /\ outcome[setup] = Told(role, phase, own["in"])
        /\ role \in RolesOf(Shape(setup)) /\ Sending(role, phase, setup \in sent)
        /\ Starting(role, Shape(setup), own["out"])
    BY <1>2, <1>5 DEF InProgress
  <2>2. stalled = FALSE
    BY <1>1, <1>3 DEF TypeInv
  <2>3. setup \in 1 .. Latest
    BY <1>5
  <2>4. QED
    BY <1>1, <1>3, <2>1, <2>2, <2>3, Known DEF Told
<1>7. Carries(queue[e], setup, KindIn(Shape(setup), e), e \in left, own[e])
  BY <1>2, <1>4 DEF Completions, Holds
<1>8. own[e] = "primed"
  <2>1. own[e] \in States
    BY <1>4
  <2>2. SUFFICES ASSUME own[e] \in {"none", "done", "handled"}
                 PROVE  FALSE
    BY <2>1 DEF States
  <2>3. Primed(e) = {}
    BY <1>4, <1>7, <2>2, NonePrimed DEF Primed
  <2>4. QED
    BY <1>3, <2>3
<1>9. KindIn(Shape(setup), e) \in {"data", "ack"}
  BY DEF KindIn
<1>10. /\ Primed(e) = {k} /\ k \in DOMAIN queue[e]
       /\ queue[e][k].request = setup /\ queue[e][k].kind = KindIn(Shape(setup), e)
       /\ Carries(after, setup, KindIn(Shape(setup), e), e \in left, "done")
       /\ after \in Seq(Transfer) /\ Len(after) = Len(queue[e])
  BY <1>4, <1>5, <1>7, <1>8, <1>9, Serve DEF Primed
<1>. HIDE DEF k
<1>11. FirstPrimed(e) = k
  <2>1. k \in Int
    BY <1>4 DEF k
  <2>2. QED
    BY <1>10, <2>1 DEF FirstPrimed
<1>12. /\ KindIn(Shape(setup), e) = KindOf(phase)
       /\ Position(role, NextPhase(phase), now["in"], now["out"], Did(setup), FALSE)
       /\ NextPhase(phase) \in Phases
       /\ Told(role, NextPhase(phase), now["in"])
            = IF NextPhase(phase) = "idle" THEN "ok" ELSE "none"
       /\ Sending(role, NextPhase(phase), setup \in sent \/ phase = "out data")
  <2>1. own["in"] \in States /\ own["out"] \in States /\ phase \in Phases
    BY <1>1 DEF Endpoints, TypeInv
  <2>2. (IF EndpointOf(phase) = "in" THEN own["in"] ELSE own["out"]) = "primed"
    BY <1>e, <1>8 DEF Endpoints
  <2>3. /\ now["in"] = IF EndpointOf(phase) = "in" THEN "done" ELSE own["in"]
        /\ now["out"] = IF EndpointOf(phase) = "out" THEN "done" ELSE own["out"]
    BY <1>e, <1>n DEF Endpoints
  <2>. DEFINE s == Shape(setup)
              i == own["in"]
              o == own["out"]
              did == Did(setup)
              data == setup \in sent
  <2>4. /\ s \in Kinds /\ role \in RolesOf(s) /\ Position(role, phase, i, o, did, FALSE)
        /\ Sending(role, phase, data)
    BY <1>6
  <2>d. data \in BOOLEAN
    OBVIOUS
  <2>. HIDE DEF s, i, o, did, data
  <2>5. /\ KindIn(s, EndpointOf(phase)) = KindOf(phase)
        /\ Position(role, NextPhase(phase), IF EndpointOf(phase) = "in" THEN "done" ELSE i,
                    IF EndpointOf(phase) = "out" THEN "done" ELSE o, did, FALSE)
        /\ NextPhase(phase) \in Phases
        /\ Told(role, NextPhase(phase), IF EndpointOf(phase) = "in" THEN "done" ELSE i)
             = IF NextPhase(phase) = "idle" THEN "ok" ELSE "none"
        /\ Sending(role, NextPhase(phase), data \/ phase = "out data")
    BY <1>3, <2>1, <2>2, <2>4, <2>d, Served DEF i, o
  <2>6. QED
    BY <1>e, <2>3, <2>5 DEF s, i, o, did, data
<1>13. now \in [Endpoints -> States] /\ now[e] = "done" /\ now["out"] \in {own["out"], "done"}
       /\ (now["out"] = "done" => own["out"] \in {"primed", "done"})
  BY <1>8, <1>n DEF States, Endpoints
<1>14. served' = "own"
  BY <1>3, <1>5, <1>10, <1>11, <1>12
<1>15. queue' = [queue EXCEPT ![e] = after]
  BY <1>3, <1>11
<1>16. /\ queue' \in [Endpoints -> Seq(Transfer)] /\ queue'[e] = after
       /\ \A d \in Endpoints : Len(queue'[d]) = Len(queue[d]) /\ (d # e => queue'[d] = queue[d])
  <2>. HIDE DEF after
  <2>1. queue \in [Endpoints -> Seq(Transfer)]
    BY <1>1 DEF TypeInv
  <2>2. QED
    BY <1>4, <1>10, <1>15, <2>1
<1>. HIDE DEF after
<1>17. /\ setup' = setup /\ Latest' = Latest /\ PhaseRead' = phase' /\ stalled' = stalled
       /\ streaming' = streaming
       /\ \A n : Shape(n)' = Shape(n) /\ Did(n)' = Did(n)
       /\ Shape(setup)' = Shape(setup) /\ Did(setup)' = Did(setup)
  BY <1>3 DEF Latest, PhaseRead, Shape, Did
<1>18. /\ outcome' \in Seq(Results) /\ Len(outcome') = Len(outcome)
       /\ \A n \in 1 .. setup - 1 : outcome'[n] = outcome[n]
       /\ outcome'[setup] = IF NextPhase(phase) = "idle" THEN "ok" ELSE "none"
  <2>1. outcome \in Seq(Results) /\ Len(outcome) = setup /\ "ok" \in Results
    BY <1>1, <1>5 DEF TypeInv, Results
  <2>2. setup \in 1 .. Len(outcome)
    BY <1>5, <2>1
  <2>3. CASE NextPhase(phase) = "idle"
    <3>1. outcome' = [outcome EXCEPT ![setup] = "ok"]
      BY <1>3, <1>5, <2>3
    <3>2. QED
      BY <1>5, <2>1, <2>2, <2>3, <3>1, ExceptSeq
  <2>4. CASE NextPhase(phase) # "idle"
    BY <1>3, <1>6, <2>1, <2>4
  <2>5. QED
    BY <2>3, <2>4
<1>a. TypeInv'
  <2>1. endptcomplete' \subseteq Endpoints /\ phase' \in Phases
    <3>1. endptcomplete' \subseteq Endpoints
      BY <1>e, <1>1, <1>3 DEF TypeInv
    <3>2. phase' \in Phases
      BY <1>3, <1>12
    <3>3. QED
      BY <3>1, <3>2
  <2>2. sent' \subseteq 1 .. Latest'
    <3>1. sent \subseteq 1 .. setup
      BY <1>1, <1>5 DEF TypeInv
    <3>2. setup \in 1 .. setup
      BY <1>5
    <3>3. Latest' = setup /\ Latest = setup
      BY <1>5, <1>17
    <3>4. QED
      BY <1>3, <3>1, <3>2, <3>3
  <2>3. \A d \in Endpoints : Len(queue'[d]) <= POOL
    BY <1>1, <1>16 DEF TypeInv
  <2>4. QED
    BY <1>1, <1>3, <1>16, <1>17, <1>18, <2>1, <2>2, <2>3 DEF TypeInv
<1>b. Reading'
  BY <1>1, <1>3, <1>17 DEF Reading
<1>c. NoneTwice'
  BY <1>1, <1>3 DEF NoneTwice
<1>d. SeenStill'
  BY <1>1, <1>3 DEF SeenStill
<1>o. Outcomes'
  <2>1. \A n \in 1 .. setup - 1 : Settled(n)'
    BY <1>1, <1>17, <1>18 DEF Outcomes, Settled
  <2>2. QED
    BY <1>3, <1>17, <2>1 DEF Outcomes
<1>f. Arrived'
  BY <1>1, <1>3, <1>17 DEF Arrived
<1>g. Completions(left, now)'
  <2>1. ASSUME NEW d \in Endpoints
        PROVE  Holds(d, d \in left, now[d])'
    <3>1. CASE d = e
      BY <1>10, <1>13, <1>16, <1>17, <2>1, <3>1 DEF Holds
    <3>2. CASE d # e
      BY <1>2, <1>16, <1>17, <1>n, <2>1, <3>2 DEF Holds, Completions
    <3>3. QED
      BY <3>1, <3>2
  <2>2. \A d \in Endpoints : d \in endptcomplete' <=> d \in left \/ now[d] = "done"
    BY <1>2, <1>3, <1>8, <1>n DEF Completions
  <2>3. (now["out"] = "handled" <=> pc' = "refuse") /\ now["in"] # "handled"
    BY <1>2, <1>3, <1>8, <1>n DEF Completions, Endpoints
  <2>4. QED
    BY <1>2, <1>3, <2>1, <2>2, <2>3 DEF Completions
<1>h. InProgress(now, role)'
  <2>1. outcome'[setup] = Told(role, PhaseRead', now["in"])
    BY <1>3, <1>12, <1>17, <1>18
  <2>2. Position(role, PhaseRead', now["in"], now["out"], Did(setup)', stalled')
    <3>1. stalled' = FALSE
      BY <1>1, <1>3 DEF TypeInv
    <3>2. QED
      BY <1>3, <1>12, <1>17, <3>1
  <2>3. Sending(role, PhaseRead', (setup \in sent)')
    <3>1. (setup \in sent)' <=> setup \in sent \/ phase = "out data"
      BY <1>3, <1>5
    <3>2. QED
      BY <1>3, <1>12, <1>17, <3>1 DEF Sending
  <2>4. Starting(role, Shape(setup), now["out"])'
    BY <1>6, <1>13, <1>17 DEF Starting
  <2>5. role \in RolesOf(Shape(setup)') /\ setup' = setup /\ setup # 0 /\ ~endptsetupstat'
    <3>1. ~endptsetupstat'
      BY <1>3
    <3>2. setup' = setup /\ setup # 0
      BY <1>5, <1>17
    <3>3. role \in RolesOf(Shape(setup)')
      <4>1. Shape(setup)' = Shape(setup)
        BY <1>17
      <4>2. QED
        BY <1>6, <4>1
    <3>4. QED
      BY <3>1, <3>2, <3>3
  <2>6. QED
    BY <2>1, <2>2, <2>3, <2>4, <2>5 DEF InProgress
<1>i. QED
  BY <1>13, <1>14, <1>a, <1>b, <1>c, <1>d, <1>o, <1>f, <1>g, <1>h DEF IInv

\* The host learns of a stall.
LEMMA StallStep == ASSUME IInv, HostStalled PROVE IInv'
<1>1. TypeInv /\ Reading /\ NoneTwice /\ Outcomes /\ SeenStill /\ Arrived /\ served = "own"
  BY DEF IInv
<1>2. PICK left \in SUBSET Endpoints, own \in [Endpoints -> States], role \in Roles :
             Completions(left, own) /\ InProgress(own, role)
  BY DEF IInv
<1>3. /\ phase # "idle" /\ ~endptsetupstat /\ stalled /\ phase' = "idle"
      /\ outcome' = [outcome EXCEPT ![Latest] = "stall"]
      /\ UNCHANGED <<issued, endptsetupstat, endptcomplete, stalled, queue, setup, streaming,
                     pc, seen, acted, sent, served>>
  BY DEF HostStalled, controller
<1>4. Latest = setup /\ setup \in 1 .. MaxRequests /\ PhaseRead = phase /\ Latest \in Nat
  <2>1. Latest = setup /\ PhaseRead = phase
    BY <1>1, <1>3 DEF Reading, PhaseRead
  <2>2. setup # 0
    BY <1>2, <1>3, <2>1 DEF InProgress
  <2>3. setup \in 0 .. MaxRequests /\ MaxRequests \in Nat
    BY <1>1, <2>1, ControlAssumption DEF TypeInv, Latest
  <2>4. QED
    BY <2>1, <2>2, <2>3
<1>5. /\ Told(role, "idle", own["in"]) = "stall"
      /\ Position(role, "idle", own["in"], own["out"], Did(setup), stalled)
      /\ role \in RolesOf(Shape(setup)) /\ Sending(role, "idle", setup \in sent)
      /\ Starting(role, Shape(setup), own["out"])
  <2>. DEFINE i == own["in"]
              o == own["out"]
              did == Did(setup)
              data == setup \in sent
  <2>1. /\ Position(role, phase, i, o, did, stalled) /\ Sending(role, phase, data)
        /\ role \in RolesOf(Shape(setup)) /\ Starting(role, Shape(setup), o)
    BY <1>2, <1>4 DEF InProgress
  <2>2. stalled = TRUE /\ phase \in Phases
    BY <1>1, <1>3 DEF TypeInv
  <2>s. SUFFICES /\ Told(role, "idle", i) = "stall" /\ Sending(role, "idle", data)
                 /\ Position(role, "idle", i, o, did, stalled)
    BY <2>1
  <2>. HIDE DEF i, o, did, data
  <2>3. role \in {"refuse", "reject", "dynamic"}
    BY <2>1, <2>2 DEF Position, Roles
  <2>4. CASE role = "refuse"
    BY <2>1, <2>2, <2>4 DEF Position, Told, Sending
  <2>5. CASE role = "reject"
    BY <1>3, <2>1, <2>2, <2>5 DEF Position, Told, Sending
  <2>6. CASE role = "dynamic"
    BY <1>3, <2>1, <2>2, <2>6 DEF Position, Told, Sending
  <2>7. QED
    BY <2>3, <2>4, <2>5, <2>6
<1>6. /\ setup' = setup /\ Latest' = Latest /\ PhaseRead' = "idle" /\ stalled' = stalled
      /\ streaming' = streaming /\ sent' = sent
      /\ \A n : Shape(n)' = Shape(n) /\ Did(n)' = Did(n)
      /\ Shape(setup)' = Shape(setup) /\ Did(setup)' = Did(setup)
  BY <1>3 DEF Latest, PhaseRead, Shape, Did
<1>7. /\ outcome' \in Seq(Results) /\ Len(outcome') = Len(outcome)
      /\ \A n \in 1 .. setup - 1 : outcome'[n] = outcome[n]
      /\ outcome'[setup] = "stall"
  <2>1. outcome \in Seq(Results) /\ Len(outcome) = setup /\ "stall" \in Results
    BY <1>1, <1>4 DEF TypeInv, Results
  <2>2. setup \in 1 .. Len(outcome) /\ outcome' = [outcome EXCEPT ![setup] = "stall"]
    BY <1>3, <1>4, <2>1
  <2>3. QED
    BY <1>4, <2>1, <2>2, ExceptSeq
<1>a. TypeInv'
  <2>1. phase' \in Phases
    BY <1>3 DEF Phases
  <2>2. QED
    BY <1>1, <1>3, <1>6, <1>7, <2>1 DEF TypeInv
<1>b. Reading' /\ NoneTwice' /\ SeenStill' /\ Arrived' /\ served' = "own"
  <2>1. Reading'
    BY <1>1, <1>3, <1>6 DEF Reading
  <2>2. NoneTwice' /\ SeenStill' /\ served' = "own"
    BY <1>1, <1>3 DEF NoneTwice, SeenStill
  <2>3. Arrived'
    BY <1>1, <1>3, <1>6 DEF Arrived
  <2>4. QED
    BY <2>1, <2>2, <2>3
<1>c. Outcomes'
  <2>1. \A n \in 1 .. setup - 1 : Settled(n)'
    BY <1>1, <1>6, <1>7 DEF Outcomes, Settled
  <2>2. QED
    BY <1>3, <1>6, <2>1 DEF Outcomes
<1>d. Completions(left, own)'
  <2>1. \A d \in Endpoints : Holds(d, d \in left, own[d])'
    BY <1>2, <1>3, <1>6 DEF Holds, Completions
  <2>2. QED
    BY <1>2, <1>3, <2>1 DEF Completions
<1>e. InProgress(own, role)'
  <2>1. Starting(role, Shape(setup), own["out"])'
    BY <1>5, <1>6 DEF Starting
  <2>2. /\ Position(role, PhaseRead', own["in"], own["out"], Did(setup)', stalled')
        /\ outcome'[setup] = Told(role, PhaseRead', own["in"])
        /\ Sending(role, PhaseRead', setup' \in sent')
    BY <1>5, <1>6, <1>7
  <2>3. role \in RolesOf(Shape(setup)') /\ setup' = setup /\ setup # 0 /\ ~endptsetupstat'
    BY <1>3, <1>4, <1>5, <1>6
  <2>4. QED
    BY <2>1, <2>2, <2>3 DEF InProgress
<1>f. QED
  BY <1>2, <1>a, <1>b, <1>c, <1>d, <1>e DEF IInv

\* Where a request stands once its SETUP packet has been handled.
LEMMA Opened ==
  ASSUME NEW s \in Kinds, NEW role, role = RoleAt(s), NEW did \in BOOLEAN, NEW stall \in BOOLEAN,
         did <=> role = "command", stall <=> role = "refuse", streaming \in BOOLEAN
  PROVE  /\ Position(role, FirstPhase(s), IF "in" \in Opening(role) THEN "primed" ELSE "none",
                     IF "out" \in Opening(role) THEN "primed" ELSE "none", did, stall)
         /\ FirstPhase(s) # "idle"
         /\ Sending(role, FirstPhase(s), FALSE)
         /\ role \in {"write", "dynamic"} /\ s \in Modes => ~streaming
<1>1. role \in RolesOf(s) /\ role \in Roles
  BY AtSetup
<1>2. CASE role = "read"
  <2>1. FirstPhase(s) = "in data" /\ Opening(role) = {"in", "out"} /\ ~did /\ ~stall
    BY <1>1, <1>2, RoleShape, KindsAre DEF FirstPhase, Opening
  <2>2. QED
    BY <1>2, <2>1 DEF Position, Sending
<1>3. CASE role = "flash"
  <2>1. FirstPhase(s) = "in data" /\ Opening(role) = {"in"} /\ ~did /\ ~stall
    BY <1>1, <1>3, RoleShape, KindsAre DEF FirstPhase, Opening
  <2>2. QED
    BY <1>3, <2>1 DEF Position, Sending
<1>4. CASE role = "command"
  <2>1. FirstPhase(s) = "in status" /\ Opening(role) = {"in"} /\ did /\ ~stall
    BY <1>1, <1>4, RoleShape, KindsAre DEF FirstPhase, Opening
  <2>2. QED
    BY <1>4, <2>1 DEF Position, Sending
<1>5. CASE role \in {"write", "reject", "dynamic"}
  <2>1. FirstPhase(s) = "out data" /\ Opening(role) = {"out"} /\ ~did /\ ~stall
    BY <1>1, <1>5, RoleShape, KindsAre DEF FirstPhase, Opening
  <2>2. s \in Modes => ~streaming
    BY <1>5, KindsAre DEF RoleAt
  <2>3. Position(role, "out data", "none", "primed", did, stall)
    BY <1>5, <2>1 DEF Position
  <2>4. Sending(role, "out data", FALSE)
    BY <1>5 DEF Sending
  <2>5. QED
    BY <2>1, <2>2, <2>3, <2>4
<1>6. CASE role = "refuse"
  <2>1. FirstPhase(s) \in {"in status", "out data"} /\ Opening(role) = {} /\ ~did /\ stall
    BY <1>1, <1>6, RoleShape, KindsAre DEF FirstPhase, Opening
  <2>2. QED
    BY <1>6, <2>1 DEF Position, Sending
<1>7. QED
  BY <1>1, <1>2, <1>3, <1>4, <1>5, <1>6 DEF Roles

\* A request joins the ones carried out.
LEMMA ActedOn ==
  ASSUME acted \in Seq(Nat), NoneTwice, NEW n \in Nat, ~Did(n), acted' = Append(acted, n)
  PROVE  /\ NoneTwice' /\ (\A m : m = n \/ Did(m) <=> Did(m)') /\ Did(n)'
         /\ \A i \in DOMAIN acted' : acted'[i] = n \/ (i \in DOMAIN acted /\ acted'[i] = acted[i])
<1>1. /\ Len(acted') = Len(acted) + 1 /\ DOMAIN acted' = 1 .. Len(acted) + 1
      /\ DOMAIN acted = 1 .. Len(acted) /\ Len(acted) \in Nat
      /\ acted'[Len(acted) + 1] = n /\ \A i \in 1 .. Len(acted) : acted'[i] = acted[i]
  BY AppendProperties
<1>2. \A i \in DOMAIN acted' : i = Len(acted) + 1 \/ i \in DOMAIN acted
  BY <1>1
<1>3. \A i \in DOMAIN acted : i \in DOMAIN acted' /\ acted[i] # n /\ acted'[i] = acted[i]
  <2>1. \A i \in DOMAIN acted : acted[i] # n
    BY DEF Did
  <2>2. 1 .. Len(acted) \subseteq 1 .. Len(acted) + 1
    BY <1>1
  <2>3. DOMAIN acted \subseteq DOMAIN acted' /\ \A i \in DOMAIN acted : acted'[i] = acted[i]
    BY <1>1, <2>2
  <2>4. QED
    BY <2>1, <2>3
<1>4. ASSUME NEW i \in DOMAIN acted'
      PROVE  acted'[i] = n \/ (i \in DOMAIN acted /\ acted'[i] = acted[i])
  <2>1. CASE i = Len(acted) + 1
    <3>1. acted'[Len(acted) + 1] = n
      BY <1>1
    <3>2. QED
      BY <2>1, <3>1
  <2>2. CASE i \in DOMAIN acted
    BY <1>3, <2>2
  <2>3. QED
    BY <1>2, <2>1, <2>2
<1>5. NoneTwice'
  BY <1>1, <1>2, <1>3 DEF NoneTwice
<1>6. Did(n)'
  BY <1>1 DEF Did
<1>7. ASSUME NEW m
      PROVE  m = n \/ Did(m) <=> Did(m)'
  BY <1>3, <1>4, <1>6 DEF Did
<1>8. QED
  BY <1>4, <1>5, <1>6, <1>7

\* What has come of a request that is over.
LEMMA DoneIs ==
  ASSUME TypeInv, Reading, NEW own \in [Endpoints -> States], NEW role \in Roles,
         InProgress(own, role), PhaseRead = "idle", setup > 0
  PROVE  Settled(setup)
<1>1. setup \in 1 .. Latest
  BY DEF TypeInv, Reading, Latest
<1>2. /\ Shape(setup) \in Kinds /\ outcome[setup] = Told(role, "idle", own["in"])
      /\ Position(role, "idle", own["in"], own["out"], Did(setup), stalled)
      /\ role \in RolesOf(Shape(setup))
  BY <1>1, Known DEF InProgress
<1>3. CASE role \in {"read", "flash", "dynamic"}
  <2>1. ~Did(setup)
    BY <1>2, <1>3 DEF Position
  <2>2. Shape(setup) \in Reads \cup {"dynamic"} /\ outcome[setup] \in {"ok", "stall"}
    BY <1>2, <1>3, RoleShape, KindsAre DEF Told
  <2>3. QED
    BY <2>1, <2>2 DEF Settled
<1>4. CASE role \in {"command", "write"}
  <2>1. Did(setup)
    BY <1>2, <1>4 DEF Position
  <2>2. Shape(setup) \notin Reads \cup {"dynamic"} /\ outcome[setup] = "ok"
    BY <1>2, <1>4, RoleShape, KindsAre DEF Told
  <2>3. QED
    BY <2>1, <2>2 DEF Settled
<1>5. CASE role \in {"refuse", "reject"}
  <2>1. ~Did(setup)
    BY <1>2, <1>5 DEF Position
  <2>2. outcome[setup] = "stall"
    BY <1>2, <1>5 DEF Told
  <2>3. QED
    BY <2>1, <2>2 DEF Settled
<1>6. QED
  BY <1>3, <1>4, <1>5 DEF Roles

\* The interrupt reads a SETUP packet: the transfers of the last request are left
\* behind, and the new one schedules its own.
LEMMA SetupStep == ASSUME IInv, IsrSetup, endptsetupstat PROVE IInv'
<1>1. TypeInv /\ Reading /\ NoneTwice /\ Outcomes /\ SeenStill /\ Arrived /\ served = "own"
  BY DEF IInv
<1>2. PICK left \in SUBSET Endpoints, own \in [Endpoints -> States], part \in Roles :
             Completions(left, own) /\ InProgress(own, part)
  BY DEF IInv
<1>3. PICK n : n = Latest
  OBVIOUS
<1>4. PICK s : s = Shape(n)
  OBVIOUS
<1>5. PICK r : r = Handler(s, "setup")
  OBVIOUS
<1>r. PICK role : role = RoleAt(s)
  OBVIOUS
<1>6. /\ pc = "idle" /\ setup' = n /\ endptsetupstat' = FALSE /\ pc' = "transfers"
      /\ \A e \in DOMAIN r.answers : CanSchedule(e)
      /\ acted' = IF r.acts THEN Append(acted, n) ELSE acted
      /\ stalled' = (stalled \/ r.stalls)
      /\ streaming' = IF r.acts /\ s \in Modes THEN s # "off" \/ "setup" = "data" ELSE streaming
      /\ queue' = With(n, r.answers)
      /\ UNCHANGED <<issued, phase, endptcomplete, seen, sent, outcome, served>>
  BY <1>3, <1>4, <1>5 DEF IsrSetup, UsbRequest, Queued, Refuses, host
<1>7. /\ n = setup + 1 /\ n \in 1 .. MaxRequests /\ setup \in Nat /\ n \in Nat /\ n > 0
      /\ phase = FirstPhase(s) /\ stalled = FALSE
  <2>1. Latest = setup + 1 /\ phase = FirstPhase(Shape(Latest)) /\ ~stalled
    BY <1>1 DEF Reading
  <2>2. stalled = FALSE
    BY <1>1, <2>1 DEF TypeInv
  <2>3. Latest \in 0 .. MaxRequests /\ MaxRequests \in Nat /\ setup \in Nat
    BY <1>1, ControlAssumption DEF TypeInv, Latest
  <2>4. n = setup + 1 /\ n \in 1 .. MaxRequests /\ setup \in Nat /\ n \in Nat /\ n > 0
    BY <1>3, <2>1, <2>3
  <2>5. QED
    BY <1>3, <1>4, <2>1, <2>2, <2>4
<1>8. s \in Kinds
  <2>1. n \in 1 .. Latest
    BY <1>3, <1>7
  <2>2. QED
    BY <1>1, <1>4, <2>1, Known
<1>s. streaming \in BOOLEAN
  BY <1>1 DEF TypeInv
<1>9. /\ Answers(r, s, Opening(role)) /\ (r.acts <=> role = "command")
      /\ (r.stalls <=> role = "refuse") /\ role \in RolesOf(s) /\ role \in Roles
  BY <1>5, <1>8, <1>r, <1>s, AtSetup
<1>10. \A e \in Endpoints : own[e] \in {"none", "done"}
  <2>1. PhaseRead = "idle"
    BY DEF PhaseRead
  <2>2. \A e \in Endpoints : own[e] \in {"none", "done", "handled"}
    BY <1>1, <1>2, <2>1, IdleOwn
  <2>3. QED
    BY <1>2, <1>6, <2>2 DEF Completions, Endpoints
<1>k. PICK behind : behind = {e \in Endpoints : own[e] = "done"}
  OBVIOUS
<1>w. PICK now : now = [e \in Endpoints |-> IF e \in Opening(role) THEN "primed" ELSE "none"]
  OBVIOUS
<1>11. now \in [Endpoints -> States] /\ behind \in SUBSET Endpoints /\ left = {}
  BY <1>2, <1>6, <1>k, <1>w DEF States, Completions
<1>12. ASSUME NEW e \in Endpoints
       PROVE  /\ queue'[e] \in Seq(Transfer) /\ Len(queue'[e]) <= POOL
              /\ Carries(queue'[e], n, KindIn(s, e), e \in behind, now[e])
  <2>1. queue[e] \in Seq(Transfer) /\ Len(queue[e]) <= POOL
    BY <1>1 DEF TypeInv
  <2>2. Carries(queue[e], setup, KindIn(Shape(setup), e), FALSE, own[e])
    BY <1>2, <1>11 DEF Completions, Holds, Carries
  <2>3. Carries(queue[e], n, KindIn(s, e), own[e] = "done", "none")
    <3>1. n # setup /\ own[e] \in {"none", "done"} /\ queue[e] \in Seq(Transfer)
      BY <1>7, <1>10, <2>1
    <3>2. QED
      BY <2>2, <3>1, LeftBehind
  <2>4. Carries(queue[e], n, KindIn(s, e), e \in behind, "none")
    BY <1>k, <2>3 DEF Carries
  <2>5. CASE e \in Opening(role)
    <3>1. /\ queue'[e] = Append(queue[e], Scheduled(n, KindIn(s, e)))
          /\ Len(queue[e]) < POOL
      BY <1>6, <1>9, <2>5 DEF With, Answers, CanSchedule
    <3>2. KindIn(s, e) \in {"data", "ack"} /\ now[e] = "primed"
      BY <1>w, <2>5 DEF KindIn
    <3>3. /\ Carries(queue'[e], n, KindIn(s, e), e \in behind, "primed")
          /\ queue'[e] \in Seq(Transfer) /\ Len(queue'[e]) = Len(queue[e]) + 1
      BY <1>7, <2>1, <2>4, <3>1, <3>2, Schedule
    <3>4. Len(queue'[e]) <= POOL
      BY <2>1, <3>1, <3>3, ControlAssumption
    <3>5. QED
      BY <3>2, <3>3, <3>4
  <2>6. CASE e \notin Opening(role)
    <3>1. queue'[e] = queue[e] /\ now[e] = "none"
      BY <1>6, <1>9, <1>w, <2>6 DEF With, Answers
    <3>2. QED
      BY <2>1, <2>4, <3>1
  <2>7. QED
    BY <2>5, <2>6
<1>13. ~Did(n)
  <2>1. \A i \in DOMAIN acted : acted[i] \in 1 .. setup
    BY <1>1 DEF TypeInv
  <2>2. QED
    BY <1>7, <2>1 DEF Did
<1>14. /\ acted' \in Seq(1 .. n) /\ NoneTwice' /\ Did(n)' = (role = "command")
       /\ \A m \in 1 .. setup : Did(m)' <=> Did(m)
       /\ \A i \in DOMAIN acted' :
            \/ acted'[i] = n /\ role = "command"
            \/ i \in DOMAIN acted /\ acted'[i] = acted[i]
  <2>1. acted \in Seq(1 .. n) /\ acted \in Seq(Nat) /\ n \in 1 .. n
    <3>1. acted \in Seq(1 .. setup) /\ 1 .. setup \subseteq 1 .. n /\ 1 .. setup \subseteq Nat
      BY <1>1, <1>7 DEF TypeInv
    <3>2. QED
      BY <1>7, <3>1, SeqMonotonic
  <2>2. CASE role = "command"
    <3>1. acted' = Append(acted, n)
      BY <1>6, <1>9, <2>2
    <3>2. acted' \in Seq(1 .. n)
      BY <2>1, <3>1, AppendProperties
    <3>3. \A m \in 1 .. setup : m # n
      BY <1>7
    <3>4. /\ NoneTwice' /\ (\A m : m = n \/ Did(m) <=> Did(m)') /\ Did(n)'
          /\ \A i \in DOMAIN acted' : acted'[i] = n \/ (i \in DOMAIN acted /\ acted'[i] = acted[i])
      BY <1>1, <1>7, <1>13, <2>1, <3>1, ActedOn
    <3>5. Did(n)' = TRUE
      BY <3>4 DEF Did
    <3>6. Did(n)' = (role = "command")
      <4>1. (role = "command") = TRUE
        BY <2>2
      <4>2. QED
        BY <3>5, <4>1
    <3>7. \A m \in 1 .. setup : Did(m)' <=> Did(m)
      BY <3>3, <3>4
    <3>8. QED
      BY <2>2, <3>2, <3>4, <3>6, <3>7
  <2>3. CASE role # "command"
    <3>1. acted' = acted
      BY <1>6, <1>9, <2>3
    <3>2. \A m : Did(m)' = Did(m)
      BY <3>1 DEF Did
    <3>3. Did(n)' = FALSE
      BY <1>13, <3>1 DEF Did
    <3>4. NoneTwice'
      BY <1>1, <3>1 DEF NoneTwice
    <3>5. Did(n)' = (role = "command")
      <4>1. (role = "command") = FALSE
        BY <2>3
      <4>2. QED
        BY <3>3, <4>1
    <3>6. \A m \in 1 .. setup : Did(m)' <=> Did(m)
      BY <3>2
    <3>7. \A i \in DOMAIN acted' : i \in DOMAIN acted /\ acted'[i] = acted[i]
      BY <3>1
    <3>8. QED
      BY <2>1, <3>1, <3>4, <3>5, <3>6, <3>7
  <2>4. QED
    BY <2>2, <2>3
<1>15. /\ Latest' = Latest /\ \A m : Shape(m)' = Shape(m) /\ outcome'[m] = outcome[m]
       /\ Shape(setup)' = s
  BY <1>4, <1>6 DEF Latest, Shape
<1>16. stalled' = (role = "refuse") /\ stalled' \in BOOLEAN /\ streaming' \in BOOLEAN
  BY <1>6, <1>7, <1>9, <1>s
<1>a. TypeInv'
  <2>1. queue' \in [Endpoints -> Seq(Transfer)]
    BY <1>6, <1>12 DEF With
  <2>2. pc' \in {"idle", "transfers", "refuse"} \cup Endpoints
    BY <1>6
  <2>3. QED
    BY <1>1, <1>6, <1>7, <1>12, <1>14, <1>15, <1>16, <2>1, <2>2 DEF TypeInv
<1>b. Reading'
  BY <1>3, <1>6, <1>15 DEF Reading
<1>c. Outcomes'
  <2>1. outcome[n] = "none" /\ \A m \in 1 .. setup - 1 : Settled(m)
    BY <1>1, <1>3 DEF Outcomes
  <2>2. ASSUME NEW m \in 1 .. setup' - 1
        PROVE  Settled(m)'
    <3>1. m \in 1 .. setup
      BY <1>6, <1>7, <2>2
    <3>2. Settled(m)
      <4>1. CASE m = setup
        <5>1. PhaseRead = "idle" /\ setup > 0
          BY <1>7, <3>1, <4>1 DEF PhaseRead
        <5>2. QED
          BY <1>1, <1>2, <4>1, <5>1, DoneIs
      <4>2. CASE m # setup
        BY <1>7, <2>1, <3>1, <4>2
      <4>3. QED
        BY <4>1, <4>2
    <3>3. QED
      BY <1>14, <1>15, <3>1, <3>2 DEF Settled
  <2>3. QED
    BY <1>6, <2>2 DEF Outcomes
<1>d. Arrived'
  <2>1. role = "command" => s \notin Writes
    BY <1>8, <1>9, RoleShape, KindsAre
  <2>2. ASSUME NEW i \in DOMAIN acted', Shape(acted[i])' \in Writes
        PROVE  acted'[i] \in sent'
    <3>1. CASE acted'[i] = n /\ role = "command"
      BY <1>4, <1>15, <2>1, <2>2, <3>1 DEF Shape
    <3>2. CASE i \in DOMAIN acted /\ acted'[i] = acted[i]
      BY <1>1, <1>6, <1>15, <2>2, <3>2 DEF Arrived, Shape
    <3>3. QED
      BY <1>14, <3>1, <3>2
  <2>3. QED
    BY <2>2 DEF Arrived
<1>e. SeenStill' /\ served' = "own"
  BY <1>1, <1>6 DEF SeenStill
<1>f. Completions(behind, now)'
  <2>1. \A e \in Endpoints : Holds(e, e \in behind, now[e])'
    BY <1>6, <1>12, <1>15 DEF Holds
  <2>2. \A e \in Endpoints : e \in endptcomplete' <=> e \in behind \/ now[e] = "done"
    BY <1>2, <1>6, <1>11, <1>k, <1>w DEF Completions
  <2>3. \A e \in Endpoints : now[e] # "handled"
    BY <1>w
  <2>4. pc' = "transfers" /\ setup' # 0
    BY <1>6, <1>7
  <2>5. QED
    BY <2>1, <2>2, <2>3, <2>4 DEF Completions, Endpoints
<1>g. InProgress(now, role)'
  <2>1. PhaseRead' = FirstPhase(s)
    BY <1>6, <1>7 DEF PhaseRead
  <2>2. /\ now["in"] = IF "in" \in Opening(role) THEN "primed" ELSE "none"
        /\ now["out"] = IF "out" \in Opening(role) THEN "primed" ELSE "none"
    BY <1>w DEF Endpoints
  <2>3. PICK did, stall : did = (role = "command") /\ stall = (role = "refuse")
    OBVIOUS
  <2>4. /\ Position(role, FirstPhase(s), now["in"], now["out"], did, stall)
        /\ FirstPhase(s) # "idle" /\ Sending(role, FirstPhase(s), FALSE)
        /\ role \in {"write", "dynamic"} /\ s \in Modes => ~streaming
    <3>1. did \in BOOLEAN /\ stall \in BOOLEAN /\ (did <=> role = "command")
          /\ (stall <=> role = "refuse")
      BY <2>3
    <3>2. QED
      BY <1>8, <1>r, <1>s, <2>2, <3>1, Opened
  <2>5. Position(role, PhaseRead', now["in"], now["out"], Did(n)', stalled')
    BY <1>14, <1>16, <2>1, <2>3, <2>4
  <2>6. Did(setup)' = Did(n)' /\ setup' = n /\ n # 0 /\ ~endptsetupstat'
    BY <1>6, <1>7 DEF Did
  <2>7. outcome'[setup'] = "none" /\ Told(role, PhaseRead', now["in"]) = "none"
    BY <1>1, <1>3, <1>6, <1>15, <2>1, <2>4 DEF Outcomes, Told
  <2>8. Sending(role, PhaseRead', setup' \in sent')
    <3>1. n \notin sent
      BY <1>1, <1>3 DEF Outcomes
    <3>2. (setup' \in sent') = FALSE
      BY <1>6, <3>1
    <3>3. QED
      BY <2>1, <2>4, <3>2
  <2>9. Starting(role, Shape(setup), now["out"])'
    <3>1. role # "command" => streaming' = streaming
      BY <1>6, <1>9
    <3>2. role \in {"write", "dynamic"} /\ s \in Modes => ~streaming'
      BY <2>4, <3>1
    <3>3. QED
      BY <1>15, <3>2 DEF Starting
  <2>10. role \in RolesOf(Shape(setup)')
    BY <1>9, <1>15
  <2>11. QED
    BY <2>5, <2>6, <2>7, <2>8, <2>9, <2>10 DEF InProgress
<1>h. QED
  BY <1>9, <1>11, <1>14, <1>a, <1>b, <1>c, <1>d, <1>e, <1>f, <1>g DEF IInv

\* The interrupt goes on without touching the queues.
LEMMA OnwardStep ==
  ASSUME IInv, pc' \in {"idle", "transfers", "refuse"} \cup Endpoints, seen' \subseteq Endpoints,
         SeenStill', pc = "refuse" <=> pc' = "refuse",
         UNCHANGED <<issued, phase, endptsetupstat, endptcomplete, stalled, queue, setup,
                     streaming, acted, sent, outcome, served>>,
         ASSUME NEW left \in SUBSET endptcomplete, pc = "idle" => left = {},
                pc = "out" => left \subseteq seen,
                pc \in {"refuse", "in"} => left \subseteq seen \cap {"in"}
         PROVE  /\ pc' = "idle" => left = {}
                /\ pc' = "out" => left \subseteq seen'
                /\ pc' \in {"refuse", "in"} => left \subseteq seen' \cap {"in"}
  PROVE  IInv'
<1>1. TypeInv /\ Reading /\ NoneTwice /\ Outcomes /\ SeenStill /\ Arrived /\ served = "own"
  BY DEF IInv
<1>2. PICK left \in SUBSET Endpoints, own \in [Endpoints -> States], role \in Roles :
             Completions(left, own) /\ InProgress(own, role)
  BY DEF IInv
<1>3. /\ setup' = setup /\ Latest' = Latest /\ PhaseRead' = PhaseRead /\ stalled' = stalled
      /\ \A n : Shape(n)' = Shape(n) /\ Did(n)' = Did(n) /\ outcome'[n] = outcome[n]
      /\ Shape(setup)' = Shape(setup) /\ Did(setup)' = Did(setup)
  BY DEF Latest, PhaseRead, Shape, Did
<1>4. TypeInv'
  BY <1>1, <1>3 DEF TypeInv
<1>5. Reading' /\ NoneTwice' /\ Arrived' /\ served' = "own"
  <2>1. Reading'
    BY <1>1, <1>3 DEF Reading
  <2>2. NoneTwice' /\ served' = "own"
    BY <1>1 DEF NoneTwice
  <2>3. Arrived'
    BY <1>1, <1>3 DEF Arrived
  <2>4. QED
    BY <2>1, <2>2, <2>3
<1>6. Outcomes'
  <2>1. \A n \in 1 .. setup - 1 : Settled(n)'
    BY <1>1, <1>3 DEF Outcomes, Settled
  <2>2. QED
    BY <1>1, <1>3, <2>1 DEF Outcomes
<1>7. Completions(left, own)'
  <2>1. \A e \in Endpoints : Holds(e, e \in left, own[e])'
    BY <1>2, <1>3 DEF Holds, Completions
  <2>2. left \subseteq endptcomplete
    BY <1>2 DEF Completions
  <2>3. /\ pc' = "idle" => left = {}
        /\ pc' = "out" => left \subseteq seen'
        /\ pc' \in {"refuse", "in"} => left \subseteq seen' \cap {"in"}
    BY <1>2, <2>2 DEF Completions
  <2>4. /\ \A e \in Endpoints : e \in endptcomplete' <=> e \in left \/ own[e] = "done"
        /\ own["out"] = "handled" <=> pc' = "refuse"
        /\ own["in"] # "handled"
        /\ setup' = 0 => left = {}
    BY <1>2, <1>3 DEF Completions
  <2>5. QED
    BY <2>1, <2>3, <2>4 DEF Completions
<1>8. InProgress(own, role)'
  <2>1. Starting(role, Shape(setup), own["out"])' = Starting(role, Shape(setup), own["out"])
    BY <1>3 DEF Starting
  <2>2. (setup \in sent)' = (setup \in sent) /\ endptsetupstat' = endptsetupstat
    BY <1>3
  <2>3. QED
    BY <1>2, <1>3, <2>1, <2>2 DEF InProgress
<1>9. QED
  BY <1>2, <1>4, <1>5, <1>6, <1>7, <1>8 DEF IInv

LEMMA TransfersStep == ASSUME IInv, IsrTransfers PROVE IInv'
<1>1. /\ pc = "transfers" /\ pc' = "out" /\ seen' = endptcomplete
      /\ UNCHANGED <<issued, phase, endptsetupstat, endptcomplete, stalled, queue, setup,
                     streaming, acted, sent, outcome, served>>
  BY DEF IsrTransfers, host, controller, ghosts
<1>2. endptcomplete \subseteq Endpoints
  BY DEF IInv, TypeInv
<1>3. pc' \in {"idle", "transfers", "refuse"} \cup Endpoints /\ SeenStill'
  BY <1>1 DEF Endpoints, SeenStill
<1>4. QED
  BY <1>1, <1>2, <1>3, OnwardStep

LEMMA NoSetupStep == ASSUME IInv, IsrSetup, ~endptsetupstat PROVE IInv'
<1>1. /\ pc = "idle" /\ pc' = "transfers"
      /\ UNCHANGED <<issued, phase, endptsetupstat, endptcomplete, stalled, queue, setup, seen,
                     streaming, acted, sent, outcome, served>>
  BY DEF IsrSetup, host
<1>2. seen' \subseteq Endpoints
  BY <1>1 DEF IInv, TypeInv
<1>3. pc' \in {"idle", "transfers", "refuse"} \cup Endpoints /\ SeenStill'
  BY <1>1 DEF SeenStill
<1>4. QED
  BY <1>1, <1>2, <1>3, OnwardStep

LEMMA UnseenStep ==
  ASSUME IInv, NEW e, NEW following, (e = "out" /\ following = "in") \/ (e = "in" /\ following = "idle"),
         Complete(e, following), e \notin seen
  PROVE  IInv'
<1>1. /\ pc = e /\ pc' = following
      /\ UNCHANGED <<issued, phase, endptsetupstat, endptcomplete, stalled, queue, setup, seen,
                     streaming, acted, sent, outcome, served>>
  BY DEF Complete, host
<1>2. seen \subseteq Endpoints /\ SeenStill
  BY DEF IInv, TypeInv
<1>3. /\ pc' \in {"idle", "transfers", "refuse"} \cup Endpoints /\ SeenStill'
      /\ seen' \subseteq Endpoints /\ pc # "refuse" /\ pc' # "refuse"
  BY <1>1, <1>2 DEF Endpoints, SeenStill
<1>4. ASSUME NEW left \in SUBSET endptcomplete, pc = "out" => left \subseteq seen,
             pc \in {"refuse", "in"} => left \subseteq seen \cap {"in"}
      PROVE  /\ pc' = "idle" => left = {}
             /\ pc' = "out" => left \subseteq seen'
             /\ pc' \in {"refuse", "in"} => left \subseteq seen' \cap {"in"}
  BY <1>1, <1>2, <1>4 DEF Endpoints
<1>5. QED
  BY <1>1, <1>3, <1>4, OnwardStep

\* A handler with answers, or one that refuses, does something.
LEMMA NothingIs ==
  /\ DOMAIN Nothing.answers = {} /\ ~Nothing.acts /\ ~Nothing.stalls
  /\ \A r, s : Answers(r, s, {"in"}) \/ Answers(r, s, {"out"}) => r # Nothing
<1>1. DOMAIN Nothing.answers = {} /\ ~Nothing.acts /\ ~Nothing.stalls
  BY DEF Nothing, Response
<1>2. QED
  BY <1>1 DEF Answers

\* The data of a request that sends it are always acted upon, or refused.
LEMMA DataMatters ==
  ASSUME NEW s \in Kinds, NEW role \in RolesOf(s), role \in {"write", "reject", "dynamic"}
  PROVE  StageIn(s, "out") = "data" /\ Handler(s, "data") # Nothing
<1>1. s \in {"write", "follow", "reject", "dynamic"}
  BY RoleShape
<1>2. StageIn(s, "out") = "data"
  BY <1>1, KindsOf, KindsAre
<1>3. CASE s = "write"
  BY <1>2, <1>3, WriteData, NothingIs
<1>4. CASE s = "reject"
  BY <1>2, <1>4, RejectData, NothingIs
<1>5. CASE s \in {"follow", "dynamic"}
  <2>1. Answers(Handler(s, "data"), s, {"in"})
    BY <1>5, KindsAre, ModeData
  <2>2. QED
    BY <1>2, <2>1, NothingIs
<1>6. QED
  BY <1>1, <1>3, <1>4, <1>5

\* The request is where it was.
Stays(role, p, own, now, did, stall) ==
  /\ Position(role, p, now["in"], now["out"], did, stall)
  /\ Told(role, p, now["in"]) = Told(role, p, own["in"])

\* A completion in which the handler has nothing to do leaves the request where it is.
LEMMA CalmCompletion ==
  ASSUME NEW s \in Kinds, NEW role \in RolesOf(s), NEW p, NEW own \in [Endpoints -> States],
         NEW did, NEW stall, NEW e \in Endpoints, NEW now,
         Position(role, p, own["in"], own["out"], did, stall),
         own["in"] # "handled", own["out"] # "handled",
         Handler(s, StageIn(s, e)) = Nothing,
         now = [own EXCEPT ![e] = IF own[e] = "primed" THEN "primed" ELSE "none"]
  PROVE  Stays(role, p, own, now, did, stall)
<1>. USE DEF Stays
<1>. DEFINE i == own["in"]
            o == own["out"]
<1>1. /\ i \in States \ {"handled"} /\ o \in States \ {"handled"} /\ e \in {"in", "out"}
      /\ Position(role, p, i, o, did, stall) /\ role \in Roles
  BY RoleShape DEF Endpoints
<1>2. /\ now["in"] = IF e = "in" THEN (IF i = "primed" THEN "primed" ELSE "none") ELSE i
      /\ now["out"] = IF e = "out" THEN (IF o = "primed" THEN "primed" ELSE "none") ELSE o
  BY DEF Endpoints
<1>. HIDE DEF i, o
<1>. DEFINE ni == now["in"]
            no == now["out"]
<1>3. /\ ni = IF e = "in" THEN (IF i = "primed" THEN "primed" ELSE "none") ELSE i
      /\ no = IF e = "out" THEN (IF o = "primed" THEN "primed" ELSE "none") ELSE o
  BY <1>2
<1>4. Told(role, p, ni) = Told(role, p, i)
  BY <1>3 DEF Told
<1>. SUFFICES Position(role, p, ni, no, did, stall)
  BY <1>4 DEF i
<1>. HIDE DEF ni, no
<1>5. CASE role = "read"
  BY <1>1, <1>3, <1>5 DEF Position, States
<1>6. CASE role = "flash"
  <2>1. e # "in"
    <3>1. s = "flash"
      BY <1>6, RoleShape
    <3>2. StageIn("flash", "in") = "data" /\ Handler("flash", "data") # Nothing
      BY FlashData, NothingIs, KindsOf
    <3>3. QED
      BY <3>1, <3>2
  <2>2. QED
    BY <1>1, <1>3, <1>6, <2>1 DEF Position, States
<1>7. CASE role = "command"
  BY <1>1, <1>3, <1>7 DEF Position, States
<1>8. CASE role \in {"write", "reject", "dynamic"}
  <2>1. e = "in"
    BY <1>1, <1>8, DataMatters
  <2>2. CASE role = "write"
    BY <1>1, <1>3, <2>1, <2>2 DEF Position, States
  <2>3. CASE role = "reject"
    BY <1>1, <1>3, <2>1, <2>3 DEF Position, States
  <2>4. CASE role = "dynamic"
    BY <1>1, <1>3, <2>1, <2>4 DEF Position, States
  <2>5. QED
    BY <1>8, <2>2, <2>3, <2>4
<1>9. CASE role = "refuse"
  BY <1>1, <1>3, <1>9 DEF Position, States
<1>10. QED
  BY <1>1, <1>5, <1>6, <1>7, <1>8, <1>9 DEF Roles

\* The data of a request that is read, or of one that writes, has arrived.
Turns(role, p, own, e) ==
  \/ role = "flash" /\ e = "in" /\ p = "out status" /\ own["out"] = "none"
  \/ role \in {"write", "reject", "dynamic"} /\ e = "out" /\ p = "in status" /\ own["in"] = "none"

\* The completions in which a handler does something.
LEMMA DataCompletion ==
  ASSUME NEW s \in Kinds, NEW role \in RolesOf(s), NEW p, NEW own \in [Endpoints -> States],
         NEW did, NEW stall, NEW e \in Endpoints,
         Position(role, p, own["in"], own["out"], did, stall),
         own[e] = "done", own["out"] # "handled", Handler(s, StageIn(s, e)) # Nothing
  PROVE  ~did /\ ~stall /\ Turns(role, p, own, e)
<1>. USE DEF Turns
<1>. DEFINE i == own["in"]
            o == own["out"]
<1>1. /\ StageIn(s, e) \in {"data", "status"} /\ e \in {"in", "out"} /\ role \in Roles
      /\ Position(role, p, i, o, did, stall) /\ o # "handled"
      /\ (IF e = "in" THEN i ELSE o) = "done"
  BY RoleShape DEF StageIn, Endpoints
<1>2. StageIn(s, e) = "data"
  BY <1>1, QuietStages
<1>3. CASE role \in {"read", "flash"}
  <2>1. s = "flash" /\ role = "flash"
    BY <1>1, <1>3, QuietStages, RoleShape
  <2>2. StageIn("flash", "out") = "status"
    BY KindsOf
  <2>3. e = "in"
    BY <1>1, <1>2, <2>1, <2>2
  <2>. HIDE DEF i, o
  <2>4. /\ ~did /\ ~stall /\ p = "out status" /\ o = "none"
    BY <1>1, <2>1, <2>3 DEF Position
  <2>5. QED
    BY <2>1, <2>3, <2>4 DEF o
<1>4. CASE role \notin {"read", "flash"}
  <2>1. e = "out"
    <3>1. StageIn(s, "in") = "status"
      BY <1>4, RoleShape, KindsOf, KindsAre
    <3>2. QED
      BY <1>1, <1>2, <3>1
  <2>. HIDE DEF i, o
  <2>2. /\ role \in {"write", "reject", "dynamic"} /\ ~did /\ ~stall /\ p = "in status"
        /\ i = "none"
    BY <1>1, <1>4, <2>1 DEF Position, Roles
  <2>3. QED
    BY <2>1, <2>2 DEF i
<1>5. QED
  BY <1>3, <1>4

\* The request has no transfer on the given ends.
Free(own, ends) == ends \subseteq {d \in Endpoints : own[d] = "none"}

\* Its transfers once a completion on e has been handled, with answers on the given ends.
Handled(own, e, ends, refused) ==
  [d \in Endpoints |->
     IF d = e THEN (IF refused THEN "handled" ELSE IF own[e] = "primed" THEN "primed" ELSE "none")
              ELSE IF d \in ends THEN "primed" ELSE own[d]]

\* A completion is handled: the handler's answers are scheduled, and its endpoint
\* gives back what has finished, at once or when the endpoints have been stalled.
LEMMA CompletedStep ==
  ASSUME IInv, NEW e \in Endpoints, NEW following,
         (e = "out" /\ following = "in") \/ (e = "in" /\ following = "idle"),
         Complete(e, following), e \in seen,
         NEW left \in SUBSET Endpoints, NEW own \in [Endpoints -> States], NEW role \in Roles,
         Completions(left, own), InProgress(own, role), setup > 0,
         NEW r, r = Handler(Shape(setup), StageIn(Shape(setup), e)),
         NEW ends, Free(own, ends), e \notin ends, Answers(r, Shape(setup), ends),
         ends # {} => ~endptsetupstat,
         NEW now, now = Handled(own, e, ends, r.stalls),
         r.acts => ~Did(setup) /\ setup \in sent,
         r.stalls => e = "out" /\ own[e] = "done" /\ e \notin left,
         Position(role, PhaseRead, now["in"], now["out"], Did(setup)', stalled),
         Told(role, PhaseRead, now["in"]) = Told(role, PhaseRead, own["in"]),
         role \in {"write", "dynamic"} /\ Shape(setup) \in Modes
           /\ now["out"] \in {"primed", "done"} => ~streaming',
         streaming' \in BOOLEAN
  PROVE  IInv'
<1>0. now = [d \in Endpoints |->
               IF d = e THEN (IF r.stalls THEN "handled"
                              ELSE IF own[e] = "primed" THEN "primed" ELSE "none")
                        ELSE IF d \in ends THEN "primed" ELSE own[d]]
  BY DEF Handled
<1>1. TypeInv /\ Reading /\ NoneTwice /\ Outcomes /\ SeenStill /\ Arrived /\ served = "own"
  BY DEF IInv
<1>2. /\ pc = e /\ pc' = (IF r.stalls THEN "refuse" ELSE following)
      /\ endptcomplete' = endptcomplete \ {e}
      /\ \A d \in DOMAIN r.answers : CanSchedule(d)
      /\ acted' = IF r.acts THEN Append(acted, setup) ELSE acted
      /\ queue' = IF r.stalls THEN With(setup, r.answers)
                              ELSE [With(setup, r.answers) EXCEPT ![e] = Retired(@)]
      /\ UNCHANGED <<issued, phase, endptsetupstat, stalled, setup, seen, sent, outcome, served>>
  <2>1. StageOf(e) = StageIn(Shape(setup), e)
    BY DEF StageOf
  <2>2. Refuses(setup, StageOf(e)) = r.stalls
    BY <2>1 DEF Refuses
  <2>3. QED
    BY <2>1, <2>2 DEF Complete, UsbRequest, Queued, host
<1>3. /\ setup' = setup /\ Latest' = Latest /\ PhaseRead' = PhaseRead
      /\ \A m : Shape(m)' = Shape(m) /\ outcome'[m] = outcome[m]
      /\ Shape(setup)' = Shape(setup)
  BY <1>2 DEF Latest, PhaseRead, Shape
<1>4. setup \in 1 .. MaxRequests /\ setup \in 1 .. setup /\ setup \in Nat
  <2>1. Latest \in 0 .. MaxRequests /\ MaxRequests \in Nat /\ setup \in Nat
    BY <1>1, ControlAssumption DEF TypeInv, Latest
  <2>2. setup <= Latest
    BY <1>1, <2>1 DEF Reading
  <2>3. QED
    BY <2>1, <2>2
<1>5. now \in [Endpoints -> States]
  BY <1>0 DEF States
<1>6. ASSUME NEW d \in Endpoints
      PROVE  /\ queue'[d] \in Seq(Transfer) /\ Len(queue'[d]) <= POOL
             /\ Carries(queue'[d], setup, KindIn(Shape(setup), d), d \in left \ {e}, now[d])
  <2>1. /\ queue[d] \in Seq(Transfer) /\ Len(queue[d]) <= POOL
        /\ Carries(queue[d], setup, KindIn(Shape(setup), d), d \in left, own[d])
    BY <1>1 DEF TypeInv, Completions, Holds
  <2>2. CASE d = e /\ ~r.stalls
    <3>1. queue'[d] = Retired(queue[d])
      BY <1>2, <2>2 DEF With, Answers
    <3>2. now[d] = IF own[d] = "primed" THEN "primed" ELSE "none"
      BY <1>0, <2>2
    <3>3. /\ Carries(queue'[d], setup, KindIn(Shape(setup), d), FALSE, now[d])
          /\ queue'[d] \in Seq(Transfer) /\ Len(queue'[d]) <= Len(queue[d])
      BY <2>1, <3>1, <3>2, Retire
    <3>4. Carries(queue'[d], setup, KindIn(Shape(setup), d), d \in left \ {e}, now[d])
      BY <2>2, <3>3 DEF Carries
    <3>5. Len(queue'[d]) <= POOL
      BY <2>1, <3>3, ControlAssumption
    <3>6. QED
      BY <3>3, <3>4, <3>5
  <2>3. CASE d = e /\ r.stalls
    <3>1. queue'[d] = queue[d]
      BY <1>2, <2>3 DEF With, Answers
    <3>2. now[d] = "handled" /\ own[d] = "done" /\ d \notin left
      BY <1>0, <2>3
    <3>3. Carries(queue[d], setup, KindIn(Shape(setup), d), d \in left \ {e}, "handled")
      BY <2>1, <3>2 DEF Carries
    <3>4. QED
      BY <2>1, <3>1, <3>2, <3>3
  <2>4. CASE d # e /\ d \in ends
    <3>1. queue'[d] = Append(queue[d], Scheduled(setup, KindIn(Shape(setup), d))) /\ Len(queue[d]) < POOL
      BY <1>2, <2>4 DEF With, Answers, CanSchedule
    <3>2. KindIn(Shape(setup), d) \in {"data", "ack"} /\ now[d] = "primed" /\ own[d] = "none"
      BY <1>0, <2>4 DEF KindIn, Free
    <3>3. /\ Carries(queue'[d], setup, KindIn(Shape(setup), d), d \in left, "primed")
          /\ queue'[d] \in Seq(Transfer) /\ Len(queue'[d]) = Len(queue[d]) + 1
      BY <1>4, <2>1, <3>1, <3>2, Schedule
    <3>4. Carries(queue'[d], setup, KindIn(Shape(setup), d), d \in left \ {e}, now[d])
      BY <2>4, <3>2, <3>3 DEF Carries
    <3>5. Len(queue'[d]) <= POOL
      BY <2>1, <3>1, <3>3, ControlAssumption
    <3>6. QED
      BY <3>3, <3>4, <3>5
  <2>5. CASE d # e /\ d \notin ends
    <3>1. queue'[d] = queue[d] /\ now[d] = own[d]
      BY <1>0, <1>2, <2>5 DEF With, Answers
    <3>2. Carries(queue'[d], setup, KindIn(Shape(setup), d), d \in left \ {e}, now[d])
      BY <2>1, <2>5, <3>1 DEF Carries
    <3>3. QED
      BY <2>1, <3>1, <3>2
  <2>6. QED
    BY <2>2, <2>3, <2>4, <2>5
<1>7. /\ acted' \in Seq(1 .. setup) /\ NoneTwice'
      /\ \A m \in 1 .. setup - 1 : Did(m)' <=> Did(m)
      /\ \A i \in DOMAIN acted' :
           \/ acted'[i] = setup /\ setup \in sent
           \/ i \in DOMAIN acted /\ acted'[i] = acted[i]
  <2>1. acted \in Seq(1 .. setup) /\ acted \in Seq(Nat)
    <3>1. acted \in Seq(1 .. setup) /\ 1 .. setup \subseteq Nat
      BY <1>1 DEF TypeInv
    <3>2. QED
      BY <3>1, SeqMonotonic
  <2>2. CASE r.acts
    <3>1. acted' = Append(acted, setup) /\ ~Did(setup) /\ setup \in sent
      BY <1>2, <2>2
    <3>2. acted' \in Seq(1 .. setup)
      BY <1>4, <2>1, <3>1, AppendProperties
    <3>3. \A m \in 1 .. setup - 1 : m # setup
      BY <1>4
    <3>. DEFINE n == setup
    <3>4. /\ NoneTwice' /\ (\A m : m = n \/ Did(m) <=> Did(m)')
          /\ \A i \in DOMAIN acted' : acted'[i] = n \/ (i \in DOMAIN acted /\ acted'[i] = acted[i])
      BY <1>1, <1>4, <2>1, <3>1, ActedOn
    <3>5. QED
      BY <3>1, <3>2, <3>3, <3>4
  <2>3. CASE ~r.acts
    <3>1. acted' = acted
      BY <1>2, <2>3
    <3>2. \A m : Did(m)' = Did(m)
      BY <3>1 DEF Did
    <3>3. NoneTwice'
      BY <1>1, <3>1 DEF NoneTwice
    <3>4. \A m \in 1 .. setup - 1 : Did(m)' <=> Did(m)
      BY <3>2
    <3>5. QED
      BY <2>1, <3>1, <3>3, <3>4
  <2>4. QED
    BY <2>2, <2>3
<1>a. TypeInv'
  <2>1. queue' \in [Endpoints -> Seq(Transfer)]
    <3>1. DOMAIN queue' = Endpoints /\ queue' = [d \in DOMAIN queue' |-> queue'[d]]
      BY <1>2 DEF With
    <3>2. QED
      BY <1>6, <3>1
  <2>2. pc' \in {"idle", "transfers", "refuse"} \cup Endpoints
    BY <1>2 DEF Endpoints
  <2>3. endptcomplete' \subseteq Endpoints
    BY <1>1, <1>2 DEF TypeInv
  <2>4. QED
    BY <1>1, <1>2, <1>3, <1>6, <1>7, <2>1, <2>2, <2>3 DEF TypeInv
<1>b. Reading'
  BY <1>1, <1>2, <1>3 DEF Reading
<1>c. Outcomes'
  <2>1. \A m \in 1 .. setup - 1 : Settled(m)'
    BY <1>1, <1>3, <1>7 DEF Outcomes, Settled
  <2>2. QED
    BY <1>1, <1>2, <1>3, <2>1 DEF Outcomes
<1>d. SeenStill' /\ served' = "own"
  BY <1>1, <1>2 DEF SeenStill
<1>e. Arrived'
  <2>1. ASSUME NEW i \in DOMAIN acted', Shape(acted[i])' \in Writes
        PROVE  acted'[i] \in sent'
    <3>1. CASE acted'[i] = setup /\ setup \in sent
      BY <1>2, <3>1
    <3>2. CASE i \in DOMAIN acted /\ acted'[i] = acted[i]
      BY <1>1, <1>2, <1>3, <2>1, <3>2 DEF Arrived, Shape
    <3>3. QED
      BY <1>7, <3>1, <3>2
  <2>2. QED
    BY <2>1 DEF Arrived
<1>f. Completions(left \ {e}, now)'
  <2>1. \A d \in Endpoints : Holds(d, d \in left \ {e}, now[d])'
    BY <1>3, <1>6 DEF Holds
  <2>2. ASSUME NEW d \in Endpoints
        PROVE  d \in endptcomplete' <=> d \in left \ {e} \/ now[d] = "done"
    BY <1>0, <1>2 DEF Completions, Free
  <2>3. /\ now["out"] = "handled" <=> pc' = "refuse"
        /\ now["in"] # "handled"
    BY <1>0, <1>2 DEF Completions, Endpoints
  <2>4. /\ pc' = "idle" => left \ {e} = {}
        /\ pc' = "out" => left \ {e} \subseteq seen'
        /\ pc' \in {"refuse", "in"} => left \ {e} \subseteq seen' \cap {"in"}
        /\ setup' = 0 => left \ {e} = {}
    BY <1>2, <1>3 DEF Completions, Endpoints
  <2>5. QED
    BY <2>1, <2>2, <2>3, <2>4 DEF Completions
<1>g. InProgress(now, role)'
  <2>1. /\ outcome[setup] = Told(role, PhaseRead, own["in"])
        /\ role \in RolesOf(Shape(setup)) /\ Sending(role, PhaseRead, setup \in sent)
        /\ endptsetupstat => \A d \in Endpoints : own[d] # "primed"
    BY DEF InProgress
  <2>2. Starting(role, Shape(setup), now["out"])'
    BY <1>3 DEF Starting
  <2>3. endptsetupstat' => \A d \in Endpoints : now[d] # "primed"
    BY <1>0, <1>2, <2>1
  <2>4. /\ Position(role, PhaseRead', now["in"], now["out"], Did(setup)', stalled')
        /\ outcome'[setup] = Told(role, PhaseRead', now["in"])
        /\ Sending(role, PhaseRead', (setup \in sent)')
    <3>1. (setup \in sent)' = (setup \in sent) /\ stalled' = stalled
      BY <1>2
    <3>2. QED
      BY <1>3, <2>1, <3>1
  <2>5. role \in RolesOf(Shape(setup)') /\ setup' = setup /\ setup # 0
    BY <1>3, <2>1
  <2>6. QED
    BY <2>2, <2>3, <2>4, <2>5 DEF InProgress
<1>h. QED
  BY <1>5, <1>7, <1>a, <1>b, <1>c, <1>d, <1>e, <1>f, <1>g DEF IInv

\* The stage of a completion that is seen is the one the request has come to, or
\* one in which its handler does nothing: anything else would upset the requests.
LEMMA SeenStep ==
  ASSUME IInv, ~upset', NEW e, NEW following,
         (e = "out" /\ following = "in") \/ (e = "in" /\ following = "idle"),
         Complete(e, following), e \in seen
  PROVE  IInv'
<1>1. TypeInv /\ Reading /\ NoneTwice /\ Outcomes /\ SeenStill /\ Arrived
  BY DEF IInv
<1>2. PICK left \in SUBSET Endpoints, own \in [Endpoints -> States], role \in Roles :
             Completions(left, own) /\ InProgress(own, role)
  BY DEF IInv
<1>3. e \in Endpoints /\ pc = e /\ pc # "refuse"
  BY DEF Endpoints, Complete
<1>4. /\ e \in left \/ own[e] = "done"
      /\ own["in"] # "handled" /\ own["out"] # "handled"
  <2>1. e \in endptcomplete
    BY <1>1, <1>3 DEF SeenStill
  <2>2. QED
    BY <1>2, <1>3, <2>1 DEF Completions
<1>5. setup > 0 /\ Shape(setup) \in Kinds /\ setup # 0
  <2>1. setup # 0
    BY <1>2, <1>3, <1>4 DEF Completions, InProgress, Endpoints
  <2>2. setup \in 1 .. Latest /\ setup > 0
    BY <1>1, <2>1 DEF TypeInv, Reading, Latest
  <2>3. QED
    BY <1>1, <2>1, <2>2, Known
<1>6. /\ Position(role, PhaseRead, own["in"], own["out"], Did(setup), stalled)
      /\ role \in RolesOf(Shape(setup)) /\ Sending(role, PhaseRead, setup \in sent)
      /\ Starting(role, Shape(setup), own["out"])
  BY <1>2, <1>5 DEF InProgress
<1>7. PICK r : r = Handler(Shape(setup), StageIn(Shape(setup), e))
  OBVIOUS
<1>8. /\ acted' = IF r.acts THEN Append(acted, setup) ELSE acted
      /\ streaming' = IF r.acts /\ Shape(setup) \in Modes
                        THEN Shape(setup) # "off" \/ StageIn(Shape(setup), e) = "data"
                        ELSE streaming
      /\ upset' = (upset \/ Mistaken(e)) /\ setup' = setup
  <2>1. StageOf(e) = StageIn(Shape(setup), e)
    BY DEF StageOf
  <2>2. QED
    BY <1>7, <2>1 DEF Complete, UsbRequest
<1>b. streaming' \in BOOLEAN
  BY <1>1, <1>8 DEF TypeInv
<1>9. CASE r = Nothing
  <2>1. Answers(r, Shape(setup), {}) /\ ~r.acts /\ ~r.stalls
    BY <1>9, NoAnswer, NothingIs
  <2>2. Did(setup)' = Did(setup) /\ streaming' = streaming
    <3>1. acted' = acted /\ streaming' = streaming
      BY <1>8, <2>1
    <3>2. QED
      BY <1>8, <3>1 DEF Did
  <2>3. PICK now : now = Handled(own, e, {}, r.stalls)
    OBVIOUS
  <2>4. now = [own EXCEPT ![e] = IF own[e] = "primed" THEN "primed" ELSE "none"]
    <3>1. own = [d \in Endpoints |-> own[d]]
      OBVIOUS
    <3>2. QED
      BY <1>3, <2>1, <2>3, <3>1 DEF Handled
  <2>5. /\ Position(role, PhaseRead, now["in"], now["out"], Did(setup), stalled)
        /\ Told(role, PhaseRead, now["in"]) = Told(role, PhaseRead, own["in"])
    <3>1. PICK s, did, p, stall :
                 s = Shape(setup) /\ did = Did(setup) /\ p = PhaseRead /\ stall = stalled
      OBVIOUS
    <3>2. s \in Kinds /\ role \in RolesOf(s) /\ Handler(s, StageIn(s, e)) = Nothing
      BY <1>5, <1>6, <1>7, <1>9, <3>1
    <3>3. Position(role, p, own["in"], own["out"], did, stall)
      BY <1>6, <3>1
    <3>4. /\ e \in Endpoints /\ own \in [Endpoints -> States]
          /\ own["in"] # "handled" /\ own["out"] # "handled"
      BY <1>3, <1>4
    <3>5. Stays(role, p, own, now, did, stall)
      BY <2>4, <3>2, <3>3, <3>4, CalmCompletion
    <3>6. QED
      BY <3>1, <3>5 DEF Stays
  <2>6. Position(role, PhaseRead, now["in"], now["out"], Did(setup)', stalled)
    BY <2>2, <2>5
  <2>7. role \in {"write", "dynamic"} /\ Shape(setup) \in Modes
          /\ now["out"] \in {"primed", "done"} => ~streaming'
    <3>1. now["out"] \in {"primed", "done"} => now["out"] = own["out"]
      BY <2>4 DEF Endpoints
    <3>2. Starting(role, Shape(setup), own["out"]) /\ streaming' = streaming
      BY <1>6, <2>2
    <3>3. QED
      BY <3>1, <3>2 DEF Starting
  <2>8. Free(own, {}) /\ e \notin {}
    BY DEF Free
  <2>. DEFINE ends == {}
  <2>9. /\ Free(own, ends) /\ e \notin ends /\ Answers(r, Shape(setup), ends) /\ ends = {}
        /\ now = Handled(own, e, ends, r.stalls)
    BY <2>1, <2>3, <2>8
  <2>. HIDE DEF ends
  <2>10. QED
    BY <1>2, <1>3, <1>5, <1>7, <1>b, <2>1, <2>5, <2>6, <2>7, <2>9, CompletedStep
<1>10. CASE r # Nothing
  <2>1. own[e] = "done" /\ e \notin left
    <3>1. ASSUME e \in left
          PROVE  FALSE
      <4>1. Carries(queue[e], setup, KindIn(Shape(setup), e), TRUE, own[e])
        BY <1>2, <1>3, <3>1 DEF Completions, Holds, Carries
      <4>2. queue[e] \in Seq(Transfer)
        BY <1>1, <1>3 DEF TypeInv
      <4>3. 1 \in DOMAIN queue[e] /\ queue[e][1].state = "done" /\ queue[e][1].request # setup
        <5>1. Len(queue[e]) \in {1, 2} /\ queue[e][1].state = "done" /\ queue[e][1].request # setup
          BY <4>1 DEF Carries
        <5>2. QED
          BY <4>2, <5>1
      <4>4. Mistaken(e)
        BY <1>7, <1>10, <4>3 DEF Mistaken, StageOf
      <4>5. QED
        BY <1>8, <4>4
    <3>2. QED
      BY <1>4, <3>1
  <2>2. /\ ~Did(setup) /\ ~stalled
        /\ \/ role = "flash" /\ e = "in" /\ PhaseRead = "out status" /\ own["out"] = "none"
           \/ role \in {"write", "reject", "dynamic"} /\ e = "out" /\ PhaseRead = "in status"
              /\ own["in"] = "none"
    <3>1. PICK s, did, p, stall :
                 s = Shape(setup) /\ did = Did(setup) /\ p = PhaseRead /\ stall = stalled
      OBVIOUS
    <3>2. s \in Kinds /\ role \in RolesOf(s) /\ Handler(s, StageIn(s, e)) # Nothing
      BY <1>5, <1>6, <1>7, <1>10, <3>1
    <3>3. Position(role, p, own["in"], own["out"], did, stall)
      BY <1>6, <3>1
    <3>4. /\ e \in Endpoints /\ own \in [Endpoints -> States] /\ own[e] = "done"
          /\ own["in"] # "handled" /\ own["out"] # "handled"
      BY <1>3, <1>4, <2>1
    <3>5. ~did /\ ~stall /\ Turns(role, p, own, e)
      BY <3>2, <3>3, <3>4, DataCompletion
    <3>6. QED
      BY <3>1, <3>5 DEF Turns
  <2>3. ~endptsetupstat /\ stalled = FALSE
    <3>1. PhaseRead # "idle"
      BY <2>2
    <3>2. QED
      BY <1>1, <2>2, <3>1 DEF PhaseRead, TypeInv
  <2>4. CASE role = "flash"
    <3>1. e = "in" /\ PhaseRead = "out status" /\ own["out"] = "none" /\ Shape(setup) = "flash"
      BY <1>5, <1>6, <2>2, <2>4, RoleShape
    <3>2. Answers(r, Shape(setup), {"out"}) /\ ~r.acts /\ ~r.stalls
      BY <1>7, <3>1, FlashData, KindsOf
    <3>3. Did(setup)' = FALSE
      BY <1>8, <2>2, <3>2 DEF Did
    <3>4. PICK now : now = Handled(own, e, {"out"}, r.stalls)
      OBVIOUS
    <3>5. now["in"] = "none" /\ now["out"] = "primed"
      BY <2>1, <3>1, <3>2, <3>4 DEF Endpoints, Handled
    <3>6. Position(role, PhaseRead, now["in"], now["out"], FALSE, FALSE)
      BY <2>4, <3>1, <3>5 DEF Position
    <3>7. Position(role, PhaseRead, now["in"], now["out"], Did(setup)', stalled)
      BY <2>3, <3>3, <3>6
    <3>8. Free(own, {"out"}) /\ e \notin {"out"}
      BY <3>1 DEF Endpoints, Free
    <3>9. Told(role, PhaseRead, now["in"]) = Told(role, PhaseRead, own["in"])
      BY <3>1 DEF Told
    <3>10. QED
      BY <1>2, <1>3, <1>5, <1>7, <1>b, <2>3, <2>4, <3>2, <3>4, <3>7, <3>8, <3>9, CompletedStep
  <2>5. CASE role \in {"write", "reject", "dynamic"}
    <3>1. e = "out" /\ PhaseRead = "in status" /\ own["in"] = "none" /\ setup \in sent
      BY <1>6, <2>2, <2>5 DEF Sending
    <3>2. r = Handler(Shape(setup), "data")
      BY <1>5, <1>6, <1>7, <2>5, <3>1, DataMatters
    <3>3. /\ Free(own, {"in"}) /\ e \notin {"in"}
          /\ Free(own, {}) /\ e \notin {}
      BY <3>1 DEF Endpoints, Free
    <3>4. \A i : Told(role, PhaseRead, i) = "none"
      BY <3>1 DEF Told
    <3>5. CASE role = "write"
      <4>1. Answers(r, Shape(setup), {"in"}) /\ r.acts /\ ~r.stalls
        <5>1. CASE Shape(setup) = "write"
          BY <3>2, <5>1, WriteData
        <5>2. CASE Shape(setup) = "follow"
          <6>1. ~streaming
            BY <1>6, <2>1, <3>1, <3>5, <5>2, KindsAre DEF Starting
          <6>2. QED
            BY <3>2, <5>2, <6>1, ModeData, KindsAre
        <5>3. QED
          BY <1>5, <1>6, <3>5, <5>1, <5>2, RoleShape
      <4>2. Did(setup)' = TRUE
        <5>1. acted \in Seq(Nat) /\ setup \in Nat
          <6>1. acted \in Seq(1 .. setup) /\ setup \in Nat
            BY <1>1 DEF TypeInv
          <6>2. 1 .. setup \subseteq Nat
            BY <6>1
          <6>3. QED
            BY <6>1, <6>2, SeqMonotonic
        <5>2. acted' = Append(acted, setup)
          BY <1>8, <4>1
        <5>3. acted'[Len(acted) + 1] = setup /\ Len(acted) + 1 \in DOMAIN acted'
          BY <5>1, <5>2, AppendProperties
        <5>4. QED
          BY <1>8, <5>3 DEF Did
      <4>3. PICK now : now = Handled(own, e, {"in"}, r.stalls)
        OBVIOUS
      <4>4. now["in"] = "primed" /\ now["out"] = "none"
        BY <2>1, <3>1, <4>1, <4>3 DEF Endpoints, Handled
      <4>5. Position(role, PhaseRead, now["in"], now["out"], TRUE, FALSE)
        BY <3>1, <3>5, <4>4 DEF Position
      <4>6. Position(role, PhaseRead, now["in"], now["out"], Did(setup)', stalled)
        BY <2>3, <4>2, <4>5
      <4>7. Told(role, PhaseRead, now["in"]) = Told(role, PhaseRead, own["in"])
        BY <3>4
      <4>8. QED
        BY <1>2, <1>3, <1>5, <1>7, <1>b, <2>2, <2>3, <3>1, <3>3, <4>1, <4>3, <4>4, <4>6, <4>7,
           CompletedStep
    <3>6. CASE role = "reject"
      <4>1. Answers(r, Shape(setup), {}) /\ ~r.acts /\ r.stalls
        BY <1>5, <1>6, <3>2, <3>6, RejectData, RoleShape
      <4>2. Did(setup)' = FALSE
        BY <1>8, <2>2, <4>1 DEF Did
      <4>3. PICK ends : ends = {}
        OBVIOUS
      <4>4. PICK now : now = Handled(own, e, ends, r.stalls)
        OBVIOUS
      <4>5. now["in"] = "none" /\ now["out"] = "handled"
        BY <3>1, <4>1, <4>3, <4>4 DEF Endpoints, Handled
      <4>6. Position(role, PhaseRead, now["in"], now["out"], FALSE, FALSE)
        BY <3>1, <3>6, <4>5 DEF Position
      <4>7. Position(role, PhaseRead, now["in"], now["out"], Did(setup)', stalled)
        BY <2>3, <4>2, <4>6
      <4>8. Told(role, PhaseRead, now["in"]) = Told(role, PhaseRead, own["in"])
        BY <3>4
      <4>9. Free(own, ends) /\ e \notin ends /\ Answers(r, Shape(setup), ends)
        BY <3>3, <4>1, <4>3
      <4>10. QED
        BY <1>2, <1>3, <1>5, <1>7, <1>b, <2>1, <2>2, <2>3, <3>1, <4>1, <4>4, <4>5, <4>7, <4>8,
           <4>9, CompletedStep
    <3>7. CASE role = "dynamic"
      <4>1. Answers(r, Shape(setup), {"in"}) /\ ~r.acts /\ r.stalls
        <5>1. Shape(setup) = "dynamic"
          BY <1>5, <1>6, <3>7, RoleShape
        <5>2. ~streaming
          BY <1>6, <2>1, <3>1, <3>7, <5>1, KindsAre DEF Starting
        <5>3. QED
          BY <3>2, <5>1, <5>2, ModeData, KindsAre
      <4>2. Did(setup)' = FALSE
        BY <1>8, <2>2, <4>1 DEF Did
      <4>3. PICK now : now = Handled(own, e, {"in"}, r.stalls)
        OBVIOUS
      <4>4. now["in"] = "primed" /\ now["out"] = "handled"
        BY <3>1, <4>1, <4>3 DEF Endpoints, Handled
      <4>5. Position(role, PhaseRead, now["in"], now["out"], FALSE, FALSE)
        BY <3>1, <3>7, <4>4 DEF Position
      <4>6. Position(role, PhaseRead, now["in"], now["out"], Did(setup)', stalled)
        BY <2>3, <4>2, <4>5
      <4>7. Told(role, PhaseRead, now["in"]) = Told(role, PhaseRead, own["in"])
        BY <3>4
      <4>8. QED
        BY <1>2, <1>3, <1>5, <1>7, <1>b, <2>1, <2>2, <2>3, <3>1, <3>3, <4>1, <4>3, <4>4, <4>6,
           <4>7, CompletedStep
    <3>8. QED
      BY <2>5, <3>5, <3>6, <3>7
  <2>6. QED
    BY <2>2, <2>4, <2>5
<1>11. QED
  BY <1>9, <1>10

\* The endpoints are stalled after the data of a request, unless the host has sent
\* the next SETUP packet already, and the data are given back.
LEMMA RefuseStep == ASSUME IInv, Refuse PROVE IInv'
<1>1. TypeInv /\ Reading /\ NoneTwice /\ Outcomes /\ SeenStill /\ Arrived /\ served = "own"
  BY DEF IInv
<1>2. PICK left \in SUBSET Endpoints, own \in [Endpoints -> States], role \in Roles :
             Completions(left, own) /\ InProgress(own, role)
  BY DEF IInv
<1>3. /\ pc = "refuse" /\ pc' = "in" /\ stalled' = (stalled \/ ~endptsetupstat)
      /\ queue' = [queue EXCEPT !["out"] = Retired(@)]
      /\ UNCHANGED <<issued, phase, endptsetupstat, endptcomplete, setup, streaming, seen,
                     acted, sent, outcome, served>>
  BY DEF Refuse, host, ghosts
<1>4. PICK now : now = [own EXCEPT !["out"] = "none"]
  OBVIOUS
<1>5. /\ own["out"] = "handled" /\ left \subseteq seen \cap {"in"} /\ now \in [Endpoints -> States]
      /\ now["out"] = "none" /\ now["in"] = own["in"]
  BY <1>2, <1>3, <1>4 DEF Completions, States, Endpoints
<1>6. /\ setup' = setup /\ Latest' = Latest /\ PhaseRead' = PhaseRead
      /\ \A n : Shape(n)' = Shape(n) /\ Did(n)' = Did(n) /\ outcome'[n] = outcome[n]
      /\ Shape(setup)' = Shape(setup) /\ Did(setup)' = Did(setup)
  BY <1>3 DEF Latest, PhaseRead, Shape, Did
<1>7. ASSUME NEW d \in Endpoints
      PROVE  /\ queue'[d] \in Seq(Transfer) /\ Len(queue'[d]) <= POOL
             /\ Carries(queue'[d], setup, KindIn(Shape(setup), d), d \in left, now[d])
  <2>1. /\ queue[d] \in Seq(Transfer) /\ Len(queue[d]) <= POOL
        /\ Carries(queue[d], setup, KindIn(Shape(setup), d), d \in left, own[d])
    BY <1>1, <1>2 DEF TypeInv, Completions, Holds
  <2>2. CASE d = "out"
    <3>1. queue'[d] = Retired(queue[d]) /\ own[d] = "handled" /\ now[d] = "none" /\ d \notin left
      BY <1>1, <1>3, <1>5, <2>2 DEF TypeInv
    <3>2. /\ Carries(queue'[d], setup, KindIn(Shape(setup), d), FALSE, "none")
          /\ queue'[d] \in Seq(Transfer) /\ Len(queue'[d]) <= Len(queue[d])
      BY <2>1, <3>1, Retire
    <3>3. Len(queue'[d]) <= POOL
      BY <2>1, <3>2, ControlAssumption
    <3>4. Carries(queue'[d], setup, KindIn(Shape(setup), d), d \in left, now[d])
      BY <3>1, <3>2 DEF Carries
    <3>5. QED
      BY <3>2, <3>3, <3>4
  <2>3. CASE d # "out"
    <3>1. queue'[d] = queue[d] /\ now[d] = own[d]
      BY <1>1, <1>3, <1>4, <2>3 DEF TypeInv
    <3>2. QED
      BY <2>1, <3>1
  <2>4. QED
    BY <2>2, <2>3
<1>a. TypeInv'
  <2>1. queue' \in [Endpoints -> Seq(Transfer)]
    <3>1. DOMAIN queue' = Endpoints /\ queue' = [d \in DOMAIN queue' |-> queue'[d]]
      BY <1>1, <1>3 DEF TypeInv
    <3>2. QED
      BY <1>7, <3>1
  <2>2. pc' \in {"idle", "transfers", "refuse"} \cup Endpoints /\ stalled' \in BOOLEAN
    BY <1>1, <1>3 DEF Endpoints, TypeInv
  <2>3. QED
    BY <1>1, <1>3, <1>6, <1>7, <2>1, <2>2 DEF TypeInv
<1>b. Reading' /\ NoneTwice' /\ SeenStill' /\ Arrived' /\ served' = "own"
  <2>1. Reading'
    BY <1>1, <1>3, <1>6 DEF Reading
  <2>2. NoneTwice' /\ SeenStill' /\ served' = "own"
    BY <1>1, <1>3 DEF NoneTwice, SeenStill
  <2>3. Arrived'
    BY <1>1, <1>3, <1>6 DEF Arrived
  <2>4. QED
    BY <2>1, <2>2, <2>3
<1>c. Outcomes'
  <2>1. \A n \in 1 .. setup - 1 : Settled(n)'
    BY <1>1, <1>6 DEF Outcomes, Settled
  <2>2. QED
    BY <1>1, <1>3, <1>6, <2>1 DEF Outcomes
<1>d. Completions(left, now)'
  <2>1. \A d \in Endpoints : Holds(d, d \in left, now[d])'
    BY <1>6, <1>7 DEF Holds
  <2>2. \A d \in Endpoints : d \in endptcomplete' <=> d \in left \/ now[d] = "done"
    BY <1>2, <1>3, <1>5 DEF Completions, Endpoints
  <2>3. now["out"] # "handled" /\ now["in"] # "handled" /\ (setup' = 0 => left = {})
    BY <1>2, <1>5, <1>6 DEF Completions
  <2>4. QED
    BY <1>3, <1>5, <2>1, <2>2, <2>3 DEF Completions
<1>e. InProgress(now, role)'
  <2>1. setup # 0
    BY <1>2, <1>5 DEF InProgress
  <2>2. /\ Position(role, PhaseRead, own["in"], "handled", Did(setup), stalled)
        /\ outcome[setup] = Told(role, PhaseRead, own["in"])
        /\ role \in RolesOf(Shape(setup)) /\ Sending(role, PhaseRead, setup \in sent)
        /\ endptsetupstat => \A d \in Endpoints : own[d] # "primed"
    BY <1>2, <1>5, <2>1 DEF InProgress
  <2>3. Position(role, PhaseRead, own["in"], "none", Did(setup), stalled')
    <3>. DEFINE i == own["in"]
                did == Did(setup)
                p == PhaseRead
    <3>1. Position(role, p, i, "handled", did, stalled) /\ stalled' = (stalled \/ ~endptsetupstat)
      BY <1>3, <2>2
    <3>2. p # "idle" => ~endptsetupstat
      BY DEF PhaseRead
    <3>. HIDE DEF i, did, p
    <3>3. SUFFICES Position(role, p, i, "none", did, stalled')
      BY DEF i, did, p
    <3>4. CASE role \in {"read", "flash", "command", "write", "refuse"}
      BY <3>1, <3>4 DEF Position
    <3>5. CASE role = "reject"
      BY <3>1, <3>2, <3>5 DEF Position
    <3>6. CASE role = "dynamic"
      BY <3>1, <3>2, <3>6 DEF Position
    <3>7. QED
      BY <3>4, <3>5, <3>6 DEF Roles
  <2>4. /\ Position(role, PhaseRead', now["in"], now["out"], Did(setup)', stalled')
        /\ outcome'[setup] = Told(role, PhaseRead', now["in"])
    BY <1>5, <1>6, <2>2, <2>3
  <2>5. Sending(role, PhaseRead', (setup \in sent)')
    <3>1. (setup \in sent)' = (setup \in sent)
      BY <1>3
    <3>2. QED
      BY <1>6, <2>2, <3>1
  <2>6. Starting(role, Shape(setup), now["out"])'
    BY <1>5 DEF Starting
  <2>7. endptsetupstat' => \A d \in Endpoints : now[d] # "primed"
    BY <1>3, <1>5, <2>2 DEF Endpoints
  <2>8. role \in RolesOf(Shape(setup)') /\ setup' = setup
    BY <1>6, <2>2
  <2>9. QED
    BY <2>1, <2>4, <2>5, <2>6, <2>7, <2>8 DEF InProgress
<1>f. QED
  BY <1>2, <1>5, <1>a, <1>b, <1>c, <1>d, <1>e DEF IInv


\* What is upset stays so, and until then every step preserves the invariant.
THEOREM Invariance == Spec => []UpsetOr
<1>1. ASSUME UpsetOr, [Next]_vars
      PROVE  UpsetOr'
  <2>1. CASE upset
    <3>1. upset'
      BY <1>1, <2>1 DEF Next, UsbIsr, HostSetup, Transact, HostStalled, IsrSetup, IsrTransfers,
         Complete, Refuse, vars, ghosts
    <3>2. QED
      BY <3>1 DEF UpsetOr
  <2>2. CASE upset'
    BY <2>2 DEF UpsetOr
  <2>3. CASE ~upset /\ ~upset'
    <3>1. IInv /\ ~upset'
      BY <1>1, <2>3 DEF UpsetOr
    <3>2. SUFFICES IInv'
      BY DEF UpsetOr
    <3>3. CASE HostSetup
      BY <3>1, <3>3, HostSetupStep
    <3>4. CASE Transact
      BY <3>1, <3>4, TransactStep
    <3>5. CASE HostStalled
      BY <3>1, <3>5, StallStep
    <3>6. CASE IsrSetup
      BY <3>1, <3>6, SetupStep, NoSetupStep
    <3>7. CASE IsrTransfers
      BY <3>1, <3>7, TransfersStep
    <3>8. CASE Complete("out", "in")
      <4>1. PICK e, following : e = "out" /\ following = "in"
        OBVIOUS
      <4>2. QED
        BY <3>1, <3>8, <4>1, SeenStep, UnseenStep
    <3>9. CASE Complete("in", "idle")
      <4>1. PICK e, following : e = "in" /\ following = "idle"
        OBVIOUS
      <4>2. QED
        BY <3>1, <3>9, <4>1, SeenStep, UnseenStep
    <3>10. CASE Refuse
      BY <3>1, <3>10, RefuseStep
    <3>11. CASE UNCHANGED vars
      <4>1. UNCHANGED <<issued, phase, endptsetupstat, endptcomplete, stalled, queue, setup,
                        streaming, pc, seen, acted, sent, outcome, served>>
        BY <3>11 DEF vars, host, controller, ghosts
      <4>2. /\ pc' \in {"idle", "transfers", "refuse"} \cup Endpoints /\ seen' \subseteq Endpoints
            /\ SeenStill'
        BY <3>1, <4>1 DEF IInv, TypeInv, SeenStill
      <4>3. QED
        BY <3>1, <4>1, <4>2, OnwardStep
    <3>12. QED
      BY <1>1, <3>3, <3>4, <3>5, <3>6, <3>7, <3>8, <3>9, <3>10, <3>11 DEF Next, UsbIsr
  <2>4. QED
    BY <2>1, <2>2, <2>3
<1>2. Init => UpsetOr
  BY InitHolds DEF UpsetOr
<1>3. QED
  BY <1>1, <1>2, PTL DEF Spec

\* How often a request has been carried out.
LEMMA TimesIs ==
  ASSUME NoneTwice, NEW n
  PROVE  Times(n) = IF Did(n) THEN 1 ELSE 0
<1>. DEFINE when == {i \in DOMAIN acted : acted[i] = n}
<1>1. CASE Did(n)
  <2>1. PICK i \in DOMAIN acted : acted[i] = n
    BY <1>1 DEF Did
  <2>2. when = {i}
    BY <2>1 DEF NoneTwice
  <2>3. QED
    BY <1>1, <2>2, FS_Singleton DEF Times
<1>2. CASE ~Did(n)
  <2>1. when = {}
    BY <1>2 DEF Did
  <2>2. QED
    BY <1>2, <2>1, FS_EmptySet DEF Times
<1>3. QED
  BY <1>1, <1>2

\* In every overlap of a request with the completions of the one before, until
\* requests are upset: one that changes the device is carried out once before the
\* host is told so, one that is refused never (usb.c:623, usb_request.c:72).
THEOREM ActedOnce == Spec => []CarriedOutOnce
<1>1. ASSUME IInv, NEW n \in 1 .. Latest
      PROVE  /\ Times(n) <= 1
             /\ outcome[n] = "ok" =>
                  Times(n) = IF Shape(n) \in Reads \cup {"dynamic"} THEN 0 ELSE 1
             /\ outcome[n] = "stall" => Times(n) = 0
  <2>1. TypeInv /\ Reading /\ NoneTwice /\ Outcomes
    BY <1>1 DEF IInv
  <2>2. PICK own \in [Endpoints -> States], role \in Roles : InProgress(own, role)
    BY <1>1 DEF IInv
  <2>3. Times(n) = IF Did(n) THEN 1 ELSE 0
    BY <2>1, TimesIs
  <2>4. setup \in Nat /\ n \in Nat /\ n >= 1 /\ (n <= setup \/ (endptsetupstat /\ n = Latest))
    BY <2>1 DEF TypeInv, Reading, Latest
  <2>5. Settled(n) \/ outcome[n] = "none"
    <3>1. CASE n < setup
      BY <2>1, <2>4, <3>1 DEF Outcomes
    <3>2. CASE n = setup /\ PhaseRead = "idle"
      BY <2>1, <2>2, <2>4, <3>2, DoneIs
    <3>3. CASE n = setup /\ PhaseRead # "idle"
      BY <2>2, <2>4, <3>3 DEF InProgress, Told
    <3>4. CASE endptsetupstat /\ n = Latest
      BY <2>1, <3>4 DEF Outcomes
    <3>5. QED
      BY <2>4, <3>1, <3>2, <3>3, <3>4
  <2>6. QED
    BY <2>3, <2>5 DEF Settled
<1>2. UpsetOr => CarriedOutOnce
  BY <1>1 DEF CarriedOutOnce, UpsetOr
<1>3. QED
  BY <1>2, Invariance, PTL

\* Until requests are upset, a request is carried out on the data the host has
\* sent with it (usb_request.c:72).
THEOREM DataFirst == Spec => []DataArrived
<1>1. UpsetOr => DataArrived
  BY DEF IInv, UpsetOr, DataArrived
<1>2. QED
  BY <1>1, Invariance, PTL

\* Until requests are upset, what the host reads or is acknowledged was scheduled
\* for that stage of its own request: no transfer of an earlier one is ahead of it.
THEOREM OwnServed == Spec => []OwnTransfers
<1>1. UpsetOr => OwnTransfers
  BY DEF IInv, UpsetOr, OwnTransfers
<1>2. QED
  BY <1>1, Invariance, PTL

\* The pools of both control queues are whole again after every request, however
\* many there have been, but for the acknowledgement of a start of the dynamic
\* mode that was refused, which is still there (usb_endpoint.c:38, usb_queue.c:186,
\* usb_api_btle.c:122-130).
THEOREM PoolsWhole == Spec => []PoolsRefill
<1>1. ASSUME IInv, phase = "idle", Quiet
      PROVE  queue = [out |-> <<>>,
                      in |-> IF Forsaken(Latest) THEN <<Scheduled(Latest, "ack")>> ELSE <<>>]
  <2>1. TypeInv /\ Reading
    BY <1>1 DEF IInv
  <2>2. PICK left \in SUBSET Endpoints, own \in [Endpoints -> States], role \in Roles :
               Completions(left, own) /\ InProgress(own, role)
    BY <1>1 DEF IInv
  <2>3. /\ PhaseRead = "idle" /\ endptcomplete = {} /\ ~endptsetupstat /\ pc = "idle"
        /\ Latest = setup
    BY <1>1, <2>1 DEF PhaseRead, Quiet, Reading
  <2>4. left = {} /\ \A e \in Endpoints : own[e] \notin {"done", "handled"}
    BY <2>2, <2>3 DEF Completions, Endpoints
  <2>5. ASSUME NEW e \in Endpoints
        PROVE  /\ queue[e] \in Seq(Transfer)
               /\ own[e] = "none" => Len(queue[e]) = 0
               /\ own[e] = "primed" =>
                    /\ Len(queue[e]) = 1
                    /\ queue[e][1] = Scheduled(setup, KindIn(Shape(setup), e))
    <3>1. Carries(queue[e], setup, KindIn(Shape(setup), e), e \in left, own[e]) /\ e \notin left
      BY <2>2, <2>4 DEF Completions, Holds
    <3>2. queue[e] \in Seq(Transfer)
      BY <2>1 DEF TypeInv
    <3>3. QED
      BY <3>1, <3>2 DEF Carries, Scheduled
  <2>6. ASSUME NEW e \in Endpoints, own[e] = "none"
        PROVE  queue[e] = <<>>
    <3>1. Len(queue[e]) = 0
      BY <2>5, <2>6
    <3>2. QED
      BY <2>5, <3>1, EmptyQueue
  <2>7. CASE ~Forsaken(Latest)
    <3>1. \A e \in Endpoints : own[e] = "none"
      BY <2>1, <2>2, <2>3, <2>4, <2>7, IdleOwn
    <3>2. queue["out"] = <<>> /\ queue["in"] = <<>>
      BY <2>6, <3>1 DEF Endpoints
    <3>3. QED
      BY <2>1, <2>7, <3>2 DEF TypeInv, Endpoints
  <2>8. CASE Forsaken(Latest)
    <3>1. setup > 0 /\ Shape(setup) = "dynamic" /\ outcome[setup] = "stall" /\ setup \in sent
      BY <2>3, <2>8 DEF Forsaken
    <3>2. /\ Position(role, "idle", own["in"], own["out"], Did(setup), stalled)
          /\ "stall" = Told(role, "idle", own["in"]) /\ role \in RolesOf("dynamic")
          /\ Sending(role, "idle", TRUE)
      <4>1. setup # 0 /\ (setup \in sent) = TRUE
        BY <2>1, <3>1 DEF TypeInv
      <4>2. /\ role \in RolesOf(Shape(setup))
            /\ Position(role, PhaseRead, own["in"], own["out"], Did(setup), stalled)
            /\ outcome[setup] = Told(role, PhaseRead, own["in"])
            /\ Sending(role, PhaseRead, setup \in sent)
        BY <2>2, <4>1 DEF InProgress
      <4>3. QED
        BY <2>3, <3>1, <4>1, <4>2
    <3>3. role = "dynamic" /\ own["in"] = "primed"
      BY <3>2 DEF RolesOf, Sending, Told
    <3>4. own["out"] = "none"
      BY <3>2, <3>3 DEF Position
    <3>5. queue["out"] = <<>>
      BY <2>6, <3>4 DEF Endpoints
    <3>6. KindIn("dynamic", "in") = "ack"
      BY KindsOf, KindsAre DEF KindIn
    <3>7. /\ queue["in"] \in Seq(Transfer) /\ Len(queue["in"]) = 1
          /\ queue["in"][1] = Scheduled(setup, "ack")
      BY <2>5, <3>1, <3>3, <3>6 DEF Endpoints
    <3>8. queue["in"] = <<Scheduled(Latest, "ack")>>
      BY <2>3, <3>7
    <3>9. QED
      BY <2>1, <2>8, <3>5, <3>8 DEF TypeInv, Endpoints
  <2>9. QED
    BY <2>7, <2>8
<1>2. UpsetOr => PoolsRefill
  BY <1>1 DEF PoolsRefill, UpsetOr
<1>3. QED
  BY <1>2, Invariance, PTL
-----------------------------------------------------------------------------
(* Types, for every host *)

\* Requests are numbered from 1, and before the first there is nothing in the queues.
Begun ==
  /\ setup <= Latest /\ (phase # "idle" \/ endptsetupstat => Latest > 0)
  /\ served \in {"own", "other"} /\ upset \in BOOLEAN
  /\ setup = 0 => endptcomplete = {} /\ seen = {} /\ \A e \in Endpoints : queue[e] = <<>>

Typed == TypeInv /\ Begun

LEMMA First ==
  ASSUME NEW S \in SUBSET Nat, S # {}
  PROVE  LET min == CHOOSE x \in S : \A y \in S : x <= y IN min \in S /\ \A y \in S : min <= y
<1>1. PICK R : R = OpToRel(<, Nat)
  OBVIOUS
<1>2. IsWellFoundedOn(R, Nat)
  BY <1>1, NatLessThanWellFounded
<1>3. \A x, y \in Nat : <<y, x>> \in R <=> y < x
  BY <1>1 DEF OpToRel
<1>4. PICK x \in S : \A y \in S : ~(<<y, x>> \in R)
  BY <1>2, WFMin
<1>5. ASSUME NEW y \in S
      PROVE  x <= y
  <2>1. x \in Nat /\ y \in Nat /\ ~(<<y, x>> \in R)
    BY <1>4
  <2>2. ~(y < x)
    BY <1>3, <2>1
  <2>3. QED
    BY <2>1, <2>2
<1>6. QED
  BY <1>4, <1>5

LEMMA RetiredType ==
  ASSUME NEW q \in Seq(Transfer)
  PROVE  Retired(q) \in Seq(Transfer) /\ Len(Retired(q)) <= Len(q)
<1>. DEFINE Left == {i \in DOMAIN q : q[i].state # "done"}
<1>1. DOMAIN q = 1 .. Len(q) /\ Len(q) \in Nat /\ Left \in SUBSET Nat
  OBVIOUS
<1>2. CASE Left = {}
  BY <1>1, <1>2 DEF Retired
<1>3. CASE Left # {}
  <2>1. PICK m : m = Min(Left)
    OBVIOUS
  <2>2. m \in Left
    BY <1>1, <1>3, <2>1, First DEF Min
  <2>3. m \in 1 .. Len(q) /\ Retired(q) = SubSeq(q, m, Len(q))
    BY <1>1, <1>3, <2>1, <2>2 DEF Retired
  <2>4. \A i \in m .. Len(q) : q[i] \in Transfer
    BY <1>1, <2>3
  <2>5. SubSeq(q, m, Len(q)) \in Seq(Transfer) /\ Len(SubSeq(q, m, Len(q))) = Len(q) - m + 1
    <3>1. m \in Int /\ Len(q) \in Int /\ m <= Len(q)
      BY <1>1, <2>3
    <3>2. QED
      BY <2>4, <3>1, SubSeqProperties
  <2>6. QED
    BY <1>1, <2>3, <2>5
<1>4. QED
  BY <1>2, <1>3

LEMMA DroppedType ==
  ASSUME NEW q \in Seq(Transfer)
  PROVE  Dropped(q) \in Seq(Transfer) /\ Len(Dropped(q)) = Len(q)
<1>1. \A t \in Transfer : [t EXCEPT !.state = "dropped"] \in Transfer
  BY DEF Transfer
<1>2. Dropped(q) = [i \in 1 .. Len(q) |-> Dropped(q)[i]]
  BY DEF Dropped
<1>3. \A i \in 1 .. Len(q) : Dropped(q)[i] \in Transfer
  BY <1>1 DEF Dropped
<1>4. QED
  BY <1>2, <1>3

\* Every answer of a handler is a transfer of one of the two kinds.
LEMMA AnyAnswer ==
  ASSUME NEW s \in Kinds, NEW stage \in {"setup", "data", "status"}, streaming \in BOOLEAN
  PROVE  LET r == Handler(s, stage) IN
         \A e \in DOMAIN r.answers : r.answers[e] \in {"data", "ack"}
<1>. DEFINE r == Handler(s, stage)
<1>1. SUFFICES \E ends, t : Answers(r, t, ends)
  BY DEF Answers, KindIn
<1>2. CASE stage = "setup"
  <2>1. Answers(r, s, Opening(RoleAt(s)))
    BY <1>2, AtSetup
  <2>. HIDE DEF r
  <2>2. QED
    BY <2>1
<1>. HIDE DEF r
<1>3. CASE r = Nothing
  BY <1>3, NoAnswer
<1>4. CASE stage = "data"
  <2>1. CASE s \in {"act", "refuse", "read"}
    BY <1>3, <1>4, <2>1, QuietStages DEF r
  <2>2. CASE s \in Modes
    BY <1>4, <2>2, ModeData DEF r
  <2>3. CASE s \in {"flash", "write", "reject"}
    BY <1>4, <2>3, FlashData, WriteData, RejectData DEF r
  <2>4. QED
    BY <2>1, <2>2, <2>3, KindsAre
<1>5. CASE stage = "status"
  BY <1>3, <1>5, QuietStages DEF r
<1>6. QED
  BY <1>2, <1>4, <1>5

\* A handler schedules transfers where its pools have room.
LEMMA QueuedType ==
  ASSUME TypeInv, NEW n \in 1 .. MaxRequests, Shape(n) \in Kinds,
         NEW stage \in {"setup", "data", "status"}, UsbRequest(n, stage)
  PROVE  /\ Queued(n, stage) \in [Endpoints -> Seq(Transfer)]
         /\ \A e \in Endpoints : Len(Queued(n, stage)[e]) <= POOL
<1>1. PICK kinds : kinds = Handler(Shape(n), stage).answers
  OBVIOUS
<1>2. /\ \A e \in DOMAIN kinds : kinds[e] \in {"data", "ack"} /\ CanSchedule(e)
      /\ Queued(n, stage) = With(n, kinds)
  BY <1>1, AnyAnswer DEF UsbRequest, Queued, TypeInv
<1>3. ASSUME NEW e \in Endpoints
      PROVE  With(n, kinds)[e] \in Seq(Transfer) /\ Len(With(n, kinds)[e]) <= POOL
  <2>1. queue[e] \in Seq(Transfer) /\ Len(queue[e]) <= POOL
    BY DEF TypeInv
  <2>2. CASE e \in DOMAIN kinds
    <3>1. PICK t : t = Scheduled(n, kinds[e])
      OBVIOUS
    <3>2. t \in Transfer /\ With(n, kinds)[e] = Append(queue[e], t) /\ Len(queue[e]) < POOL
      BY <1>2, <2>2, <3>1 DEF Scheduled, Transfer, With, CanSchedule
    <3>3. QED
      BY <2>1, <3>2, AppendProperties, ControlAssumption
  <2>3. CASE e \notin DOMAIN kinds
    BY <2>1, <2>3 DEF With
  <2>4. QED
    BY <2>2, <2>3
<1>4. With(n, kinds) = [e \in Endpoints |-> With(n, kinds)[e]]
  BY DEF With
<1>5. QED
  BY <1>2, <1>3, <1>4

LEMMA TypedSetup == ASSUME Typed, HostSetup PROVE Typed'
<1>1. TypeInv /\ Begun
  BY DEF Typed
<1>2. PICK shape \in Shapes :
        /\ Latest < MaxRequests
        /\ issued' = Append(issued, shape) /\ outcome' = Append(outcome, "none")
        /\ phase' = FirstPhase(shape) /\ endptsetupstat' = TRUE /\ stalled' = FALSE
        /\ queue' \in {queue, [e \in Endpoints |-> Dropped(queue[e])]}
        /\ upset' = (upset \/ phase # "idle" \/ Forsaken(Latest))
        /\ UNCHANGED <<endptcomplete, setup, streaming, pc, seen, acted, sent, served>>
  BY DEF HostSetup
<1>3. /\ issued' \in Seq(Shapes) /\ Latest' = Latest + 1 /\ Latest \in Nat
      /\ Latest' \in 0 .. MaxRequests /\ outcome' \in Seq(Results) /\ Len(outcome') = Latest'
  <2>1. issued \in Seq(Shapes) /\ outcome \in Seq(Results) /\ Len(outcome) = Latest
        /\ "none" \in Results /\ MaxRequests \in Nat
    BY <1>1, ControlAssumption DEF TypeInv, Results
  <2>2. /\ issued' \in Seq(Shapes) /\ Latest' = Latest + 1 /\ Latest \in Nat
        /\ outcome' \in Seq(Results) /\ Len(outcome') = Len(outcome) + 1
    BY <1>2, <2>1, AppendProperties DEF Latest
  <2>3. QED
    BY <1>2, <2>1, <2>2
<1>4. ASSUME NEW e \in Endpoints
      PROVE  /\ queue'[e] \in Seq(Transfer) /\ Len(queue'[e]) = Len(queue[e])
             /\ queue[e] = <<>> => queue'[e] = <<>>
  <2>1. queue[e] \in Seq(Transfer)
    BY <1>1 DEF TypeInv
  <2>2. Dropped(queue[e]) \in Seq(Transfer) /\ Len(Dropped(queue[e])) = Len(queue[e])
    BY <2>1, DroppedType
  <2>3. queue'[e] \in {queue[e], Dropped(queue[e])}
    BY <1>2
  <2>4. queue'[e] \in Seq(Transfer) /\ Len(queue'[e]) = Len(queue[e])
    BY <2>1, <2>2, <2>3
  <2>5. queue[e] = <<>> => queue'[e] = <<>>
    BY <2>1, <2>4, EmptyQueue
  <2>6. QED
    BY <2>4, <2>5
<1>5. queue' \in [Endpoints -> Seq(Transfer)]
  <2>1. queue' = [e \in Endpoints |-> queue'[e]]
    BY <1>1, <1>2 DEF TypeInv
  <2>2. QED
    BY <1>4, <2>1
<1>6. phase' \in Phases /\ sent' \subseteq 1 .. Latest'
  <2>1. phase' \in Phases
    BY <1>2 DEF FirstPhase, Phases
  <2>2. sent' \subseteq 1 .. Latest'
    BY <1>1, <1>2, <1>3 DEF TypeInv
  <2>3. QED
    BY <2>1, <2>2
<1>7. TypeInv'
  BY <1>1, <1>2, <1>3, <1>4, <1>5, <1>6 DEF TypeInv, Latest
<1>8. Begun'
  <2>1. setup' <= Latest' /\ Latest' > 0
    BY <1>1, <1>2, <1>3 DEF Begun, TypeInv
  <2>2. QED
    BY <1>1, <1>2, <1>4, <2>1 DEF Begun
<1>9. QED
  BY <1>7, <1>8 DEF Typed

LEMMA TypedTransact == ASSUME Typed, Transact PROVE Typed'
<1>1. TypeInv /\ Begun
  BY DEF Typed
<1>2. PICK e \in Endpoints : e = EndpointOf(phase)
  BY DEF EndpointOf, Endpoints
<1>3. PICK i : i = FirstPrimed(e)
  OBVIOUS
<1>4. /\ phase # "idle" /\ Primed(e) # {} /\ phase' = NextPhase(phase)
      /\ queue' = [queue EXCEPT ![e][i].state = "done"]
      /\ endptcomplete' = endptcomplete \cup {e}
      /\ sent' = IF phase = "out data" THEN sent \cup {Latest} ELSE sent
      /\ outcome' = IF NextPhase(phase) = "idle" THEN [outcome EXCEPT ![Latest] = "ok"] ELSE outcome
      /\ served' \in {"own", "other"}
      /\ UNCHANGED <<issued, endptsetupstat, stalled, setup, streaming, pc, seen, acted, upset>>
  BY <1>2, <1>3 DEF Transact
<1>5. Latest \in Nat /\ Latest > 0 /\ Latest \in 1 .. Latest /\ Latest' = Latest
  <2>1. Latest \in Nat /\ Latest > 0
    <3>1. phase # "idle"
      BY <1>4
    <3>2. QED
      BY <1>1, <3>1 DEF Begun, TypeInv, Latest
  <2>2. Latest' = Latest
    BY <1>4 DEF Latest
  <2>3. QED
    BY <2>1, <2>2
<1>6. queue[e] \in Seq(Transfer) /\ DOMAIN queue[e] = 1 .. Len(queue[e])
  BY <1>1 DEF TypeInv
<1>7. i \in 1 .. Len(queue[e]) /\ setup # 0
  <2>1. Primed(e) \subseteq 1 .. Len(queue[e]) /\ Primed(e) \in SUBSET Nat
    BY <1>6 DEF Primed
  <2>2. i \in Primed(e)
    BY <1>3, <1>4, <2>1, First DEF FirstPrimed
  <2>3. queue[e] # <<>>
    BY <1>6, <2>1, <2>2
  <2>4. QED
    BY <1>1, <2>1, <2>2, <2>3 DEF Begun
<1>. DEFINE after == [queue[e] EXCEPT ![i].state = "done"]
<1>8. after \in Seq(Transfer) /\ Len(after) = Len(queue[e])
  <2>. DEFINE t == [queue[e][i] EXCEPT !.state = "done"]
  <2>1. t \in Transfer
    <3>1. \A u \in Transfer : [u EXCEPT !.state = "done"] \in Transfer
      BY DEF Transfer
    <3>2. QED
      BY <1>6, <1>7, <3>1
  <2>2. after = [queue[e] EXCEPT ![i] = t]
    OBVIOUS
  <2>. HIDE DEF t
  <2>3. QED
    BY <1>6, <1>7, <2>1, <2>2, ExceptSeq
<1>9. /\ queue' \in [Endpoints -> Seq(Transfer)]
      /\ \A d \in Endpoints : Len(queue'[d]) <= POOL
  <2>1. queue' = [queue EXCEPT ![e] = after]
    BY <1>4
  <2>. HIDE DEF after
  <2>2. QED
    BY <1>1, <1>8, <2>1 DEF TypeInv
<1>10. outcome' \in Seq(Results) /\ Len(outcome') = Latest
  <2>1. outcome \in Seq(Results) /\ Len(outcome) = Latest /\ "ok" \in Results
    BY <1>1 DEF TypeInv, Results
  <2>2. CASE NextPhase(phase) = "idle"
    <3>1. outcome' = [outcome EXCEPT ![Latest] = "ok"]
      BY <1>4, <2>2
    <3>2. Latest \in 1 .. Len(outcome)
      BY <1>5, <2>1
    <3>3. QED
      BY <2>1, <3>1, <3>2, ExceptSeq
  <2>3. CASE NextPhase(phase) # "idle"
    BY <1>4, <2>1, <2>3
  <2>4. QED
    BY <2>2, <2>3
<1>11. phase' \in Phases /\ sent' \subseteq 1 .. Latest /\ endptcomplete' \subseteq Endpoints
  <2>1. phase' \in Phases
    BY <1>4 DEF NextPhase, Phases
  <2>2. sent' \subseteq 1 .. Latest
    BY <1>1, <1>4, <1>5 DEF TypeInv
  <2>3. endptcomplete' \subseteq Endpoints
    BY <1>1, <1>2, <1>4 DEF TypeInv
  <2>4. QED
    BY <2>1, <2>2, <2>3
<1>12. TypeInv'
  BY <1>1, <1>4, <1>5, <1>9, <1>10, <1>11 DEF TypeInv
<1>13. Begun'
  BY <1>1, <1>4, <1>5, <1>7 DEF Begun
<1>14. QED
  BY <1>12, <1>13 DEF Typed

LEMMA TypedStall == ASSUME Typed, HostStalled PROVE Typed'
<1>1. TypeInv /\ Begun
  BY DEF Typed
<1>2. /\ phase # "idle" /\ phase' = "idle" /\ outcome' = [outcome EXCEPT ![Latest] = "stall"]
      /\ UNCHANGED <<issued, endptsetupstat, endptcomplete, stalled, queue, setup, streaming,
                     pc, seen, acted, sent, served, upset>>
  BY DEF HostStalled, controller
<1>3. Latest \in Nat /\ Latest > 0 /\ Latest \in 1 .. Latest /\ Latest' = Latest
  BY <1>1, <1>2 DEF Begun, TypeInv, Latest
<1>4. outcome' \in Seq(Results) /\ Len(outcome') = Latest
  <2>1. outcome \in Seq(Results) /\ Len(outcome) = Latest /\ "stall" \in Results
    BY <1>1 DEF TypeInv, Results
  <2>2. QED
    BY <1>2, <1>3, <2>1, ExceptSeq
<1>5. phase' \in Phases
  BY <1>2 DEF Phases
<1>6. TypeInv'
  BY <1>1, <1>2, <1>3, <1>4, <1>5 DEF TypeInv
<1>7. Begun'
  BY <1>1, <1>2, <1>3 DEF Begun
<1>8. QED
  BY <1>6, <1>7 DEF Typed

LEMMA TypedRead == ASSUME Typed, IsrSetup PROVE Typed'
<1>1. TypeInv /\ Begun
  BY DEF Typed
<1>2. /\ pc' = "transfers" /\ Latest' = Latest /\ Latest \in Nat
      /\ UNCHANGED <<issued, phase, endptcomplete, seen, sent, outcome, served, upset>>
  BY <1>1 DEF IsrSetup, host, Latest, TypeInv
<1>3. CASE ~endptsetupstat
  <2>1. UNCHANGED <<setup, endptsetupstat, stalled, acted, streaming, queue>>
    BY <1>3 DEF IsrSetup
  <2>2. pc' \in {"idle", "transfers", "refuse"} \cup Endpoints
    BY <1>2
  <2>3. TypeInv'
    BY <1>1, <1>2, <2>1, <2>2 DEF TypeInv
  <2>4. Begun'
    BY <1>1, <1>2, <2>1 DEF Begun
  <2>5. QED
    BY <2>3, <2>4 DEF Typed
<1>4. CASE endptsetupstat
  <2>1. PICK n : n = Latest
    OBVIOUS
  <2>2. /\ setup' = n /\ endptsetupstat' = FALSE
        /\ UsbRequest(n, "setup") /\ queue' = Queued(n, "setup")
        /\ stalled' = (stalled \/ Refuses(n, "setup"))
    BY <1>4, <2>1 DEF IsrSetup
  <2>3. n \in 1 .. MaxRequests /\ n \in 1 .. Latest /\ setup <= n /\ setup \in Nat
    <3>1. Latest > 0 /\ Latest \in 0 .. MaxRequests /\ setup <= Latest /\ setup \in Nat
      BY <1>1, <1>4 DEF Begun, TypeInv, Latest
    <3>2. QED
      BY <2>1, <3>1, ControlAssumption
  <2>4. Shape(n) \in Kinds
    BY <1>1, <2>3, Known
  <2>5. /\ queue' \in [Endpoints -> Seq(Transfer)]
        /\ \A e \in Endpoints : Len(queue'[e]) <= POOL
    BY <1>1, <2>2, <2>3, <2>4, QueuedType
  <2>6. acted' \in Seq(1 .. n) /\ stalled' \in BOOLEAN /\ streaming' \in BOOLEAN
    <3>1. acted \in Seq(1 .. n) /\ n \in 1 .. n
      <4>1. acted \in Seq(1 .. setup) /\ 1 .. setup \subseteq 1 .. n
        BY <1>1, <2>3 DEF TypeInv
      <4>2. QED
        BY <2>3, <4>1, SeqMonotonic
    <3>2. acted' \in {acted, Append(acted, n)}
      BY <2>2 DEF UsbRequest
    <3>3. streaming' \in BOOLEAN
      BY <1>1, <2>2 DEF UsbRequest, TypeInv
    <3>4. stalled' \in BOOLEAN
      BY <2>2
    <3>5. QED
      BY <3>1, <3>2, <3>3, <3>4, AppendProperties
  <2>7. pc' \in {"idle", "transfers", "refuse"} \cup Endpoints /\ n \in Nat
    BY <1>2, <2>3
  <2>8. TypeInv'
    BY <1>1, <1>2, <2>2, <2>5, <2>6, <2>7 DEF TypeInv
  <2>9. Begun'
    BY <1>1, <1>2, <2>1, <2>2, <2>3 DEF Begun
  <2>10. QED
    BY <2>8, <2>9 DEF Typed
<1>5. QED
  BY <1>3, <1>4

LEMMA TypedComplete ==
  ASSUME Typed, NEW e \in Endpoints, NEW following \in Endpoints \cup {"idle"}, Complete(e, following)
  PROVE  Typed'
<1>1. TypeInv /\ Begun
  BY DEF Typed
<1>2. /\ pc' \in {following, "refuse"} /\ Latest' = Latest
      /\ UNCHANGED <<issued, phase, endptsetupstat, stalled, setup, seen, sent, outcome, served>>
  BY DEF Complete, host, Latest
<1>3. pc' \in {"idle", "transfers", "refuse"} \cup Endpoints
  BY <1>2
<1>4. CASE e \notin seen
  <2>1. UNCHANGED <<acted, streaming, queue, endptcomplete, upset>>
    BY <1>4 DEF Complete
  <2>2. TypeInv'
    BY <1>1, <1>2, <1>3, <2>1 DEF TypeInv
  <2>3. Begun'
    BY <1>1, <1>2, <2>1 DEF Begun
  <2>4. QED
    BY <2>2, <2>3 DEF Typed
<1>5. CASE e \in seen
  <2>1. PICK n, stage : n = setup /\ stage = StageOf(e)
    OBVIOUS
  <2>2. /\ UsbRequest(n, stage) /\ endptcomplete' = endptcomplete \ {e}
        /\ queue' \in {Queued(n, stage), [Queued(n, stage) EXCEPT ![e] = Retired(@)]}
        /\ upset' = (upset \/ Mistaken(e))
    BY <1>5, <2>1 DEF Complete
  <2>3. setup # 0 /\ n \in 1 .. MaxRequests /\ n \in 1 .. Latest /\ stage \in {"setup", "data", "status"}
    <3>1. setup # 0 /\ setup \in Nat /\ setup <= Latest /\ Latest \in 0 .. MaxRequests
      BY <1>1, <1>5 DEF Begun, TypeInv, Latest
    <3>2. stage \in {"setup", "data", "status"}
      BY <2>1 DEF StageOf, StageIn
    <3>3. QED
      BY <2>1, <3>1, <3>2, ControlAssumption
  <2>4. Shape(n) \in Kinds
    BY <1>1, <2>3, Known
  <2>5. /\ Queued(n, stage) \in [Endpoints -> Seq(Transfer)]
        /\ \A d \in Endpoints : Len(Queued(n, stage)[d]) <= POOL
    BY <1>1, <2>2, <2>3, <2>4, QueuedType
  <2>6. PICK q : q = Queued(n, stage)
    OBVIOUS
  <2>7. /\ Retired(q[e]) \in Seq(Transfer) /\ Len(Retired(q[e])) <= Len(q[e])
        /\ q \in [Endpoints -> Seq(Transfer)]
        /\ \A d \in Endpoints : Len(q[d]) <= POOL /\ Len(q[d]) \in Nat
        /\ queue' \in {q, [q EXCEPT ![e] = Retired(q[e])]}
    BY <2>2, <2>5, <2>6, RetiredType
  <2>8. Len(Retired(q[e])) <= POOL
    <3>1. Len(Retired(q[e])) \in Nat /\ POOL \in Nat
      BY <2>7, ControlAssumption
    <3>2. QED
      BY <2>7, <3>1
  <2>9. /\ queue' \in [Endpoints -> Seq(Transfer)]
        /\ \A d \in Endpoints : Len(queue'[d]) <= POOL
    BY <2>7, <2>8
  <2>10. acted' \in Seq(1 .. setup) /\ streaming' \in BOOLEAN
    <3>1. acted \in Seq(1 .. setup) /\ n \in 1 .. setup
      BY <1>1, <2>1, <2>3 DEF TypeInv
    <3>2. acted' \in {acted, Append(acted, n)} /\ streaming' \in BOOLEAN
      BY <1>1, <2>2 DEF UsbRequest, TypeInv
    <3>3. Append(acted, n) \in Seq(1 .. setup)
      BY <3>1, AppendProperties
    <3>4. QED
      BY <3>1, <3>2, <3>3
  <2>11. endptcomplete' \subseteq Endpoints
    BY <1>1, <2>2 DEF TypeInv
  <2>12. TypeInv'
    BY <1>1, <1>2, <1>3, <2>9, <2>10, <2>11 DEF TypeInv
  <2>13. Begun'
    BY <1>1, <1>2, <2>2, <2>3 DEF Begun
  <2>14. QED
    BY <2>12, <2>13 DEF Typed
<1>6. QED
  BY <1>4, <1>5

LEMMA TypedRefuse == ASSUME Typed, Refuse PROVE Typed'
<1>1. TypeInv /\ Begun
  BY DEF Typed
<1>2. /\ pc' = "in" /\ Latest' = Latest /\ stalled' = (stalled \/ ~endptsetupstat)
      /\ queue' = [queue EXCEPT !["out"] = Retired(queue["out"])]
      /\ UNCHANGED <<issued, phase, endptsetupstat, endptcomplete, setup, streaming, seen, acted,
                     sent, outcome, served, upset>>
  BY DEF Refuse, host, ghosts, Latest
<1>3. "out" \in Endpoints /\ "in" \in Endpoints
  BY DEF Endpoints
<1>4. /\ Retired(queue["out"]) \in Seq(Transfer)
      /\ Len(Retired(queue["out"])) <= Len(queue["out"]) /\ Len(queue["out"]) <= POOL
      /\ Len(queue["out"]) \in Nat /\ Len(Retired(queue["out"])) \in Nat /\ POOL \in Nat
  <2>1. queue["out"] \in Seq(Transfer) /\ Len(queue["out"]) <= POOL
    BY <1>1, <1>3 DEF TypeInv
  <2>2. Retired(queue["out"]) \in Seq(Transfer) /\ Len(Retired(queue["out"])) <= Len(queue["out"])
    BY <2>1, RetiredType
  <2>3. QED
    BY <2>1, <2>2, ControlAssumption
<1>5. /\ queue' \in [Endpoints -> Seq(Transfer)]
      /\ \A d \in Endpoints : Len(queue'[d]) <= POOL
  <2>1. PICK r : r = Retired(queue["out"])
    OBVIOUS
  <2>2. /\ r \in Seq(Transfer) /\ Len(r) <= POOL /\ queue' = [queue EXCEPT !["out"] = r]
        /\ queue \in [Endpoints -> Seq(Transfer)]
        /\ \A d \in Endpoints : Len(queue[d]) <= POOL
    BY <1>1, <1>2, <1>4, <2>1 DEF TypeInv
  <2>3. QED
    BY <1>3, <2>2
<1>6. TypeInv'
  BY <1>1, <1>2, <1>3, <1>5 DEF TypeInv
<1>7. Begun'
  <2>1. setup = 0 => queue'["out"] = <<>>
    <3>1. Retired(<<>>) = <<>>
      BY DEF Retired
    <3>2. QED
      BY <1>1, <1>2, <1>3, <3>1 DEF Begun, TypeInv
  <2>2. setup = 0 => \A d \in Endpoints : queue'[d] = <<>>
    BY <1>1, <1>2, <2>1 DEF Begun, TypeInv
  <2>3. QED
    BY <1>1, <1>2, <2>2 DEF Begun
<1>8. QED
  BY <1>6, <1>7 DEF Typed

\* Whatever the host does, abandoned requests and early SETUP packets included, host,
\* controller, queues and interrupt keep their types, and no queue outgrows its pool.
THEOREM TypeCorrect == Spec => []TypeOK
<1>1. Init => Typed
  <2>1. Init => TypeInv
    BY InitHolds DEF IInv
  <2>2. Init => Begun
    <3>1. Init => Latest = 0
      BY DEF Init, Latest
    <3>2. Init => upset \in BOOLEAN
      BY DEF Init
    <3>3. QED
      BY <3>1, <3>2 DEF Init, Begun
  <2>3. QED
    BY <2>1, <2>2 DEF Typed
<1>2. ASSUME Typed, [Next]_vars
      PROVE  Typed'
  <2>1. CASE HostSetup
    BY <1>2, <2>1, TypedSetup
  <2>2. CASE Transact
    BY <1>2, <2>2, TypedTransact
  <2>3. CASE HostStalled
    BY <1>2, <2>3, TypedStall
  <2>4. CASE IsrSetup
    BY <1>2, <2>4, TypedRead
  <2>5. CASE IsrTransfers
    <3>1. /\ seen' = endptcomplete /\ pc' = "out"
          /\ UNCHANGED <<issued, phase, endptsetupstat, endptcomplete, stalled, queue, setup,
                         streaming, acted, sent, outcome, served, upset>>
      BY <2>5 DEF IsrTransfers, host, controller, ghosts
    <3>2. Latest' = Latest /\ pc' \in {"idle", "transfers", "refuse"} \cup Endpoints
      BY <3>1 DEF Latest, Endpoints
    <3>3. TypeInv'
      BY <1>2, <3>1, <3>2 DEF Typed, TypeInv
    <3>4. Begun'
      BY <1>2, <3>1, <3>2 DEF Typed, Begun
    <3>5. QED
      BY <3>3, <3>4 DEF Typed
  <2>6. CASE Complete("out", "in")
    BY <1>2, <2>6, TypedComplete DEF Endpoints
  <2>7. CASE Complete("in", "idle")
    BY <1>2, <2>7, TypedComplete DEF Endpoints
  <2>8. CASE Refuse
    BY <1>2, <2>8, TypedRefuse
  <2>9. CASE UNCHANGED vars
    <3>1. /\ UNCHANGED <<issued, phase, endptsetupstat, endptcomplete, stalled, queue, setup,
                         streaming, pc, seen, acted, sent, outcome, served, upset>>
          /\ Latest' = Latest
      BY <2>9 DEF vars, host, controller, ghosts, Latest
    <3>2. TypeInv'
      BY <1>2, <3>1 DEF Typed, TypeInv
    <3>3. Begun'
      BY <1>2, <3>1 DEF Typed, Begun
    <3>4. QED
      BY <3>2, <3>3 DEF Typed
  <2>10. QED
    BY <1>2, <2>1, <2>2, <2>3, <2>4, <2>5, <2>6, <2>7, <2>8, <2>9 DEF Next, UsbIsr
<1>3. Typed => TypeOK
  <2>. SUFFICES ASSUME Typed
                PROVE  TypeOK
    OBVIOUS
  <2>1. TypeInv /\ Begun
    BY DEF Typed
  <2>2. setup \in 0 .. Latest /\ Latest \in Nat
    BY <2>1 DEF TypeInv, Begun, Latest
  <2>3. acted \in Seq(1 .. Latest)
    <3>1. acted \in Seq(1 .. setup) /\ 1 .. setup \subseteq 1 .. Latest
      BY <2>1, <2>2 DEF TypeInv
    <3>2. QED
      BY <3>1, SeqMonotonic
  <2>4. outcome \in [1 .. Latest -> {"none", "ok", "stall"}]
    BY <2>1 DEF TypeInv, Results
  <2>5. QED
    BY <2>1, <2>2, <2>3, <2>4 DEF TypeInv, Begun, TypeOK
<1>4. QED
  BY <1>1, <1>2, <1>3, PTL DEF Spec
=============================================================================
