------------------------ MODULE HostStreamingProofs ------------------------
(***************************************************************************)
(* Proofs about HostStreaming for every number of transfers: what a stop   *)
(* leaves in flight never reaches the next session.  Two orders carry the  *)
(* argument: the kernel reports in the order transfers end, so that the    *)
(* answer to a request comes after everything that ended before it; and    *)
(* the device is switched off before transfers are cancelled, so that      *)
(* nothing that is reported afterwards is submitted again.                 *)
(***************************************************************************)
EXTENDS HostStreaming, TLAPS, SequenceTheorems

-----------------------------------------------------------------------------
(* What may be left of a call *)

\* of stopping a session, the join not yet done ...
Off4 == <<"off", "exit", "join", "cancel">>
Exit3 == <<"exit", "join", "cancel">>
Join2 == <<"join", "cancel">>
Cancel1 == <<"cancel">>

\* ... and of closing the device; the digit is the number of steps
Close1 == <<"close">>
Off2 == <<"off", "close">>
Join4 == <<"join", "cancel", "off", "close">>
Exit5 == <<"exit", "join", "cancel", "off", "close">>
Join7 == <<"join", "cancel", "exit", "join", "cancel", "off", "close">>
Exit8 == <<"exit", "join", "cancel", "exit", "join", "cancel", "off", "close">>
Off9 == <<"off", "exit", "join", "cancel", "exit", "join", "cancel", "off", "close">>
Cancel10 == <<"cancel", "off", "exit", "join", "cancel", "exit", "join", "cancel", "off", "close">>
Join11 == <<"join", "cancel", "off", "exit", "join", "cancel",
            "exit", "join", "cancel", "off", "close">>
Exit12 == <<"exit", "join", "cancel", "off", "exit", "join", "cancel",
            "exit", "join", "cancel", "off", "close">>
Off13 == <<"off", "exit", "join", "cancel", "off", "exit", "join", "cancel",
           "exit", "join", "cancel", "off", "close">>

ToStop == {Off4, Off13}
ToExit == {Exit3, Exit12}
ToJoin == {Join2, Join11}
ToCancel == {Cancel1, Cancel10}
ToClose == {Off9, Exit8, Join7, Exit5, Join4, Off2, Close1}

ToStart == <<"on", "reset", "prepare", "launch">>
ToReset == <<"reset", "prepare", "launch">>
ToPrepare == <<"prepare", "launch">>
ToLaunch == <<"launch">>
ToChannel == <<"channel">>

Starting == {ToReset, ToPrepare, ToLaunch}
Stopping == ToExit \cup ToJoin \cup ToCancel
Free == {<<>>, ToChannel}

Rests == ToStop \cup Stopping \cup ToClose \cup Starting \cup Free \cup {ToStart}
-----------------------------------------------------------------------------
(* The inductive invariant *)

Report == [transfer : 0 .. TRANSFER_COUNT, end : Ends \cup Answers]
Controls == {i \in DOMAIN ended : ended[i].end \in Answers}
Reported(end) == \E i \in DOMAIN ended : ended[i].end = end

Types ==
  /\ TypeOK
  /\ todo \in Rests /\ ended \in Seq(Report) /\ InFlight \subseteq Transfers
  /\ transfer_thread_started <=> thread # "none"
  /\ thread # "none" \/ todo # <<>> => opened

\* One control request at a time, for the step the call is in; MODE_OFF is not refused.
Talk ==
  /\ request # "none" => answer = "awaited" /\ request = Head(todo)
  /\ answer # "none" => todo # <<>> /\ Head(todo) \in Requests
  /\ Controls # {} => answer = "awaited" /\ request = "none"
  /\ \A i, j \in Controls : i = j
  /\ At("off") => ~Reported("stall") /\ answer # "stall"

\* The device has been told; once it is off, whatever has completed is reported
\* before the answer is.
Told ==
  /\ transceiver_mode = "OFF" =>
       \A j \in DOMAIN ended : ended[j].end = "completed" => \E i \in Controls : i > j
  /\ At("on") /\ (answer = "ok" \/ Reported("ok")) => transceiver_mode = "BTLE"
  /\ At("off") /\ request = "none" /\ answer # "none" => transceiver_mode = "OFF"
  /\ todo \in Stopping => transceiver_mode = "OFF"
  /\ todo \in Starting => transceiver_mode = "BTLE"

\* Between sessions nothing is submitted, nothing that is reported will be, and an
\* answer is reported last.
Between ==
  thread = "none" /\ todo \in Free \cup ToClose \cup {ToStart} =>
    /\ submitted = <<>> /\ ~Reported("completed")
    /\ \A i \in Controls : i = Len(ended)
    /\ answer \in Answers \/ At("close") => ended = <<>>

\* A start finds nothing in flight and submits every transfer once.
Begins ==
  /\ todo \in Starting => thread = "none"
  /\ todo = ToReset => submitted = <<>> /\ ended = <<>>
  /\ todo \in {ToPrepare, ToLaunch} =>
       ~do_exit /\ ~failed /\ ~Reported("cancelled") /\ Controls = {}
  /\ todo = ToPrepare => InFlight = 0 .. next - 1 /\ Len(submitted) + Len(ended) = next
  /\ todo = ToLaunch => InFlight = Transfers

\* A session runs until it is stopped or a submission fails.
Runs ==
  /\ todo \in ToStop \cup ToExit \cup ToJoin => thread # "none"
  /\ todo \in ToCancel \cup ToClose \cup {ToStart} => thread = "none"
  /\ thread # "none" =>
       /\ ~Reported("cancelled")
       /\ todo \in Free \/ (todo \in ToStop /\ (request # "none" \/ answer = "none")) =>
            transceiver_mode = "BTLE"
       /\ ~failed => streaming /\ InFlight = Transfers
       /\ ~failed /\ todo \notin ToJoin => ~do_exit /\ thread # "ended"

\* No more transfers than there are, and one control transfer.
Bounded ==
  Len(submitted) + Len(ended) <=
    TRANSFER_COUNT + IF answer = "awaited" /\ request = "none" THEN 1 ELSE 0

IInv == Types /\ Talk /\ Told /\ Between /\ Begins /\ Runs /\ Bounded
-----------------------------------------------------------------------------
(* Rests of calls *)

\* Each step leaves the next rest.
LEMMA StopRests ==
  /\ Off4 # <<>> /\ Head(Off4) = "off" /\ Tail(Off4) = Exit3
  /\ Exit3 # <<>> /\ Head(Exit3) = "exit" /\ Tail(Exit3) = Join2
  /\ Join2 # <<>> /\ Head(Join2) = "join" /\ Tail(Join2) = Cancel1
  /\ Cancel1 # <<>> /\ Head(Cancel1) = "cancel" /\ Tail(Cancel1) = <<>>
  /\ Off13 # <<>> /\ Head(Off13) = "off" /\ Tail(Off13) = Exit12
  /\ Exit12 # <<>> /\ Head(Exit12) = "exit" /\ Tail(Exit12) = Join11
  /\ Join11 # <<>> /\ Head(Join11) = "join" /\ Tail(Join11) = Cancel10
  /\ Cancel10 # <<>> /\ Head(Cancel10) = "cancel" /\ Tail(Cancel10) = Off9
<1>1. /\ Off4 # <<>> /\ Head(Off4) = "off" /\ Tail(Off4) = Exit3
      /\ Exit3 # <<>> /\ Head(Exit3) = "exit" /\ Tail(Exit3) = Join2
      /\ Join2 # <<>> /\ Head(Join2) = "join" /\ Tail(Join2) = Cancel1
      /\ Cancel1 # <<>> /\ Head(Cancel1) = "cancel" /\ Tail(Cancel1) = <<>>
  BY DEF Off4, Exit3, Join2, Cancel1
<1>2. Off13 # <<>> /\ Head(Off13) = "off" /\ Tail(Off13) = Exit12
  BY DEF Off13, Exit12
<1>3. Exit12 # <<>> /\ Head(Exit12) = "exit" /\ Tail(Exit12) = Join11
  BY DEF Exit12, Join11
<1>4. Join11 # <<>> /\ Head(Join11) = "join" /\ Tail(Join11) = Cancel10
  BY DEF Join11, Cancel10
<1>5. Cancel10 # <<>> /\ Head(Cancel10) = "cancel" /\ Tail(Cancel10) = Off9
  BY DEF Cancel10, Off9
<1> QED
  BY <1>1, <1>2, <1>3, <1>4, <1>5

LEMMA CloseRests ==
  /\ Off9 # <<>> /\ Head(Off9) = "off" /\ Tail(Off9) = Exit8
  /\ Exit8 # <<>> /\ Head(Exit8) = "exit" /\ Tail(Exit8) = Join7
  /\ Join7 # <<>> /\ Head(Join7) = "join" /\ Tail(Tail(Join7)) = Exit5
  /\ Exit5 # <<>> /\ Head(Exit5) = "exit" /\ Tail(Exit5) = Join4
  /\ Join4 # <<>> /\ Head(Join4) = "join" /\ Tail(Tail(Join4)) = Off2
  /\ Off2 # <<>> /\ Head(Off2) = "off" /\ Tail(Off2) = Close1
  /\ Close1 # <<>> /\ Head(Close1) = "close" /\ Tail(Close1) = <<>>
<1>1. Off9 # <<>> /\ Head(Off9) = "off" /\ Tail(Off9) = Exit8
  BY DEF Off9, Exit8
<1>2. Exit8 # <<>> /\ Head(Exit8) = "exit" /\ Tail(Exit8) = Join7
  BY DEF Exit8, Join7
<1>3. Join7 # <<>> /\ Head(Join7) = "join" /\ Tail(Tail(Join7)) = Exit5
  BY DEF Join7, Exit5
<1>4. Exit5 # <<>> /\ Head(Exit5) = "exit" /\ Tail(Exit5) = Join4
  BY DEF Exit5, Join4
<1>5. Join4 # <<>> /\ Head(Join4) = "join" /\ Tail(Tail(Join4)) = Off2
  BY DEF Join4, Off2
<1>6. /\ Off2 # <<>> /\ Head(Off2) = "off" /\ Tail(Off2) = Close1
      /\ Close1 # <<>> /\ Head(Close1) = "close" /\ Tail(Close1) = <<>>
  BY DEF Off2, Close1
<1> QED
  BY <1>1, <1>2, <1>3, <1>4, <1>5, <1>6

LEMMA Heads ==
  /\ \A t \in ToStop : t # <<>> /\ Head(t) = "off" /\ Tail(t) \in ToExit
  /\ \A t \in ToExit : t # <<>> /\ Head(t) = "exit" /\ Tail(t) \in ToJoin
  /\ \A t \in ToJoin : t # <<>> /\ Head(t) = "join" /\ Tail(t) \in ToCancel
  /\ \A t \in ToCancel : t # <<>> /\ Head(t) = "cancel" /\ Tail(t) \in ToClose \cup {<<>>}
  /\ \A t \in ToCancel : Tail(t) # <<>> => Head(Tail(t)) = "off"
<1>1. \A t \in ToCancel : /\ t # <<>> /\ Head(t) = "cancel" /\ Tail(t) \in ToClose \cup {<<>>}
                          /\ Tail(t) # <<>> => Head(Tail(t)) = "off"
  <2>1. ASSUME NEW t \in ToCancel
        PROVE  Tail(t) # <<>> => Head(Tail(t)) = "off"
    <3>1. CASE t = Cancel1
      BY <3>1, StopRests
    <3>2. CASE t = Cancel10
      BY <3>2, StopRests, CloseRests
    <3> QED
      BY <3>1, <3>2 DEF ToCancel
  <2> QED
    BY <2>1, StopRests DEF ToCancel, ToClose
<1>2. /\ \A t \in ToStop : t # <<>> /\ Head(t) = "off" /\ Tail(t) \in ToExit
      /\ \A t \in ToExit : t # <<>> /\ Head(t) = "exit" /\ Tail(t) \in ToJoin
      /\ \A t \in ToJoin : t # <<>> /\ Head(t) = "join" /\ Tail(t) \in ToCancel
  BY StopRests DEF ToStop, ToExit, ToJoin, ToCancel
<1> QED
  BY <1>1, <1>2

LEMMA ClosingHeads ==
  \A t \in ToClose :
    /\ t # <<>> /\ Head(t) \in {"off", "exit", "join", "close"}
    /\ Head(t) \in {"off", "exit"} => Tail(t) \in ToClose
    /\ Head(t) = "exit" => Head(Tail(t)) = "join"
    /\ Head(t) = "join" => Tail(Tail(t)) \in ToClose /\ Head(Tail(Tail(t))) # "close"
    /\ Head(t) = "close" => Tail(t) = <<>>
<1> SUFFICES ASSUME NEW t \in ToClose
             PROVE  /\ t # <<>> /\ Head(t) \in {"off", "exit", "join", "close"}
                    /\ Head(t) \in {"off", "exit"} => Tail(t) \in ToClose
                    /\ Head(t) = "exit" => Head(Tail(t)) = "join"
                    /\ Head(t) = "join" => Tail(Tail(t)) \in ToClose /\ Head(Tail(Tail(t))) # "close"
                    /\ Head(t) = "close" => Tail(t) = <<>>
  OBVIOUS
<1>1. CASE t \in {Off9, Exit8, Exit5, Off2}
  BY <1>1, CloseRests DEF ToClose
<1>2. CASE t \in {Join7, Join4}
  BY <1>2, CloseRests DEF ToClose
<1>3. CASE t = Close1
  BY <1>3, CloseRests DEF ToClose
<1> QED
  BY <1>1, <1>2, <1>3 DEF ToClose

LEMMA StartHeads ==
  /\ ToStart # <<>> /\ Head(ToStart) = "on" /\ Tail(ToStart) = ToReset
  /\ ToReset # <<>> /\ Head(ToReset) = "reset" /\ Tail(ToReset) = ToPrepare
  /\ ToPrepare # <<>> /\ Head(ToPrepare) = "prepare" /\ Tail(ToPrepare) = ToLaunch
  /\ ToLaunch # <<>> /\ Head(ToLaunch) = "launch" /\ Tail(ToLaunch) = <<>>
  /\ ToChannel # <<>> /\ Head(ToChannel) = "channel" /\ Tail(ToChannel) = <<>>
  BY DEF ToStart, ToReset, ToPrepare, ToLaunch, ToChannel

\* What stops a session and what follows the join are told apart.
LEMMA StopNotClose == (ToStop \cup ToExit \cup ToJoin) \cap ToClose = {}
<1>1. /\ Len(Off4) = 4 /\ Len(Exit3) = 3 /\ Len(Join2) = 2
      /\ Len(Off13) = 13 /\ Len(Exit12) = 12 /\ Len(Join11) = 11
  BY DEF Off4, Exit3, Join2, Off13, Exit12, Join11
<1>2. /\ Len(Off9) = 9 /\ Len(Exit8) = 8 /\ Len(Join7) = 7 /\ Len(Exit5) = 5
      /\ Len(Join4) = 4 /\ Len(Off2) = 2 /\ Len(Close1) = 1
  BY DEF Off9, Exit8, Join7, Exit5, Join4, Off2, Close1
<1> QED
  BY <1>1, <1>2, StopRests, CloseRests DEF ToStop, ToExit, ToJoin, ToClose

LEMMA CallSteps ==
  /\ StartSteps = ToStart /\ StopSteps \in ToStop /\ CloseSteps \in ToStop
<1> DEFINE W == {"off", "exit", "join", "cancel"}
<1>1. StopSteps = Off4
  <2>1. StopSteps \in Seq(W) /\ Off4 \in Seq(W) /\ Len(StopSteps) = 4 /\ Len(Off4) = 4
    BY DEF StopSteps, KillThread, Off4
  <2>2. \A i \in 1 .. 4 : StopSteps[i] = Off4[i]
    BY DEF StopSteps, KillThread, Off4
  <2> QED
    BY <2>1, <2>2, SeqEqual
<1> QED
  BY <1>1 DEF StartSteps, ToStart, ToStop, CloseSteps, Off13

\* The next step tells what is left.
LEMMA Which ==
  \A t \in Rests :
    /\ t # <<>> /\ Head(t) = "on" <=> t = ToStart
    /\ t # <<>> /\ Head(t) = "reset" <=> t = ToReset
    /\ t # <<>> /\ Head(t) = "prepare" <=> t = ToPrepare
    /\ t # <<>> /\ Head(t) = "launch" <=> t = ToLaunch
    /\ t # <<>> /\ Head(t) = "channel" <=> t = ToChannel
    /\ t # <<>> /\ Head(t) = "cancel" <=> t \in ToCancel
    /\ t # <<>> /\ Head(t) = "off" => t \in ToStop \cup ToClose
    /\ t # <<>> /\ Head(t) = "exit" => t \in ToExit \cup ToClose
    /\ t # <<>> /\ Head(t) = "join" => t \in ToJoin \cup ToClose
    /\ t # <<>> /\ Head(t) = "close" => t \in ToClose
<1> SUFFICES ASSUME NEW t \in Rests, t # <<>>
             PROVE  /\ Head(t) = "on" <=> t = ToStart
                    /\ Head(t) = "reset" <=> t = ToReset
                    /\ Head(t) = "prepare" <=> t = ToPrepare
                    /\ Head(t) = "launch" <=> t = ToLaunch
                    /\ Head(t) = "channel" <=> t = ToChannel
                    /\ Head(t) = "cancel" <=> t \in ToCancel
                    /\ Head(t) = "off" => t \in ToStop \cup ToClose
                    /\ Head(t) = "exit" => t \in ToExit \cup ToClose
                    /\ Head(t) = "join" => t \in ToJoin \cup ToClose
                    /\ Head(t) = "close" => t \in ToClose
  BY Heads, StartHeads
<1>1. CASE t \in ToStop \cup Stopping
  BY <1>1, Heads, StartHeads DEF Stopping
<1>2. CASE t \in ToClose
  BY <1>2, Heads, ClosingHeads, StartHeads
<1>3. CASE t \in Starting \cup Free \cup {ToStart}
  BY <1>3, Heads, StartHeads DEF Starting, Free
<1> QED
  BY <1>1, <1>2, <1>3 DEF Rests

\* No rest belongs to two kinds.
LEMMA Kinds ==
  /\ \A t \in ToStop : t \notin Stopping \cup ToClose \cup Starting \cup Free \cup {ToStart}
  /\ \A t \in ToExit : t \notin ToJoin \cup ToCancel \cup ToClose \cup Starting \cup Free \cup {ToStart}
  /\ \A t \in ToJoin : t \notin ToCancel \cup ToClose \cup Starting \cup Free \cup {ToStart}
  /\ \A t \in ToCancel : t \notin ToClose \cup Starting \cup Free \cup {ToStart}
  /\ \A t \in ToClose : t \notin Starting \cup Free \cup {ToStart}
  /\ \A t \in Starting : t \notin Free \cup {ToStart}
  /\ ToReset # ToPrepare /\ ToReset # ToLaunch /\ ToPrepare # ToLaunch
  /\ ToStart \notin Free
<1> USE Heads, ClosingHeads, StartHeads, StopNotClose DEF Stopping, Starting, Free
<1>1. \A t \in ToStop : t \notin Stopping \cup ToClose \cup Starting \cup Free \cup {ToStart}
  OBVIOUS
<1>2. \A t \in ToExit : t \notin ToJoin \cup ToCancel \cup ToClose \cup Starting \cup Free \cup {ToStart}
  OBVIOUS
<1>3. \A t \in ToJoin : t \notin ToCancel \cup ToClose \cup Starting \cup Free \cup {ToStart}
  OBVIOUS
<1>4. \A t \in ToCancel : t \notin ToClose \cup Starting \cup Free \cup {ToStart}
  OBVIOUS
<1>5. \A t \in ToClose : t \notin Starting \cup Free \cup {ToStart}
  OBVIOUS
<1>6. \A t \in Starting : t \notin Free \cup {ToStart}
  OBVIOUS
<1>7. ToReset # ToPrepare /\ ToReset # ToLaunch /\ ToPrepare # ToLaunch /\ ToStart \notin Free
  OBVIOUS
<1> QED
  BY <1>1, <1>2, <1>3, <1>4, <1>5, <1>6, <1>7
-----------------------------------------------------------------------------
(* Calls *)

LEMMA Kept ==
  ASSUME UNCHANGED <<submitted, ended>>
  PROVE  /\ InFlight' = InFlight /\ Controls' = Controls
         /\ \A end : Reported(end)' <=> Reported(end)
<1>1. InFlight' = InFlight /\ Controls' = Controls
  BY DEF InFlight, Elements, Controls
<1>2. \A end : Reported(end)' <=> Reported(end)
  BY DEF Reported
<1> QED
  BY <1>1, <1>2

LEMMA InitHolds == Init => IInv
<1> SUFFICES ASSUME Init PROVE IInv
  OBVIOUS
<1>1. TRANSFER_COUNT \in Nat \ {0} /\ 0 \in Transfers
  BY StreamingAssumption DEF Transfers
<1>2. TypeOK
  <2>1. submitted = <<>> /\ ended = <<>>
    BY DEF Init
  <2>2. submitted \in Seq(Transfers) /\ Elements(ended) = {} /\ Len(submitted) + Len(ended) = 0
    BY <2>1 DEF Elements
  <2>3. /\ {transfer_thread_started, streaming, do_exit, failed} \subseteq BOOLEAN
        /\ opened \in BOOLEAN
    BY DEF Init
  <2> QED
    BY <1>1, <2>2, <2>3 DEF Init, TypeOK, Replies
<1>3. Types
  <2>1. InFlight = {}
    BY DEF Init, InFlight, Elements
  <2> QED
    BY <1>2, <2>1 DEF Init, Types, Rests, Free
<1>4. Controls = {} /\ \A end : ~Reported(end)
  BY DEF Init, Controls, Reported
<1>5. Talk /\ Told /\ Bounded
  BY <1>1, <1>4, Kinds DEF Init, Talk, Told, At, Bounded, Stopping, Starting, Free
<1>6. Between /\ Begins /\ Runs
  BY <1>4, Kinds DEF Init, Between, Begins, Runs, Starting, Free, Stopping, Answers, At
<1> QED
  BY <1>3, <1>5, <1>6 DEF IInv

Calls == Open \/ Start \/ Stop(StopSteps) \/ Stop(CloseSteps) \/ Channel

LEMMA CallsHold ==
  ASSUME IInv, Calls
  PROVE  IInv'
<1>1. todo = <<>> /\ UNCHANGED <<transceiver_mode, thread, next, usb, failed>>
  BY DEF Calls, Open, Start, Stop, Channel, Call
<1>2. UNCHANGED <<request, answer, submitted, ended>>
  BY <1>1 DEF usb
<1>3. answer = "none" /\ request = "none" /\ Controls = {}
  BY <1>1 DEF IInv, Types, TypeOK, Talk
<1>4. \/ todo' \in Free
      \/ todo' = ToStart /\ ~transfer_thread_started
      \/ todo' \in ToStop /\ transfer_thread_started
  BY <1>1, CallSteps DEF Calls, Open, Start, Stop, Channel, Free, ToChannel
<1>5. \/ ~opened /\ opened' = TRUE
         /\ transfer_thread_started' = FALSE /\ streaming' = FALSE /\ do_exit' = FALSE
      \/ UNCHANGED <<opened, flags>>
  BY DEF Calls, Open, Start, Stop, Channel
<1>6. todo' \in Rests
  BY <1>4 DEF Rests
<1>7. reply' \in Replies
  BY DEF Calls, Open, Start, Stop, Channel, IInv, Types, TypeOK, Replies
<1>8. Types'
  <2>1. /\ {transfer_thread_started', streaming', do_exit', failed'} \subseteq BOOLEAN
        /\ opened' \in BOOLEAN
    BY <1>1, <1>5 DEF IInv, Types, TypeOK, flags
  <2>2. TypeOK'
    BY <1>1, <1>2, <1>7, <2>1 DEF IInv, Types, TypeOK, Elements
  <2>3. transfer_thread_started' <=> thread' # "none"
    BY <1>1, <1>5 DEF IInv, Types, flags
  <2>4. thread' # "none" \/ todo' # <<>> => opened'
    <3>1. ~Open => opened
      BY DEF Calls, Start, Stop, Channel
    <3>2. Open => todo' = <<>>
      BY <1>1 DEF Open
    <3> QED
      BY <1>1, <1>5, <3>1, <3>2 DEF IInv, Types
  <2> QED
    BY <1>2, <1>6, <2>2, <2>3, <2>4, Kept DEF IInv, Types
<1>9. /\ InFlight' = InFlight /\ Controls' = Controls
      /\ \A end : Reported(end)' <=> Reported(end)
  BY <1>2, Kept
<1>10. ~Reported("ok") /\ ~Reported("stall")
  BY <1>3 DEF Controls, Reported, Answers
<1>11. Talk'
  BY <1>2, <1>3, <1>9, <1>10 DEF Talk, At
<1>12. Told'
  BY <1>1, <1>2, <1>3, <1>4, <1>9, <1>10, Kinds DEF IInv, Told, At, Stopping, Starting
<1>13. Between'
  BY <1>1, <1>2, <1>3, <1>4, <1>6, <1>9, <1>10, Which, Kinds, Heads, StartHeads
     DEF IInv, Between, Types, At, Free, Answers
<1>14. Begins'
  BY <1>1, <1>4, Kinds DEF Begins, Starting
<1>15. Runs'
  <2>1. todo' \in ToStop \cup ToExit \cup ToJoin => thread' # "none"
    BY <1>1, <1>4, Kinds DEF IInv, Types, Free
  <2>2. todo' \in ToCancel \cup ToClose \cup {ToStart} => thread' = "none"
    BY <1>1, <1>4, Kinds, Heads, ClosingHeads DEF IInv, Types, Free, Stopping
  <2>3. ASSUME thread' # "none"
        PROVE  /\ ~Reported("cancelled")'
               /\ transceiver_mode' = "BTLE"
               /\ ~failed' => streaming' /\ InFlight' = Transfers
               /\ ~failed' => ~do_exit' /\ thread' # "ended"
    <3>1. UNCHANGED flags
      BY <1>1, <1>5, <2>3 DEF IInv, Types
    <3>2. /\ ~Reported("cancelled") /\ transceiver_mode = "BTLE"
          /\ ~failed => streaming /\ InFlight = Transfers
          /\ ~failed => ~do_exit /\ thread # "ended"
      BY <1>1, <2>3, Kinds DEF IInv, Runs, Free
    <3> QED
      BY <1>1, <1>9, <3>1, <3>2 DEF flags
  <2> QED
    BY <2>1, <2>2, <2>3 DEF Runs
<1>16. Bounded'
  BY <1>2 DEF IInv, Bounded
<1> QED
  BY <1>8, <1>11, <1>12, <1>13, <1>14, <1>15, <1>16 DEF IInv
-----------------------------------------------------------------------------
(* Steps of a call that leave transfers alone *)

LEMMA AskHolds ==
  ASSUME IInv, Ask
  PROVE  IInv'
<1>1. PICK r \in Requests :
        /\ todo # <<>> /\ Head(todo) = r
        /\ request = "none" /\ answer = "none" /\ request' = r /\ answer' = "awaited"
  BY DEF Ask, Step
<1>2. UNCHANGED <<transceiver_mode, opened, flags, thread, todo, next, submitted, ended,
                  reply, failed>>
  BY DEF Ask, Step
<1>3. Controls = {} /\ r # "none"
  BY <1>1 DEF IInv, Talk, Requests
<1>4. /\ InFlight' = InFlight /\ Controls' = Controls
      /\ \A end : Reported(end)' <=> Reported(end)
  BY <1>2, Kept
<1>5. ~Reported("ok") /\ ~Reported("stall")
  BY <1>3 DEF Controls, Reported, Answers
<1>6. Types'
  <2>1. TypeOK'
    BY <1>1, <1>2 DEF IInv, Types, TypeOK, Elements, flags
  <2> QED
    BY <1>1, <1>2, <1>4, <2>1 DEF IInv, Types, flags
<1>7. Talk' /\ Bounded'
  BY <1>1, <1>2, <1>3, <1>4, <1>5 DEF IInv, Talk, At, Bounded
<1>8. Told'
  BY <1>1, <1>2, <1>3, <1>4, <1>5 DEF IInv, Told, At
<1>9. Between' /\ Begins'
  BY <1>1, <1>2, <1>4 DEF IInv, Between, Begins, At, Answers, Requests, flags
<1>10. Runs'
  BY <1>1, <1>2, <1>4 DEF IInv, Runs, flags
<1> QED
  BY <1>6, <1>7, <1>8, <1>9, <1>10 DEF IInv

LEMMA AnsweredHolds ==
  ASSUME IInv, Answered
  PROVE  IInv'
<1>1. PICK r \in Requests :
        /\ todo # <<>> /\ Head(todo) = r /\ answer \in Answers /\ answer' = "none"
        /\ todo' = IF answer = "ok" THEN Tail(todo) ELSE <<>>
  BY DEF Answered, Step
<1>2. UNCHANGED <<transceiver_mode, opened, flags, thread, next, request, submitted, ended,
                  failed>>
  BY DEF Answered, Step
<1>3. Controls = {} /\ request = "none" /\ r # "none"
  BY <1>1 DEF IInv, Talk, Requests, Answers
<1>4. /\ InFlight' = InFlight /\ Controls' = Controls
      /\ \A end : Reported(end)' <=> Reported(end)
  BY <1>2, Kept
<1>5. ~Reported("ok") /\ ~Reported("stall")
  BY <1>3 DEF Controls, Reported, Answers
<1>6. \/ todo \in ToStop /\ todo' \in ToExit /\ transceiver_mode = "OFF"
      \/ todo \in ToClose /\ todo' \in ToClose /\ ended = <<>>
      \/ todo = ToStart /\ todo' = ToReset /\ transceiver_mode = "BTLE"
      \/ todo \in Free \cup {ToStart} /\ todo' = <<>>
  <2>1. todo \in ToStop \cup ToClose \cup {ToStart, ToChannel}
    BY <1>1, Which DEF IInv, Types, Requests
  <2>2. CASE todo \in ToStop
    BY <1>1, <1>3, <2>2, Heads DEF IInv, Talk, Told, At, Answers
  <2>3. CASE todo \in ToClose
    <3>1. r = "off" /\ answer = "ok"
      BY <1>1, <2>3, ClosingHeads DEF IInv, Talk, At, Answers, Requests
    <3>2. thread = "none"
      BY <2>3 DEF IInv, Runs
    <3> QED
      BY <1>1, <2>3, <3>1, <3>2, ClosingHeads DEF IInv, Between
  <2>4. CASE todo \in {ToStart, ToChannel}
    BY <1>1, <2>4, StartHeads DEF IInv, Told, At, Free
  <2> QED
    BY <2>1, <2>2, <2>3, <2>4
<1>7. Types'
  <2>1. todo' \in Rests
    BY <1>6 DEF Rests, Stopping, Starting, Free
  <2>2. reply' \in Replies
    BY DEF Answered, Replies
  <2>3. TypeOK'
    BY <1>1, <1>2, <2>2 DEF IInv, Types, TypeOK, Elements, flags
  <2> QED
    BY <1>1, <1>2, <1>4, <2>1, <2>3 DEF IInv, Types, flags
<1>8. Talk' /\ Bounded'
  BY <1>1, <1>2, <1>3, <1>4, <1>5 DEF IInv, Talk, At, Bounded, Answers
<1>9. Told'
  <2>1. ~At("on")'
    BY <1>6, <1>7, Which, Kinds DEF Types, At, Free, Starting, Stopping
  <2>2. todo' \in Stopping => transceiver_mode = "OFF"
    BY <1>6, Kinds, Heads, StartHeads, ClosingHeads DEF Stopping, Starting, Free
  <2>3. todo' \in Starting => transceiver_mode = "BTLE"
    BY <1>6, Kinds, Heads, StartHeads, ClosingHeads DEF Stopping, Starting, Free
  <2> QED
    BY <1>1, <1>2, <1>4, <2>1, <2>2, <2>3 DEF IInv, Told
<1>10. Between'
  <2> SUFFICES ASSUME thread' = "none", todo' \in Free \cup ToClose \cup {ToStart}
               PROVE  /\ submitted' = <<>> /\ ~Reported("completed")'
                      /\ \A i \in Controls' : i = Len(ended')
                      /\ At("close")' => ended' = <<>>
    BY <1>1 DEF Between, Answers
  <2>1. todo \in Free \cup ToClose \cup {ToStart}
    BY <1>6, Kinds DEF Starting
  <2>2. At("close")' => todo \in ToClose
    BY <1>6, <1>7, Which, Kinds DEF Types, At, Free, Starting
  <2> QED
    BY <1>2, <1>4, <1>6, <2>1, <2>2, Kinds DEF IInv, Between, Free
<1>11. Begins'
  <2>1. todo' \in Starting => todo = ToStart /\ todo' = ToReset
    BY <1>6, Kinds DEF Free
  <2>2. todo = ToStart => thread = "none" /\ submitted = <<>> /\ ended = <<>>
    BY <1>1 DEF IInv, Runs, Between
  <2> QED
    BY <1>2, <2>1, <2>2, Kinds DEF Begins, Starting
<1>12. Runs'
  <2>1. todo' \in ToStop \cup ToExit \cup ToJoin => todo \in ToStop /\ todo' \in ToExit
    BY <1>6, Kinds DEF Starting, Free, Stopping
  <2>2. todo' \in ToCancel \cup ToClose \cup {ToStart} => todo \in ToClose
    BY <1>6, Kinds DEF Starting, Free, Stopping
  <2>3. ASSUME thread' # "none"
        PROVE  /\ ~Reported("cancelled")'
               /\ todo' \in Free \/ todo' \in ToStop => transceiver_mode' = "BTLE"
               /\ ~failed' => streaming' /\ InFlight' = Transfers
               /\ ~failed' => ~do_exit' /\ thread' # "ended"
    <3>1. thread # "none" /\ todo \notin ToClose /\ todo # ToStart
      BY <1>2, <2>3 DEF IInv, Runs
    <3>2. \/ todo \in ToStop /\ todo' \in ToExit
          \/ todo \in Free /\ todo' = <<>>
      BY <1>6, <3>1
    <3>3. todo \notin ToJoin
      BY <3>2, Kinds DEF Stopping
    <3>4. /\ ~Reported("cancelled") /\ (todo \in Free => transceiver_mode = "BTLE")
          /\ ~failed => streaming /\ InFlight = Transfers
          /\ ~failed => ~do_exit /\ thread # "ended"
      BY <3>1, <3>3 DEF IInv, Runs
    <3>5. todo' \in Free \/ todo' \in ToStop => todo \in Free
      BY <3>2, Kinds DEF Stopping
    <3> QED
      BY <1>2, <1>4, <3>4, <3>5 DEF flags
  <2> QED
    BY <1>2, <2>1, <2>2, <2>3 DEF IInv, Runs
<1> QED
  BY <1>7, <1>8, <1>9, <1>10, <1>11, <1>12 DEF IInv
\* Nothing is on its way to the device but during a control transfer.
LEMMA Silent ==
  ASSUME IInv, todo # <<>> => Head(todo) \notin Requests
  PROVE  /\ request = "none" /\ answer = "none" /\ Controls = {}
         /\ ~Reported("ok") /\ ~Reported("stall")
<1>1. request = "none" /\ answer = "none"
  BY DEF IInv, Types, TypeOK, Talk
<1>2. Controls = {}
  BY <1>1 DEF IInv, Talk
<1> QED
  BY <1>1, <1>2 DEF Controls, Reported, Answers

LEMMA ResetFlagsHolds ==
  ASSUME IInv, ResetFlags
  PROVE  IInv'
<1>1. /\ todo = ToReset /\ todo' = ToPrepare /\ next' = 0
      /\ streaming' = FALSE /\ do_exit' = FALSE /\ failed' = FALSE
  BY Which, StartHeads DEF ResetFlags, Step, IInv, Types
<1>2. UNCHANGED <<transceiver_mode, opened, transfer_thread_started, thread, request, answer,
                  submitted, ended, reply>>
  BY DEF ResetFlags, Step, usb
<1>3. request = "none" /\ answer = "none" /\ Controls = {} /\ ~Reported("ok") /\ ~Reported("stall")
  BY <1>1, StartHeads, Silent DEF Requests
<1>4. /\ thread = "none" /\ submitted = <<>> /\ ended = <<>> /\ transceiver_mode = "BTLE"
  BY <1>1 DEF IInv, Begins, Told, Starting
<1>5. InFlight = {} /\ \A end : ~Reported(end)
  BY <1>4 DEF InFlight, Elements, Reported
<1>6. /\ InFlight' = InFlight /\ Controls' = Controls
      /\ \A end : Reported(end)' <=> Reported(end)
  BY <1>2, Kept
<1>7. Types'
  <2>1. TRANSFER_COUNT \in Nat \ {0} /\ 0 \in Transfers
    BY StreamingAssumption DEF Transfers
  <2>2. {transfer_thread_started', streaming', do_exit', failed'} \subseteq BOOLEAN
    BY <1>1, <1>2 DEF IInv, Types, TypeOK
  <2>3. TypeOK'
    BY <1>1, <1>2, <2>1, <2>2 DEF IInv, Types, TypeOK, Elements
  <2> QED
    BY <1>1, <1>2, <1>6, <2>3, StartHeads DEF IInv, Types, Rests, Starting
<1>8. Talk' /\ Bounded'
  BY <1>1, <1>2, <1>3, <1>6, StartHeads DEF IInv, Talk, At, Bounded
<1>9. Told'
  <2>1. ~At("on")' /\ ~At("off")'
    BY <1>1, StartHeads DEF At
  <2> QED
    BY <1>1, <1>2, <1>4, <1>6, <2>1, Kinds DEF IInv, Told, Starting, Stopping
<1>10. Between'
  BY <1>1, Kinds DEF Between, Starting
<1>11. Begins'
  <2>1. InFlight' = 0 .. next' - 1 /\ Len(submitted') + Len(ended') = next'
    BY <1>1, <1>2, <1>4, <1>5, <1>6
  <2> QED
    BY <1>1, <1>2, <1>3, <1>4, <1>5, <1>6, <2>1, Kinds DEF Begins, Starting
<1>12. Runs'
  BY <1>1, <1>2, <1>4, Kinds DEF Runs, Starting, Stopping
<1> QED
  BY <1>7, <1>8, <1>9, <1>10, <1>11, <1>12 DEF IInv

LEMMA LaunchHolds ==
  ASSUME IInv, Launch
  PROVE  IInv'
<1>1. /\ todo = ToLaunch /\ todo' = <<>>
      /\ streaming' = TRUE /\ thread' = "check" /\ transfer_thread_started' = TRUE
  BY Which, StartHeads DEF Launch, Step, IInv, Types
<1>2. UNCHANGED <<transceiver_mode, opened, do_exit, next, request, answer, submitted, ended,
                  reply, failed>>
  BY DEF Launch, Step, usb
<1>3. request = "none" /\ answer = "none" /\ Controls = {} /\ ~Reported("ok") /\ ~Reported("stall")
  BY <1>1, StartHeads, Silent DEF Requests
<1>4. /\ ~do_exit /\ ~failed /\ ~Reported("cancelled")
      /\ InFlight = Transfers /\ transceiver_mode = "BTLE"
  BY <1>1 DEF IInv, Begins, Told, Starting
<1>5. /\ InFlight' = InFlight /\ Controls' = Controls
      /\ \A end : Reported(end)' <=> Reported(end)
  BY <1>2, Kept
<1>6. Types'
  <2>1. {transfer_thread_started', streaming', do_exit', failed'} \subseteq BOOLEAN
    BY <1>1, <1>2 DEF IInv, Types, TypeOK
  <2>2. TypeOK'
    BY <1>1, <1>2, <2>1 DEF IInv, Types, TypeOK, Elements
  <2> QED
    BY <1>1, <1>2, <1>5, <2>2, StartHeads DEF IInv, Types, Rests, Free
<1>7. Talk' /\ Bounded'
  BY <1>1, <1>2, <1>3, <1>5 DEF IInv, Talk, At, Bounded
<1>8. Told'
  BY <1>1, <1>2, <1>4, <1>5, Kinds DEF IInv, Told, At, Starting, Stopping, Free
<1>9. Between' /\ Begins'
  BY <1>1, Kinds DEF Between, Begins, Starting, Free
<1>10. Runs'
  <2>1. todo' \notin ToCancel \cup ToClose \cup {ToStart} \cup ToJoin
    BY <1>1, Kinds DEF Free, Stopping
  <2> QED
    BY <1>1, <1>2, <1>4, <1>5, <2>1 DEF Runs
<1> QED
  BY <1>6, <1>7, <1>8, <1>9, <1>10 DEF IInv
LEMMA RequestExitHolds ==
  ASSUME IInv, RequestExit
  PROVE  IInv'
<1>1. todo # <<>> /\ Head(todo) = "exit" /\ do_exit' = TRUE /\ todo' = Tail(todo)
  BY DEF RequestExit, Step
<1>2. UNCHANGED <<transceiver_mode, opened, transfer_thread_started, streaming, thread, next,
                  request, answer, submitted, ended, reply, failed>>
  BY DEF RequestExit, Step, usb
<1>3. request = "none" /\ answer = "none" /\ Controls = {} /\ ~Reported("ok") /\ ~Reported("stall")
  BY <1>1, Silent DEF Requests
<1>4. /\ InFlight' = InFlight /\ Controls' = Controls
      /\ \A end : Reported(end)' <=> Reported(end)
  BY <1>2, Kept
<1>5. \/ todo \in ToExit /\ todo' \in ToJoin
      \/ todo \in ToClose /\ todo' \in ToClose /\ Head(todo') = "join"
  BY <1>1, Which, Heads, ClosingHeads DEF IInv, Types
<1>6. Types'
  <2>1. {transfer_thread_started', streaming', do_exit', failed'} \subseteq BOOLEAN
    BY <1>1, <1>2 DEF IInv, Types, TypeOK
  <2>2. TypeOK'
    BY <1>2, <2>1 DEF IInv, Types, TypeOK, Elements
  <2> QED
    BY <1>1, <1>2, <1>4, <1>5, <2>2 DEF IInv, Types, Rests, Stopping
<1>7. Talk' /\ Bounded'
  BY <1>1, <1>2, <1>3, <1>4 DEF IInv, Talk, At, Bounded
<1>8. Told'
  <2>1. Head(todo') = "join"
    BY <1>5, Heads
  <2>2. todo' \in Stopping => transceiver_mode = "OFF"
    BY <1>5, Kinds DEF IInv, Told, Stopping
  <2>3. todo' \notin Starting
    BY <1>5, Kinds
  <2> QED
    BY <1>2, <1>4, <2>1, <2>2, <2>3 DEF IInv, Told, At
<1>9. Between' /\ Begins'
  <2>1. todo' \notin Starting
    BY <1>5, Kinds
  <2>2. todo' \in Free \cup ToClose \cup {ToStart} => todo \in ToClose /\ Head(todo') = "join"
    BY <1>5, Kinds
  <2> QED
    BY <1>2, <1>3, <1>4, <2>1, <2>2 DEF IInv, Between, Begins, Starting, At, Answers
<1>10. Runs'
  <2>1. todo' \in ToStop \cup ToExit \cup ToJoin => todo \in ToExit /\ todo' \in ToJoin
    BY <1>5, Kinds
  <2>2. todo' \in ToCancel \cup ToClose \cup {ToStart} => todo \in ToClose
    BY <1>5, Kinds
  <2>3. ASSUME thread' # "none"
        PROVE  /\ ~Reported("cancelled")'
               /\ todo' \in ToJoin /\ todo' \notin Free /\ todo' \notin ToStop
               /\ ~failed' => streaming' /\ InFlight' = Transfers
    <3>1. thread # "none" /\ todo \in ToExit /\ todo' \in ToJoin
      BY <1>2, <1>5, <2>3 DEF IInv, Runs
    <3>2. ~Reported("cancelled") /\ (~failed => streaming /\ InFlight = Transfers)
      BY <3>1 DEF IInv, Runs
    <3> QED
      BY <1>2, <1>4, <3>1, <3>2, Kinds DEF Stopping
  <2> QED
    BY <1>2, <2>1, <2>2, <2>3 DEF IInv, Runs
<1> QED
  BY <1>6, <1>7, <1>8, <1>9, <1>10 DEF IInv

LEMMA JoinHolds ==
  ASSUME IInv, Join
  PROVE  IInv'
<1>1. /\ todo # <<>> /\ Head(todo) = "join" /\ transfer_thread_started' = FALSE
      /\ \/ transfer_thread_started /\ thread' = "none" /\ todo' = Tail(todo)
         \/ ~transfer_thread_started /\ thread' = thread /\ todo' = Tail(Tail(todo))
  BY DEF Join, Step
<1>2. UNCHANGED <<transceiver_mode, opened, streaming, do_exit, next,
                  request, answer, submitted, ended, reply, failed>>
  BY DEF Join, Step, usb
<1>3. request = "none" /\ answer = "none" /\ Controls = {} /\ ~Reported("ok") /\ ~Reported("stall")
  BY <1>1, Silent DEF Requests
<1>4. /\ InFlight' = InFlight /\ Controls' = Controls
      /\ \A end : Reported(end)' <=> Reported(end)
  BY <1>2, Kept
<1>5. /\ thread' = "none"
      /\ \/ todo \in ToJoin /\ todo' \in ToCancel
         \/ todo \in ToClose /\ todo' \in ToClose /\ Head(todo') # "close" /\ thread = "none"
  <2>1. todo \in ToJoin \cup ToClose
    BY <1>1, Which DEF IInv, Types
  <2>2. CASE todo \in ToJoin
    <3>1. transfer_thread_started
      BY <2>2 DEF IInv, Types, Runs
    <3> QED
      BY <1>1, <2>2, <3>1, Heads
  <2>3. CASE todo \in ToClose
    <3>1. ~transfer_thread_started /\ thread = "none"
      BY <2>3 DEF IInv, Types, Runs
    <3> QED
      BY <1>1, <2>3, <3>1, ClosingHeads
  <2> QED
    BY <2>1, <2>2, <2>3
<1>6. Types'
  <2>1. {transfer_thread_started', streaming', do_exit', failed'} \subseteq BOOLEAN
    BY <1>1, <1>2 DEF IInv, Types, TypeOK
  <2>2. TypeOK'
    BY <1>2, <1>5, <2>1 DEF IInv, Types, TypeOK, Elements
  <2>3. opened
    BY <1>1 DEF IInv, Types
  <2> QED
    BY <1>1, <1>2, <1>4, <1>5, <2>2, <2>3 DEF IInv, Types, Rests, Stopping
<1>7. Talk' /\ Bounded'
  BY <1>1, <1>2, <1>3, <1>4 DEF IInv, Talk, At, Bounded
<1>8. Told'
  <2>1. todo' \notin Starting /\ todo' # ToStart
    BY <1>5, Kinds
  <2>2. todo' \in Stopping => transceiver_mode = "OFF"
    BY <1>5, Kinds DEF IInv, Told, Stopping
  <2>3. ~At("on")'
    BY <1>6, <2>1, Which DEF Types, At
  <2> QED
    BY <1>2, <1>3, <1>4, <2>1, <2>2, <2>3 DEF IInv, Told
<1>9. Between' /\ Begins'
  <2>1. todo' \notin Starting
    BY <1>5, Kinds
  <2>2. todo' \in Free \cup ToClose \cup {ToStart} =>
          todo \in ToClose /\ Head(todo') # "close" /\ thread = "none"
    BY <1>5, Kinds
  <2> QED
    BY <1>2, <1>3, <1>4, <2>1, <2>2 DEF IInv, Between, Begins, Starting, At, Answers
<1>10. Runs'
  <2>1. todo' \notin ToStop \cup ToExit \cup ToJoin
    BY <1>5, Kinds DEF Stopping
  <2> QED
    BY <1>5, <2>1 DEF Runs
<1> QED
  BY <1>6, <1>7, <1>8, <1>9, <1>10 DEF IInv

LEMMA CloseHolds ==
  ASSUME IInv, Close
  PROVE  IInv'
<1>1. /\ todo \in ToClose /\ todo # <<>> /\ Head(todo) = "close" /\ todo' = <<>>
      /\ opened' = FALSE /\ submitted' = <<>> /\ ended' = <<>>
  BY Which, ClosingHeads DEF Close, Step, IInv, Types
<1>2. UNCHANGED <<transceiver_mode, flags, thread, next, request, answer, reply, failed>>
  BY DEF Close, Step
<1>3. request = "none" /\ answer = "none"
  BY <1>1, Silent DEF Requests
<1>4. Controls' = {} /\ \A end : ~Reported(end)'
  BY <1>1 DEF Controls, Reported
<1>5. thread = "none"
  BY <1>1 DEF IInv, Runs
<1>6. Types'
  <2>1. /\ {transfer_thread_started', streaming', do_exit', failed'} \subseteq BOOLEAN
        /\ opened' \in BOOLEAN
    BY <1>1, <1>2 DEF IInv, Types, TypeOK, flags
  <2>2. /\ submitted' \in Seq(Transfers) /\ ended' \in Seq(Report) /\ Elements(ended') = {}
        /\ Len(submitted') + Len(ended') = 0
    BY <1>1 DEF Elements
  <2>3. TypeOK'
    BY <1>2, <2>1, <2>2, StreamingAssumption DEF IInv, Types, TypeOK
  <2>4. transfer_thread_started' <=> thread' # "none"
    BY <1>2 DEF IInv, Types, flags
  <2> QED
    BY <1>1, <1>2, <1>5, <2>2, <2>3, <2>4 DEF Types, Rests, Free, InFlight, Elements
<1>7. Talk' /\ Bounded'
  BY <1>1, <1>2, <1>3, <1>4, StreamingAssumption DEF Talk, At, Bounded
<1>8. Told'
  BY <1>1, <1>4, Kinds DEF Told, At, Free, Starting, Stopping
<1>9. Between' /\ Begins' /\ Runs'
  BY <1>1, <1>2, <1>4, <1>5, Kinds DEF Between, Begins, Runs, Starting, Stopping, Free, At
<1> QED
  BY <1>6, <1>7, <1>8, <1>9 DEF IInv
-----------------------------------------------------------------------------
(* Queues of transfers and reports *)

Out(s) == {e.transfer : e \in {d \in Elements(s) : d.end \in Ends}}

LEMMA Appended ==
  ASSUME NEW S, NEW s \in Seq(S), NEW e \in S
  PROVE  /\ Append(s, e) \in Seq(S) /\ Len(Append(s, e)) = Len(s) + 1
         /\ DOMAIN s = 1 .. Len(s) /\ Len(s) \in Nat
         /\ DOMAIN Append(s, e) = 1 .. Len(s) + 1
         /\ \A i \in 1 .. Len(s) : Append(s, e)[i] = s[i]
         /\ Append(s, e)[Len(s) + 1] = e
         /\ Elements(Append(s, e)) = Elements(s) \cup {e}
         /\ Append(s, e) # <<>>
<1> DEFINE a == Append(s, e)
<1>1. /\ a \in Seq(S) /\ Len(a) = Len(s) + 1
      /\ \A i \in 1 .. Len(s) : a[i] = s[i]
      /\ a[Len(s) + 1] = e
  BY AppendProperties
<1>2. DOMAIN s = 1 .. Len(s) /\ Len(s) \in Nat /\ DOMAIN a = 1 .. Len(s) + 1
  BY <1>1
<1> HIDE DEF a
<1>3. a # <<>>
  <2>1. Len(a) # 0 /\ Len(<<>>) = 0
    BY <1>1, <1>2
  <2> QED
    BY <2>1
<1>4. Elements(a) = Elements(s) \cup {e}
  BY <1>1, <1>2 DEF Elements
<1> QED
  BY <1>1, <1>2, <1>3, <1>4 DEF a

LEMMA Removed ==
  ASSUME NEW S, NEW s \in Seq(S), s # <<>>
  PROVE  /\ Head(s) = s[1] /\ Head(s) \in S /\ Tail(s) \in Seq(S)
         /\ Len(s) \in Nat \ {0} /\ Len(Tail(s)) = Len(s) - 1
         /\ DOMAIN s = 1 .. Len(s) /\ DOMAIN Tail(s) = 1 .. Len(s) - 1
         /\ \A i \in 1 .. Len(s) - 1 : Tail(s)[i] = s[i + 1]
         /\ Elements(s) = Elements(Tail(s)) \cup {Head(s)}
<1> DEFINE t == Tail(s)  h == Head(s)
<1>1. /\ h = s[1] /\ h \in S /\ t \in Seq(S) /\ Len(s) \in Nat \ {0} /\ Len(t) = Len(s) - 1
      /\ \A i \in 1 .. Len(s) - 1 : t[i] = s[i + 1]
  BY HeadTailProperties, EmptySeq
<1>2. DOMAIN s = 1 .. Len(s) /\ DOMAIN t = 1 .. Len(s) - 1
  BY <1>1
<1> HIDE DEF t, h
<1>3. Elements(s) \subseteq Elements(t) \cup {h}
  <2> SUFFICES ASSUME NEW i \in 1 .. Len(s) PROVE s[i] \in Elements(t) \cup {h}
    BY <1>2 DEF Elements
  <2>1. CASE i = 1
    BY <1>1, <2>1
  <2>2. CASE i # 1
    <3>1. i - 1 \in 1 .. Len(s) - 1 /\ s[i] = t[i - 1]
      BY <1>1, <2>2
    <3> QED
      BY <1>2, <3>1 DEF Elements
  <2> QED
    BY <2>1, <2>2
<1>4. Elements(t) \cup {h} \subseteq Elements(s)
  BY <1>1, <1>2 DEF Elements
<1> QED
  BY <1>1, <1>2, <1>3, <1>4 DEF t, h

\* What one more report, or one report less, makes of those that are out.
LEMMA OutGrows ==
  ASSUME NEW s \in Seq(Report), NEW e \in Report
  PROVE  Out(Append(s, e)) = Out(s) \cup (IF e.end \in Ends THEN {e.transfer} ELSE {})
<1>1. Elements(Append(s, e)) = Elements(s) \cup {e}
  BY Appended
<1> QED
  BY <1>1 DEF Out

LEMMA OutShrinks ==
  ASSUME NEW s \in Seq(Report), s # <<>>
  PROVE  Out(s) = Out(Tail(s)) \cup (IF Head(s).end \in Ends THEN {Head(s).transfer} ELSE {})
<1>1. Elements(s) = Elements(Tail(s)) \cup {Head(s)}
  BY Removed
<1> QED
  BY <1>1 DEF Out

LEMMA Queues ==
  ASSUME IInv
  PROVE  /\ InFlight = Elements(submitted) \cup Out(ended)
         /\ submitted \in Seq(Transfers) /\ ended \in Seq(Report)
         /\ Len(submitted) \in Nat /\ Len(ended) \in Nat
         /\ DOMAIN ended = 1 .. Len(ended)
  BY DEF IInv, Types, TypeOK, InFlight, Out-----------------------------------------------------------------------------
(* Submitting and cancelling *)

LEMMA PrepareHolds ==
  ASSUME IInv, Prepare
  PROVE  IInv'
<1>1. todo = ToPrepare /\ todo # <<>> /\ Head(todo) = "prepare"
  BY Which, StartHeads DEF Prepare, Step, IInv, Types
<1>2. UNCHANGED <<transceiver_mode, opened, flags, thread, request, answer, ended, failed>>
  BY DEF Prepare, Step
<1>3. request = "none" /\ answer = "none" /\ Controls = {} /\ ~Reported("ok") /\ ~Reported("stall")
  BY <1>1, Silent DEF Requests
<1>4. /\ thread = "none" /\ transceiver_mode = "BTLE"
      /\ ~do_exit /\ ~failed /\ ~Reported("cancelled")
      /\ InFlight = 0 .. next - 1 /\ Len(submitted) + Len(ended) = next
  BY <1>1 DEF IInv, Begins, Told, Starting
<1>5. next \in Nat /\ next < TRANSFER_COUNT /\ TRANSFER_COUNT \in Nat \ {0}
  BY StreamingAssumption DEF IInv, Types, TypeOK, Transfers
<1>6. next \notin InFlight
  BY <1>4, <1>5
<1>7. /\ submitted' = Append(submitted, next) /\ reply' = reply
      /\ \/ next + 1 < TRANSFER_COUNT /\ next' = next + 1 /\ todo' = todo
         \/ next = TRANSFER_COUNT - 1 /\ next' = next /\ todo' = ToLaunch
  <2>1. CASE next + 1 < TRANSFER_COUNT
    BY <1>6, <2>1 DEF Prepare
  <2>2. CASE ~(next + 1 < TRANSFER_COUNT)
    <3>1. next = TRANSFER_COUNT - 1
      BY <1>5, <2>2
    <3> QED
      BY <1>1, <1>6, <2>2, <3>1, StartHeads DEF Prepare
  <2> QED
    BY <2>1, <2>2
<1>8. /\ submitted' \in Seq(Transfers) /\ Len(submitted') = Len(submitted) + 1
      /\ Elements(submitted') = Elements(submitted) \cup {next}
  BY <1>5, <1>7, Appended, Queues DEF IInv, Types, TypeOK
<1>9. InFlight' = 0 .. next
  <2>1. InFlight' = InFlight \cup {next}
    BY <1>2, <1>8 DEF InFlight
  <2> QED
    BY <1>4, <1>5, <2>1
<1>10. /\ Controls' = Controls
       /\ \A end : Reported(end)' <=> Reported(end)
  BY <1>2 DEF Controls, Reported
<1>11. Len(submitted') + Len(ended') = next + 1
  BY <1>2, <1>4, <1>8, Queues
<1>12. Types'
  <2>1. next' \in Transfers
    BY <1>5, <1>7 DEF Transfers
  <2>2. TypeOK'
    BY <1>2, <1>5, <1>7, <1>8, <1>11, <2>1 DEF IInv, Types, TypeOK, Elements, flags
  <2>3. InFlight' \subseteq Transfers
    BY <1>5, <1>9 DEF Transfers
  <2>4. todo' \in Rests
    BY <1>1, <1>7 DEF Rests, Starting
  <2> QED
    BY <1>1, <1>2, <1>4, <2>2, <2>3, <2>4 DEF IInv, Types, flags
<1>13. Talk' /\ Bounded'
  BY <1>2, <1>3, <1>5, <1>10, <1>11 DEF Talk, At, Bounded
<1>14. todo' \in Starting
  BY <1>1, <1>7 DEF Starting
<1>15. Told'
  <2>1. ~At("on")' /\ ~At("off")'
    BY <1>1, <1>7, StartHeads DEF At
  <2> QED
    BY <1>2, <1>4, <1>14, <2>1, Kinds DEF IInv, Told, Stopping
<1>16. Between'
  BY <1>14, Kinds DEF Between
<1>17. Begins'
  <2>1. todo' # ToReset /\ (todo' = ToPrepare => next' = next + 1)
    BY <1>1, <1>7, Kinds
  <2>2. todo' = ToLaunch => next = TRANSFER_COUNT - 1
    BY <1>1, <1>7, Kinds
  <2>3. todo' = ToPrepare => InFlight' = 0 .. next' - 1
    BY <1>5, <1>9, <2>1
  <2>4. todo' = ToLaunch => InFlight' = Transfers
    BY <1>5, <1>9, <2>2 DEF Transfers
  <2> QED
    BY <1>2, <1>3, <1>4, <1>10, <1>11, <2>1, <2>3, <2>4 DEF Begins, flags
<1>18. Runs'
  <2>1. todo' \notin ToStop \cup ToExit \cup ToJoin
    BY <1>14, Kinds DEF Stopping
  <2> QED
    BY <1>2, <1>4, <2>1 DEF Runs
<1> QED
  BY <1>12, <1>13, <1>15, <1>16, <1>17, <1>18 DEF IInv

LEMMA CancelHolds ==
  ASSUME IInv, Cancel
  PROVE  IInv'
<1>1. /\ todo \in ToCancel /\ todo # <<>> /\ Head(todo) = "cancel" /\ todo' = Tail(todo)
      /\ submitted' = <<>> /\ ended' = ended \o Cancelled(submitted)
  BY Which DEF Cancel, Step, IInv, Types
<1>2. UNCHANGED <<transceiver_mode, opened, flags, thread, next, request, answer, reply, failed>>
  BY DEF Cancel, Step
<1>3. request = "none" /\ answer = "none" /\ Controls = {} /\ ~Reported("ok") /\ ~Reported("stall")
  BY <1>1, Silent DEF Requests
<1>4. thread = "none" /\ transceiver_mode = "OFF" /\ ~Reported("completed")
  <2>1. thread = "none" /\ transceiver_mode = "OFF"
    BY <1>1 DEF IInv, Runs, Told, Stopping
  <2> QED
    BY <1>3, <2>1 DEF IInv, Told, Reported
<1>5. /\ todo' \in ToClose \cup {<<>>}
      /\ todo' # <<>> => Head(todo') = "off"
  BY <1>1, Heads
<1> DEFINE c == Cancelled(submitted)
           m == Len(ended)
           n == Len(submitted)
<1>6. m \in Nat /\ n \in Nat /\ DOMAIN ended = 1 .. m /\ DOMAIN submitted = 1 .. n
  BY Queues
<1>7. /\ c \in Seq(Report) /\ Len(c) = n
      /\ \A i \in 1 .. n : c[i] = [transfer |-> submitted[i], end |-> "cancelled"]
  <2>1. c = [i \in 1 .. n |-> [transfer |-> submitted[i], end |-> "cancelled"]]
    BY <1>6 DEF Cancelled
  <2>2. \A i \in 1 .. n : [transfer |-> submitted[i], end |-> "cancelled"] \in Report
    BY <1>6, Queues, StreamingAssumption DEF Report, Transfers, Ends
  <2> QED
    BY <1>6, <2>1, <2>2
<1> HIDE DEF c
<1>8. /\ ended' \in Seq(Report) /\ Len(ended') = m + n /\ DOMAIN ended' = 1 .. m + n
      /\ \A i \in 1 .. m : ended'[i] = ended[i]
      /\ \A i \in 1 .. n : ended'[m + i] = c[i]
  <2>1. ended' = ended \o c
    BY <1>1 DEF c
  <2>2. /\ ended' \in Seq(Report) /\ Len(ended') = m + n
        /\ \A i \in 1 .. m + n : ended'[i] = IF i <= m THEN ended[i] ELSE c[i - m]
    <3>1. ended \in Seq(Report)
      BY Queues
    <3>2. /\ ended \o c \in Seq(Report) /\ Len(ended \o c) = Len(ended) + Len(c)
          /\ \A i \in 1 .. Len(ended) + Len(c) :
               (ended \o c)[i] = IF i <= Len(ended) THEN ended[i] ELSE c[i - Len(ended)]
      <4>1. c \in Seq(Report)
        BY <1>7
      <4> QED
        BY <3>1, <4>1, ConcatProperties, Zenon
    <3> QED
      BY <1>7, <2>1, <3>2
  <2> HIDE DEF m, n
  <2> QED
    BY <1>6, <2>2
<1> HIDE DEF m, n
<1>9. \A i \in 1 .. m + n : \/ i \in 1 .. m /\ ended'[i] = ended[i]
                            \/ i - m \in 1 .. n /\ ended'[i] = c[i - m]
  BY <1>6, <1>8
<1>10. Elements(ended') = Elements(ended) \cup
                          {[transfer |-> t, end |-> "cancelled"] : t \in Elements(submitted)}
  <2>1. Elements(ended') = {ended[i] : i \in 1 .. m} \cup {c[i] : i \in 1 .. n}
    <3>1. Elements(ended') \subseteq {ended[i] : i \in 1 .. m} \cup {c[i] : i \in 1 .. n}
      BY <1>8, <1>9 DEF Elements
    <3>2. \A i \in 1 .. m : ended[i] \in Elements(ended')
      BY <1>6, <1>8 DEF Elements
    <3>3. \A i \in 1 .. n : c[i] \in Elements(ended')
      <4>1. \A i \in 1 .. n : m + i \in 1 .. m + n
        BY <1>6
      <4> QED
        BY <1>8, <4>1 DEF Elements
    <3> QED
      BY <3>1, <3>2, <3>3
  <2>2. {c[i] : i \in 1 .. n} =
          {[transfer |-> t, end |-> "cancelled"] : t \in {submitted[i] : i \in 1 .. n}}
    BY <1>7
  <2> QED
    BY <1>6, <2>1, <2>2 DEF Elements
<1>11. InFlight' = InFlight
  <2>1. Elements(submitted') = {}
    BY <1>1 DEF Elements
  <2>2. Out(ended') = Out(ended) \cup Elements(submitted)
    <3> DEFINE C == {[transfer |-> t, end |-> "cancelled"] : t \in Elements(submitted)}
    <3>1. \A t \in Elements(submitted) :
            \E e \in C : e.end = "cancelled" /\ e.transfer = t
      <4> TAKE t \in Elements(submitted)
      <4> WITNESS [transfer |-> t, end |-> "cancelled"] \in C
      <4> QED
        OBVIOUS
    <3>2. \A e \in C : e.end = "cancelled" /\ e.transfer \in Elements(submitted)
      OBVIOUS
    <3>3. Elements(ended') = Elements(ended) \cup C
      BY <1>10
    <3> HIDE DEF C
    <3> QED
      BY <3>1, <3>2, <3>3 DEF Out, Ends
  <2>3. InFlight' = Elements(submitted') \cup Out(ended')
    BY DEF InFlight, Out
  <2> QED
    BY <2>1, <2>2, <2>3, Queues
<1>12. \A end : Reported(end)' => Reported(end) \/ end = "cancelled"
  BY <1>6, <1>7, <1>8, <1>9 DEF Reported
<1>13. Controls' = {}
  <2>1. \A i \in 1 .. m + n : ended'[i].end \notin Answers
    <3> TAKE i \in 1 .. m + n
    <3>1. CASE i \in 1 .. m /\ ended'[i] = ended[i]
      BY <1>3, <1>6, <3>1 DEF Controls
    <3>2. CASE i - m \in 1 .. n /\ ended'[i] = c[i - m]
      BY <1>7, <3>2 DEF Answers
    <3> QED
      BY <1>9, <3>1, <3>2
  <2> QED
    BY <1>8, <2>1 DEF Controls
<1>14. ~Reported("ok")' /\ ~Reported("stall")' /\ ~Reported("completed")'
  BY <1>3, <1>4, <1>12
<1>15. Types'
  <2>1. {transfer_thread_started', streaming', do_exit', failed'} \subseteq BOOLEAN
    BY <1>2 DEF IInv, Types, TypeOK, flags
  <2>2. /\ submitted' \in Seq(Transfers) /\ Len(submitted') = 0
        /\ Len(submitted') + Len(ended') <= TRANSFER_COUNT + 1
    BY <1>1, <1>6, <1>8 DEF IInv, Types, TypeOK, m, n
  <2>3. Elements(ended') \subseteq Report
    BY <1>8 DEF Elements
  <2>4. TypeOK'
    BY <1>2, <2>1, <2>2, <2>3 DEF IInv, Types, TypeOK, Report
  <2>5. todo' \in Rests /\ opened'
    BY <1>1, <1>2, <1>5 DEF IInv, Types, Rests, Free
  <2> QED
    BY <1>2, <1>8, <1>11, <2>4, <2>5 DEF IInv, Types, flags
<1>16. Talk'
  BY <1>2, <1>3, <1>13, <1>14 DEF Talk, At
<1>17. Told'
  <2>1. ~At("on")'
    BY <1>5 DEF At
  <2>2. todo' \notin Stopping \cup Starting
    BY <1>5, Kinds DEF Free, Stopping
  <2> QED
    BY <1>2, <1>3, <1>14, <2>1, <2>2 DEF Told, Reported
<1>18. Between'
  BY <1>1, <1>2, <1>3, <1>5, <1>13, <1>14 DEF Between, At, Answers
<1>19. Begins' /\ Runs'
  <2>1. todo' \notin Starting \cup ToStop \cup ToExit \cup ToJoin
    BY <1>5, Kinds DEF Free, Stopping
  <2> QED
    BY <1>2, <1>4, <2>1 DEF Begins, Runs, Starting
<1>20. Bounded'
  BY <1>1, <1>2, <1>3, <1>6, <1>8 DEF IInv, Bounded, m, n
<1> QED
  BY <1>15, <1>16, <1>17, <1>18, <1>19, <1>20 DEF IInv-----------------------------------------------------------------------------
(* The device and the kernel *)

LEMMA ServeHolds ==
  ASSUME IInv, Serve
  PROVE  IInv'
<1> DEFINE result == IF Refused(request) THEN "stall" ELSE "ok"
           m == Len(ended)
<1>1. /\ request # "none" /\ request' = "none"
      /\ ended' = Append(ended, Control(result))
      /\ UNCHANGED <<opened, flags, thread, todo, next, answer, submitted, reply, failed>>
  BY DEF Serve
<1>2. /\ answer = "awaited" /\ request = Head(todo) /\ todo # <<>> /\ request \in Requests
      /\ Controls = {} /\ ~Reported("ok") /\ ~Reported("stall")
  <2>1. /\ answer = "awaited" /\ request = Head(todo) /\ request \in Requests /\ Controls = {}
        /\ todo # <<>>
    BY <1>1 DEF IInv, Talk, Types, TypeOK
  <2> QED
    BY <2>1 DEF Controls, Reported, Answers
<1>3. /\ request = "on" /\ ~Refused(request) => transceiver_mode' = "BTLE"
      /\ request = "off" => transceiver_mode' = "OFF" /\ ~Refused(request)
      /\ request = "channel" => transceiver_mode' = transceiver_mode
      /\ transceiver_mode' \in {"OFF", "BTLE"}
  <2>1. request = "off" => ~Refused(request)
    BY DEF Refused
  <2>2. transceiver_mode \in {"OFF", "BTLE"}
    BY DEF IInv, Types, TypeOK
  <2>3. transceiver_mode' = IF Refused(request) \/ request = "channel" THEN transceiver_mode
                            ELSE IF request = "on" THEN "BTLE" ELSE "OFF"
    BY DEF Serve
  <2>4. CASE request = "channel" \/ Refused(request)
    <3>1. transceiver_mode' = transceiver_mode
      BY <2>3, <2>4
    <3> QED
      BY <2>1, <2>2, <2>4, <3>1
  <2>5. CASE request = "on" /\ ~Refused(request)
    BY <2>2, <2>3, <2>5
  <2>6. CASE request = "off" /\ ~Refused(request)
    BY <2>2, <2>3, <2>6
  <2> QED
    BY <1>2, <2>4, <2>5, <2>6 DEF Requests
<1>4. Control(result) \in Report /\ result \in Answers /\ Control(result).end = result
  BY StreamingAssumption DEF Control, Report, Answers
<1>5. /\ ended' \in Seq(Report) /\ m \in Nat /\ Len(ended') = m + 1
      /\ DOMAIN ended = 1 .. m /\ DOMAIN ended' = 1 .. m + 1
      /\ \A i \in 1 .. m : ended'[i] = ended[i]
      /\ ended'[m + 1].end = result
  BY <1>1, <1>4, Queues, Appended
<1> HIDE DEF result, m
<1>6. InFlight' = InFlight
  <2>1. result \notin Ends
    BY <1>4 DEF Answers, Ends
  <2>2. Out(ended') = Out(ended)
    BY <1>1, <1>4, <2>1, Queues, OutGrows
  <2>3. Elements(submitted') = Elements(submitted)
    BY <1>1
  <2>4. InFlight' = Elements(submitted') \cup Out(ended')
    BY DEF InFlight, Out
  <2> QED
    BY <2>2, <2>3, <2>4, Queues
<1>7. \A end : Reported(end)' => Reported(end) \/ end = result
  BY <1>5 DEF Reported
<1>8. Controls' = {m + 1}
  <2>1. \A i \in 1 .. m : ended'[i].end \notin Answers
    BY <1>2, <1>5 DEF Controls
  <2>2. Controls' \subseteq {m + 1}
    BY <1>5, <2>1 DEF Controls
  <2>3. m + 1 \in Controls'
    BY <1>4, <1>5 DEF Controls
  <2> QED
    BY <2>2, <2>3
<1>9. /\ ~Reported("completed") => ~Reported("completed")'
      /\ ~Reported("cancelled") => ~Reported("cancelled")'
  BY <1>4, <1>7 DEF Answers
<1>10. Len(submitted') + Len(ended') <= TRANSFER_COUNT + 1
  <2>1. Len(submitted) + m <= TRANSFER_COUNT
    BY <1>1, <1>2, StreamingAssumption DEF IInv, Bounded, m
  <2> QED
    BY <1>1, <1>5, <2>1, Queues, StreamingAssumption
<1>11. todo \notin Starting \cup Stopping
  BY <1>2, Heads, StartHeads DEF Starting, Stopping, Requests
<1>12. Types'
  <2>1. {transfer_thread_started', streaming', do_exit', failed'} \subseteq BOOLEAN
    BY <1>1 DEF IInv, Types, TypeOK, flags
  <2>2. Elements(ended') \subseteq Report
    BY <1>5 DEF Elements
  <2>3. TypeOK'
    BY <1>1, <1>3, <1>10, <2>1, <2>2 DEF IInv, Types, TypeOK, Report
  <2> QED
    BY <1>1, <1>5, <1>6, <2>3 DEF IInv, Types, flags
<1>13. Talk'
  <2>1. At("off")' => request = "off" /\ result = "ok"
    BY <1>1, <1>2, <1>3 DEF At, result
  <2>2. At("off")' => ~Reported("stall")'
    BY <1>2, <1>7, <2>1
  <2> QED
    BY <1>1, <1>2, <1>8, <2>2 DEF Talk
<1>14. Told'
  <2>1. ASSUME transceiver_mode' = "OFF", NEW j \in DOMAIN ended', ended'[j].end = "completed"
        PROVE  \E i \in Controls' : i > j
    <3>1. j # m + 1
      BY <1>4, <1>5, <2>1 DEF Answers
    <3> QED
      BY <1>5, <1>8, <2>1, <3>1
  <2>2. At("on")' /\ (answer' = "ok" \/ Reported("ok")') => transceiver_mode' = "BTLE"
    <3>1. Reported("ok")' => result = "ok"
      BY <1>2, <1>7
    <3>2. result = "ok" => ~Refused(request)
      BY DEF result
    <3> QED
      BY <1>1, <1>2, <1>3, <3>1, <3>2 DEF At
  <2>3. At("off")' => transceiver_mode' = "OFF"
    BY <1>1, <1>2, <1>3 DEF At
  <2> QED
    BY <1>1, <1>11, <2>1, <2>2, <2>3 DEF Told
<1>15. Between'
  BY <1>1, <1>2, <1>5, <1>8, <1>9 DEF IInv, Between, At, Answers, Requests
<1>16. Begins'
  BY <1>1, <1>11 DEF Begins, Starting
<1>17. Runs'
  <2>1. todo \in Free => request = "channel"
    BY <1>2, StartHeads DEF Free
  <2> QED
    BY <1>1, <1>2, <1>3, <1>6, <1>9, <2>1 DEF IInv, Runs, flags
<1>18. Bounded'
  BY <1>1, <1>2, <1>10 DEF Bounded
<1> QED
  BY <1>12, <1>13, <1>14, <1>15, <1>16, <1>17, <1>18 DEF IInv

LEMMA SendHolds ==
  ASSUME IInv, Send
  PROVE  IInv'
<1> DEFINE e == [transfer |-> Head(submitted), end |-> "completed"]
           m == Len(ended)
<1>1. /\ transceiver_mode = "BTLE" /\ submitted # <<>>
      /\ ended' = Append(ended, e) /\ submitted' = Tail(submitted)
      /\ UNCHANGED <<transceiver_mode, opened, flags, thread, todo, next, request, answer,
                     reply, failed>>
  BY DEF Send
<1>2. /\ Head(submitted) \in Transfers /\ submitted' \in Seq(Transfers)
      /\ Len(submitted) \in Nat /\ Len(submitted') = Len(submitted) - 1
      /\ Elements(submitted) = Elements(submitted') \cup {Head(submitted)}
  BY <1>1, Queues, Removed
<1>3. e \in Report /\ e.end = "completed" /\ e.transfer = Head(submitted)
  BY <1>2, StreamingAssumption DEF Report, Transfers, Ends
<1>4. /\ ended' \in Seq(Report) /\ m \in Nat /\ Len(ended') = m + 1
      /\ DOMAIN ended = 1 .. m /\ DOMAIN ended' = 1 .. m + 1
      /\ \A i \in 1 .. m : ended'[i] = ended[i]
      /\ ended'[m + 1].end = "completed"
  BY <1>1, <1>3, Queues, Appended
<1>5. Out(ended') = Out(ended) \cup {Head(submitted)}
  BY <1>1, <1>3, Queues, OutGrows DEF Ends
<1> HIDE DEF e, m
<1>6. InFlight' = InFlight
  <2>1. InFlight' = Elements(submitted') \cup Out(ended')
    BY DEF InFlight, Out
  <2> QED
    BY <1>2, <1>5, <2>1, Queues
<1>7. \A end : end # "completed" => (Reported(end)' <=> Reported(end))
  BY <1>4 DEF Reported
<1>8. Controls' = Controls
  BY <1>4 DEF Controls, Answers
<1>9. Len(submitted') + Len(ended') = Len(submitted) + Len(ended)
  BY <1>2, <1>4 DEF m
<1>10. todo # ToReset /\ ~(thread = "none" /\ todo \in Free \cup ToClose \cup {ToStart})
  BY <1>1 DEF IInv, Begins, Between
<1>11. Types'
  <2>1. {transfer_thread_started', streaming', do_exit', failed'} \subseteq BOOLEAN
    BY <1>1 DEF IInv, Types, TypeOK, flags
  <2>2. Elements(ended') \subseteq Report
    BY <1>4 DEF Elements
  <2>3. TypeOK'
    BY <1>1, <1>2, <1>9, <2>1, <2>2 DEF IInv, Types, TypeOK, Report
  <2> QED
    BY <1>1, <1>4, <1>6, <2>3 DEF IInv, Types, flags
<1>12. Talk' /\ Bounded'
  BY <1>1, <1>7, <1>8, <1>9 DEF IInv, Talk, At, Bounded
<1>13. Told'
  BY <1>1, <1>7 DEF IInv, Told, At
<1>14. Between' /\ Begins'
  BY <1>1, <1>6, <1>7, <1>8, <1>9, <1>10 DEF IInv, Between, Begins, flags
<1>15. Runs'
  BY <1>1, <1>6, <1>7 DEF IInv, Runs, flags
<1> QED
  BY <1>11, <1>12, <1>13, <1>14, <1>15 DEF IInv-----------------------------------------------------------------------------
(* Events *)

\* What handling an event does to the rest of the reports.
LEMMA Shifted ==
  ASSUME IInv, ended # <<>>, ended' = Tail(ended)
  PROVE  /\ ended' \in Seq(Report) /\ Len(ended') = Len(ended) - 1 /\ Len(ended) \in Nat \ {0}
         /\ DOMAIN ended' = 1 .. Len(ended) - 1
         /\ \A i \in DOMAIN ended' : i + 1 \in DOMAIN ended /\ ended'[i] = ended[i + 1]
         /\ Head(ended) = ended[1] /\ Head(ended) \in Report
         /\ \A end : Reported(end)' => Reported(end)
         /\ \A i \in Controls' : i + 1 \in Controls
         /\ \A i \in Controls : i = 1 \/ i - 1 \in Controls'
<1> DEFINE m == Len(ended)
<1>1. /\ ended' \in Seq(Report) /\ Len(ended') = m - 1 /\ m \in Nat \ {0}
      /\ DOMAIN ended = 1 .. m /\ DOMAIN ended' = 1 .. m - 1
      /\ \A i \in 1 .. m - 1 : ended'[i] = ended[i + 1]
      /\ Head(ended) = ended[1] /\ Head(ended) \in Report
  BY Queues, Removed
<1> HIDE DEF m
<1>2. \A i \in DOMAIN ended' : i + 1 \in DOMAIN ended /\ ended'[i] = ended[i + 1]
  BY <1>1
<1>3. \A end : Reported(end)' => Reported(end)
  BY <1>2 DEF Reported
<1>4. \A i \in Controls' : i + 1 \in Controls
  BY <1>2 DEF Controls
<1>5. ASSUME NEW i \in Controls, i # 1
      PROVE  i - 1 \in Controls'
  <2>1. i \in 1 .. m /\ ended[i].end \in Answers
    BY <1>1 DEF Controls
  <2>2. i - 1 \in 1 .. m - 1 /\ (i - 1) + 1 = i
    BY <1>1, <1>5, <2>1
  <2>3. ended'[i - 1] = ended[(i - 1) + 1]
    BY <1>1, <2>2
  <2> QED
    BY <1>1, <2>1, <2>2, <2>3 DEF Controls
<1> QED
  BY <1>1, <1>2, <1>3, <1>4, <1>5 DEF m

LEMMA EventHolds ==
  ASSUME IInv, HandleEvent,
         \/ answer = "awaited" /\ thread' = thread
         \/ thread = "events" /\ thread' = "check"
  PROVE  IInv'
<1> DEFINE e == Head(ended)
<1>1. /\ ended # <<>> /\ ended' = Tail(ended)
      /\ UNCHANGED <<transceiver_mode, opened, transfer_thread_started, streaming, todo, next,
                     request, reply>>
  BY DEF HandleEvent
<1>2. /\ ended' \in Seq(Report) /\ Len(ended') = Len(ended) - 1 /\ Len(ended) \in Nat \ {0}
      /\ DOMAIN ended' = 1 .. Len(ended) - 1 /\ DOMAIN ended = 1 .. Len(ended)
      /\ \A i \in DOMAIN ended' : i + 1 \in DOMAIN ended /\ ended'[i] = ended[i + 1]
      /\ e = ended[1] /\ e \in Report
  BY <1>1, Shifted, Queues
<1>3. /\ \A end : Reported(end)' => Reported(end)
      /\ \A i \in Controls' : i + 1 \in Controls
      /\ \A i \in Controls : i = 1 \/ i - 1 \in Controls'
  BY <1>1, Shifted
<1>4. /\ \/ e.end \in Answers /\ answer' = e.end
            /\ UNCHANGED <<submitted, do_exit, failed>>
         \/ /\ e.end = "completed" /\ answer' = answer
            /\ \/ submitted' = Append(submitted, e.transfer) /\ UNCHANGED <<do_exit, failed>>
               \/ submitted' = submitted /\ do_exit' = TRUE /\ failed' = TRUE
         \/ /\ e.end = "cancelled" /\ answer' = answer
            /\ do_exit' = TRUE /\ UNCHANGED <<submitted, failed>>
  <2>1. e.end \in Ends \cup Answers
    BY <1>2 DEF Report
  <2>2. CASE e.end \in Answers
    BY <2>2 DEF HandleEvent
  <2>3. CASE e.end = "completed"
    <3>1. e.end \notin Answers
      BY <2>3 DEF Answers
    <3>2. answer' = answer /\ (Resubmit(e.transfer) \/ ResubmitFails)
      BY <2>3, <3>1 DEF HandleEvent, TransferCallback
    <3> QED
      BY <2>3, <3>2 DEF Resubmit, ResubmitFails
  <2>4. CASE e.end = "cancelled"
    <3>1. e.end \notin Answers /\ e.end # "completed"
      BY <2>4 DEF Answers
    <3> QED
      BY <2>4, <3>1 DEF HandleEvent, TransferCallback
  <2> QED
    BY <2>1, <2>2, <2>3, <2>4 DEF Ends
<1>5. Reported(e.end) /\ (e.end \in Answers => 1 \in Controls)
  <2>1. 1 \in DOMAIN ended
    BY <1>2
  <2> QED
    BY <1>2, <2>1 DEF Reported, Controls
<1>6. todo \notin Starting
  BY StartHeads DEF IInv, Talk, Begins, Starting, Requests
<1> HIDE DEF e
\* a control transfer that ended
<1>7. ASSUME e.end \in Answers
      PROVE  /\ answer = "awaited" /\ request = "none" /\ Controls = {1} /\ Controls' = {}
             /\ answer' \in Answers
  <2>1. answer = "awaited" /\ request = "none" /\ Controls = {1}
    BY <1>5, <1>7 DEF IInv, Talk
  <2>2. Controls' = {}
    <3>1. \A i \in Controls' : i \in Nat /\ i + 1 = 1 /\ i # 0
      BY <1>2, <1>3, <2>1 DEF Controls
    <3> QED
      BY <3>1
  <2> QED
    BY <1>4, <1>7, <2>1, <2>2 DEF Answers
<1>8. e.end \notin Answers => answer' = answer
  BY <1>4
<1>9. submitted' \in Seq(Transfers) /\ InFlight' \subseteq InFlight
      /\ Len(submitted') \in Nat /\ Len(submitted') + Len(ended') <= Len(submitted) + Len(ended)
      /\ (failed' \/ InFlight' = InFlight \/ e.end = "cancelled")
  <2>1. /\ Out(ended) = Out(ended') \cup (IF e.end \in Ends THEN {e.transfer} ELSE {})
        /\ InFlight = Elements(submitted) \cup Out(ended)
        /\ InFlight' = Elements(submitted') \cup Out(ended')
    <3>1. Out(ended) = Out(ended') \cup (IF e.end \in Ends THEN {e.transfer} ELSE {})
      BY <1>1, Queues, OutShrinks DEF e
    <3>2. InFlight' = Elements(submitted') \cup Out(ended')
      BY DEF InFlight, Out
    <3> QED
      BY <3>1, <3>2, Queues
  <2>2. CASE submitted' = submitted
    <3>1. submitted' \in Seq(Transfers) /\ Len(submitted') \in Nat
      BY <2>2, Queues
    <3>2. Elements(submitted') = Elements(submitted)
      BY <2>2
    <3>3. InFlight' \subseteq InFlight
      BY <2>1, <3>2
    <3>4. Len(submitted') + Len(ended') <= Len(submitted) + Len(ended)
      BY <1>2, <2>2, <3>1
    <3>5. failed' \/ InFlight' = InFlight \/ e.end = "cancelled"
      <4>1. e.end \in Answers => e.end \notin Ends
        BY DEF Answers, Ends
      <4>2. e.end \in Answers => InFlight' = InFlight
        BY <2>1, <3>2, <4>1
      <4>3. e.end = "completed" /\ submitted' = Append(submitted, e.transfer) => FALSE
        <5>1. e.end = "completed" => e.transfer \in Transfers
          BY <2>1 DEF IInv, Types, Ends
        <5>2. e.end = "completed" => Len(Append(submitted, e.transfer)) = Len(submitted) + 1
          BY <5>1, Queues, Appended
        <5> QED
          BY <2>2, <3>1, <5>2
      <4> QED
        BY <1>4, <4>2, <4>3
    <3> QED
      BY <3>1, <3>3, <3>4, <3>5
  <2>3. CASE e.end = "completed" /\ submitted' = Append(submitted, e.transfer)
    <3>1. e.transfer \in Transfers
      BY <2>1, <2>3 DEF IInv, Types, Ends
    <3>2. /\ submitted' \in Seq(Transfers) /\ Len(submitted') = Len(submitted) + 1
          /\ Elements(submitted') = Elements(submitted) \cup {e.transfer}
      BY <2>3, <3>1, Queues, Appended
    <3>3. InFlight' = InFlight
      BY <2>1, <2>3, <3>2 DEF Ends
    <3> QED
      BY <1>2, <3>2, <3>3, Queues
  <2> QED
    BY <1>4, <2>2, <2>3
<1>10. thread' \in {"none", "check", "events", "ended"} /\ (thread' = "none" <=> thread = "none")
       /\ (thread' = "ended" => thread = "ended")
  BY DEF IInv, Types, TypeOK
<1>11. Types'
  <2>1. {transfer_thread_started', streaming', do_exit', failed'} \subseteq BOOLEAN
    <3>1. do_exit' \in {do_exit, TRUE} /\ failed' \in {failed, TRUE}
      BY <1>4
    <3> QED
      BY <1>1, <3>1 DEF IInv, Types, TypeOK
  <2>2. Elements(ended') \subseteq Report
    BY <1>2 DEF Elements
  <2>3. answer' \in {"none", "awaited"} \cup Answers
    BY <1>7, <1>8 DEF IInv, Types, TypeOK
  <2>4. Len(submitted') + Len(ended') <= TRANSFER_COUNT + 1
    <3>1. Len(submitted) + Len(ended) <= TRANSFER_COUNT + 1
      BY DEF IInv, Types, TypeOK
    <3> QED
      BY <1>2, <1>9, <3>1, Queues, StreamingAssumption
  <2>5. TypeOK'
    BY <1>1, <1>9, <1>10, <2>1, <2>2, <2>3, <2>4 DEF IInv, Types, TypeOK, Report
  <2>6. InFlight' \subseteq Transfers
    BY <1>9 DEF IInv, Types
  <2> QED
    BY <1>1, <1>2, <1>10, <2>5, <2>6 DEF IInv, Types
<1>12. Talk'
  <2>1. request' # "none" => answer' = "awaited" /\ request' = Head(todo')
    BY <1>1, <1>7, <1>8 DEF IInv, Talk
  <2>2. answer' # "none" => todo' # <<>> /\ Head(todo') \in Requests
    BY <1>1, <1>7, <1>8 DEF IInv, Talk
  <2>3. Controls' # {} => answer' = "awaited" /\ request' = "none"
    BY <1>1, <1>3, <1>7, <1>8 DEF IInv, Talk
  <2>4. \A i, j \in Controls' : i = j
    <3> TAKE i, j \in Controls'
    <3>1. i + 1 = j + 1
      BY <1>3 DEF IInv, Talk
    <3>2. i \in Nat /\ j \in Nat
      BY <1>2 DEF Controls
    <3> QED
      BY <3>1, <3>2
  <2>5. At("off")' => ~Reported("stall")' /\ answer' # "stall"
    <3>1. At("off")' => ~Reported("stall") /\ answer # "stall" /\ e.end # "stall"
      BY <1>1, <1>5 DEF IInv, Talk, At
    <3> QED
      BY <1>3, <1>4, <3>1
  <2> QED
    BY <2>1, <2>2, <2>3, <2>4, <2>5 DEF Talk
<1>13. Told'
  <2>1. ASSUME transceiver_mode' = "OFF", NEW j \in DOMAIN ended', ended'[j].end = "completed"
        PROVE  \E i \in Controls' : i > j
    <3>1. j \in Nat /\ j >= 1 /\ j + 1 \in DOMAIN ended /\ ended[j + 1].end = "completed"
      BY <1>2, <2>1
    <3>2. PICK i \in Controls : i > j + 1
      BY <1>1, <2>1, <3>1 DEF IInv, Told
    <3>3. i \in Nat /\ i - 1 > j /\ i # 1
      BY <1>2, <3>1, <3>2 DEF Controls
    <3> QED
      BY <1>3, <3>3
  <2>2. At("on")' /\ (answer' = "ok" \/ Reported("ok")') => transceiver_mode' = "BTLE"
    <3>1. answer' = "ok" => answer = "ok" \/ Reported("ok")
      BY <1>4, <1>5
    <3> QED
      BY <1>1, <1>3, <3>1 DEF IInv, Told, At
  <2>3. At("off")' /\ request' = "none" /\ answer' # "none" => transceiver_mode' = "OFF"
    <3>1. answer' # "none" => answer # "none"
      BY <1>7, <1>8
    <3> QED
      BY <1>1, <3>1 DEF IInv, Told, At
  <2> QED
    BY <1>1, <2>1, <2>2, <2>3 DEF IInv, Told
<1>14. Between'
  <2> SUFFICES ASSUME thread' = "none", todo' \in Free \cup ToClose \cup {ToStart}
               PROVE  /\ submitted' = <<>> /\ ~Reported("completed")'
                      /\ \A i \in Controls' : i = Len(ended')
                      /\ answer' \in Answers \/ At("close")' => ended' = <<>>
    BY DEF Between
  <2>1. /\ thread = "none" /\ todo \in Free \cup ToClose \cup {ToStart} /\ answer = "awaited"
    BY <1>1, <1>10
  <2>2. /\ submitted = <<>> /\ ~Reported("completed") /\ \A i \in Controls : i = Len(ended)
    BY <2>1 DEF IInv, Between
  <2>3. submitted' = <<>> /\ ~Reported("completed")'
    BY <1>3, <1>4, <1>5, <2>2
  <2>4. \A i \in Controls' : i = Len(ended')
    <3> TAKE i \in Controls'
    <3>1. i + 1 = Len(ended) /\ i \in Nat
      BY <1>2, <1>3, <2>2 DEF Controls
    <3> QED
      BY <1>2, <3>1
  <2>5. ~At("close")'
    BY <1>1, <2>1 DEF IInv, Talk, At, Requests
  <2>6. answer' \in Answers => ended' = <<>>
    <3>1. answer' \in Answers => e.end \in Answers
      BY <1>8, <2>1 DEF Answers
    <3>2. e.end \in Answers => Len(ended) = 1
      BY <1>7, <2>2
    <3> QED
      BY <1>2, <3>1, <3>2, EmptySeq
  <2> QED
    BY <2>3, <2>4, <2>5, <2>6
<1>15. Begins'
  BY <1>1, <1>6 DEF Begins, Starting
<1>16. Runs'
  <2>1. thread # "none" => e.end # "cancelled"
    BY <1>5 DEF IInv, Runs
  <2>2. answer' = "none" => answer = "none"
    BY <1>7, <1>8 DEF Answers
  <2>3. ASSUME thread' # "none"
        PROVE  /\ ~Reported("cancelled")'
               /\ todo' \in Free \/ (todo' \in ToStop /\ (request' # "none" \/ answer' = "none")) =>
                    transceiver_mode' = "BTLE"
               /\ ~failed' => streaming' /\ InFlight' = Transfers
               /\ ~failed' /\ todo' \notin ToJoin => ~do_exit' /\ thread' # "ended"
    <3>1. thread # "none" /\ e.end # "cancelled"
      BY <1>10, <2>1, <2>3
    <3>2. ~failed' => ~failed /\ do_exit' = do_exit
      BY <1>4, <3>1
    <3>3. /\ ~Reported("cancelled")
          /\ todo \in Free \/ (todo \in ToStop /\ (request # "none" \/ answer = "none")) =>
               transceiver_mode = "BTLE"
          /\ ~failed => streaming /\ InFlight = Transfers
          /\ ~failed /\ todo \notin ToJoin => ~do_exit /\ thread # "ended"
      BY <3>1 DEF IInv, Runs
    <3>4. /\ ~Reported("cancelled")'
          /\ todo' \in Free \/ (todo' \in ToStop /\ (request' # "none" \/ answer' = "none")) =>
               transceiver_mode' = "BTLE"
      BY <1>1, <1>3, <2>2, <3>3
    <3>5. ~failed' => streaming' /\ InFlight' = Transfers
      BY <1>1, <1>9, <3>1, <3>2, <3>3
    <3>6. ~failed' /\ todo' \notin ToJoin => ~do_exit' /\ thread' # "ended"
      BY <1>1, <1>10, <3>2, <3>3
    <3> QED
      BY <3>4, <3>5, <3>6
  <2>4. /\ todo' \in ToStop \cup ToExit \cup ToJoin => thread' # "none"
        /\ todo' \in ToCancel \cup ToClose \cup {ToStart} => thread' = "none"
    BY <1>1, <1>10 DEF IInv, Runs
  <2> QED
    BY <2>3, <2>4 DEF Runs
<1>17. Bounded'
  <2>1. CASE e.end \in Answers
    <3>1. submitted' = submitted /\ Len(submitted) \in Nat
      BY <1>4, <2>1, Queues DEF Answers
    <3>2. Len(submitted) + Len(ended) <= TRANSFER_COUNT + 1
      BY <1>7, <2>1 DEF IInv, Bounded
    <3>3. Len(submitted') + Len(ended') <= TRANSFER_COUNT
      BY <1>2, <3>1, <3>2, StreamingAssumption
    <3> QED
      BY <1>7, <2>1, <3>3, StreamingAssumption DEF Bounded, Answers
  <2>2. CASE e.end \notin Answers
    <3> DEFINE room == TRANSFER_COUNT + IF answer = "awaited" /\ request = "none" THEN 1 ELSE 0
    <3>1. Len(submitted) + Len(ended) <= room /\ room \in Nat
      BY StreamingAssumption DEF IInv, Bounded
    <3>2. room' = room
      BY <1>1, <1>8, <2>2
    <3> HIDE DEF room
    <3>3. Len(submitted') + Len(ended') <= room
      BY <1>2, <1>9, <3>1, Queues
    <3> QED
      BY <3>2, <3>3 DEF Bounded, room
  <2> QED
    BY <2>1, <2>2
<1> QED
  BY <1>11, <1>12, <1>13, <1>14, <1>15, <1>16, <1>17 DEF IInv-----------------------------------------------------------------------------
(* The transfer thread alone, and the end of the program *)

\* A thread that is there stays, and goes on unless it was told to stop.
LEMMA ThreadHolds ==
  ASSUME IInv,
         UNCHANGED <<transceiver_mode, opened, flags, todo, next, usb, reply, failed>>,
         thread' \in {"none", "check", "events", "ended"}, thread' = "none" <=> thread = "none",
         thread' = "ended" => thread = "ended" \/ ~streaming \/ do_exit
  PROVE  IInv'
<1>1. UNCHANGED <<transceiver_mode, opened, transfer_thread_started, streaming, do_exit, todo, next,
                  request, answer, submitted, ended, reply, failed>>
  BY DEF flags, usb
<1>2. /\ InFlight' = InFlight /\ Controls' = Controls
      /\ \A end : Reported(end)' <=> Reported(end)
  BY <1>1, Kept
<1>3. Types'
  <2>1. {transfer_thread_started', streaming', do_exit', failed'} \subseteq BOOLEAN
    BY <1>1 DEF IInv, Types, TypeOK
  <2>2. TypeOK'
    BY <1>1, <2>1 DEF IInv, Types, TypeOK, Elements
  <2> QED
    BY <1>1, <1>2, <2>2 DEF IInv, Types
<1>4. Talk' /\ Told' /\ Bounded'
  BY <1>1, <1>2 DEF IInv, Talk, Told, Bounded, At
<1>5. Between' /\ Begins'
  BY <1>1, <1>2 DEF IInv, Between, Begins, At
<1>6. Runs'
  <2>1. ~failed /\ todo \notin ToJoin => thread' # "ended" \/ thread' = "none"
    BY DEF IInv, Runs
  <2>2. ASSUME thread' # "none"
        PROVE  /\ ~Reported("cancelled")'
               /\ todo' \in Free \/ (todo' \in ToStop /\ (request' # "none" \/ answer' = "none")) =>
                    transceiver_mode' = "BTLE"
               /\ ~failed' => streaming' /\ InFlight' = Transfers
               /\ ~failed' /\ todo' \notin ToJoin => ~do_exit' /\ thread' # "ended"
    <3>1. /\ ~Reported("cancelled")
          /\ todo \in Free \/ (todo \in ToStop /\ (request # "none" \/ answer = "none")) =>
               transceiver_mode = "BTLE"
          /\ ~failed => streaming /\ InFlight = Transfers
          /\ ~failed /\ todo \notin ToJoin => ~do_exit /\ thread # "ended"
      BY <2>2 DEF IInv, Runs
    <3> QED
      BY <1>1, <1>2, <2>1, <2>2, <3>1
  <2>3. /\ todo' \in ToStop \cup ToExit \cup ToJoin => thread' # "none"
        /\ todo' \in ToCancel \cup ToClose \cup {ToStart} => thread' = "none"
    BY <1>1 DEF IInv, Runs
  <2> QED
    BY <2>2, <2>3 DEF Runs
<1> QED
  BY <1>3, <1>4, <1>5, <1>6 DEF IInv

\* A thread whose event handling fails leaves everything in flight where it is.
LEMMA EventsFailHolds ==
  ASSUME IInv, EventsFail
  PROVE  IInv'
<1>1. /\ UNCHANGED <<transceiver_mode, opened, transfer_thread_started, do_exit, todo, next,
                     request, answer, submitted, ended, reply>>
      /\ thread = "events" /\ thread' = "check" /\ streaming' = FALSE /\ failed' = TRUE
  BY DEF EventsFail, usb
<1>2. /\ InFlight' = InFlight /\ Controls' = Controls
      /\ \A end : Reported(end)' <=> Reported(end)
  BY <1>1, Kept
<1>3. Types'
  <2>1. {transfer_thread_started', streaming', do_exit', failed'} \subseteq BOOLEAN
    BY <1>1 DEF IInv, Types, TypeOK
  <2>2. TypeOK'
    BY <1>1, <2>1 DEF IInv, Types, TypeOK, Elements
  <2> QED
    BY <1>1, <1>2, <2>2 DEF IInv, Types
<1>4. Talk' /\ Told' /\ Bounded'
  BY <1>1, <1>2 DEF IInv, Talk, Told, Bounded, At
<1>5. todo \notin {ToPrepare, ToLaunch}
  BY <1>1 DEF IInv, Begins, Starting
<1>6. Between' /\ Begins'
  BY <1>1, <1>2, <1>5 DEF IInv, Between, Begins, At
<1>7. Runs'
  BY <1>1, <1>2 DEF IInv, Runs
<1> QED
  BY <1>3, <1>4, <1>6, <1>7 DEF IInv

LEMMA KillHolds ==
  ASSUME IInv, Kill
  PROVE  IInv'
<1>1. /\ opened' = FALSE /\ transfer_thread_started' = FALSE /\ streaming' = FALSE
      /\ do_exit' = FALSE /\ failed' = FALSE
      /\ thread' = "none" /\ todo' = <<>> /\ next' = 0 /\ request' = "none" /\ answer' = "none"
      /\ submitted' = <<>> /\ ended' = <<>> /\ reply' = "success"
      /\ transceiver_mode' = transceiver_mode
  BY DEF Kill
<1>2. Controls' = {} /\ \A end : ~Reported(end)'
  BY <1>1 DEF Controls, Reported
<1>3. Types'
  <2>1. /\ {transfer_thread_started', streaming', do_exit', failed'} \subseteq BOOLEAN
        /\ opened' \in BOOLEAN
    BY <1>1
  <2>2. /\ submitted' \in Seq(Transfers) /\ ended' \in Seq(Report) /\ Elements(ended') = {}
        /\ Elements(submitted') = {} /\ Len(submitted') + Len(ended') = 0
    BY <1>1 DEF Elements
  <2>3. next' \in Transfers /\ reply' \in Replies /\ TRANSFER_COUNT \in Nat
    BY <1>1, StreamingAssumption DEF Transfers, Replies
  <2>4. TypeOK'
    <3>1. /\ thread' \in {"none", "check", "events", "ended"}
          /\ request' \in {"none"} \cup Requests /\ answer' \in {"none", "awaited"} \cup Answers
          /\ transceiver_mode' \in {"OFF", "BTLE"}
      BY <1>1 DEF IInv, Types, TypeOK
    <3> QED
      BY <2>1, <2>2, <2>3, <3>1 DEF TypeOK
  <2>5. InFlight' = {}
    BY <2>2 DEF InFlight
  <2> QED
    BY <1>1, <2>2, <2>4, <2>5 DEF Types, Rests, Free
<1>4. Talk' /\ Told' /\ Bounded'
  BY <1>1, <1>2, Kinds, StreamingAssumption DEF Talk, Told, Bounded, At, Free, Starting, Stopping
<1>5. Between' /\ Begins' /\ Runs'
  BY <1>1, <1>2, Kinds DEF Between, Begins, Runs, Starting, Stopping, Free, At, Answers
<1> QED
  BY <1>3, <1>4, <1>5 DEF IInv

LEMMA StepHolds ==
  ASSUME IInv, [Next]_vars
  PROVE  IInv'
<1>1. CASE Calls
  BY <1>1, CallsHold
<1>2. CASE Steps
  BY <1>2, AskHolds, AnsweredHolds, ResetFlagsHolds, PrepareHolds, LaunchHolds,
     RequestExitHolds, JoinHolds, CancelHolds, CloseHolds DEF Steps
<1>3. CASE Serve \/ Send
  BY <1>3, ServeHolds, SendHolds
<1>4. CASE MainEvent \/ ThreadEvent
  BY <1>4, EventHolds DEF MainEvent, ThreadEvent, Waiting
<1>5. CASE Timeout
  <2>1. /\ UNCHANGED <<transceiver_mode, opened, flags, todo, next, usb, reply, failed>>
        /\ thread = "events" /\ thread' = "check"
    BY <1>5 DEF Timeout
  <2> QED
    BY <2>1, ThreadHolds
<1>e. CASE EventsFail
  BY <1>e, EventsFailHolds
<1>6. CASE ThreadCheck
  <2>1. UNCHANGED <<transceiver_mode, opened, flags, todo, next, usb, reply, failed>>
    BY <1>6 DEF ThreadCheck
  <2>2. /\ thread = "check" /\ thread' \in {"events", "ended"}
        /\ thread' = "ended" => ~streaming \/ do_exit
    BY <1>6 DEF ThreadCheck
  <2> QED
    BY <2>1, <2>2, ThreadHolds
<1>7. CASE Kill
  BY <1>7, KillHolds
<1>8. CASE UNCHANGED vars
  <2>1. UNCHANGED <<transceiver_mode, opened, flags, thread, todo, next, usb, reply, failed>>
    BY <1>8 DEF vars
  <2>2. thread' \in {"none", "check", "events", "ended"}
    BY <2>1 DEF IInv, Types, TypeOK
  <2> QED
    BY <2>1, <2>2, ThreadHolds
<1> QED
  BY <1>1, <1>2, <1>3, <1>4, <1>5, <1>e, <1>6, <1>7, <1>8 DEF Next, Calls
-----------------------------------------------------------------------------
(* The theorems *)

THEOREM Invariance == Spec => []IInv
<1>1. IInv /\ [Next]_vars => IInv'
  BY StepHolds
<1> QED
  BY InitHolds, <1>1, PTL DEF Spec

\* The library, the kernel's queues and the device keep their types; a transfer
\* is in one place at a time, and no more are out than there are.
THEOREM TypeCorrect == Spec => []TypeOK
<1>1. IInv => TypeOK
  BY DEF IInv, Types
<1> QED
  BY <1>1, Invariance, PTL

\* Whatever a session left behind, and whoever handled its last events, the next
\* one submits idle transfers, and close_board frees idle ones (hackrf.c:1497):
\* prepare_transfers is never refused a transfer that is still in flight.
THEOREM SubmitsIdle == Spec => []SubmittedIdle
<1>1. IInv => SubmittedIdle
  <2> SUFFICES ASSUME IInv PROVE SubmittedIdle
    OBVIOUS
  <2>1. ASSUME At("prepare")
        PROVE  next \notin InFlight
    <3>1. todo = ToPrepare
      BY <2>1, Which DEF IInv, Types, At
    <3>2. InFlight = 0 .. next - 1 /\ next \in Nat
      BY <3>1, StreamingAssumption DEF IInv, Begins, Types, TypeOK, Transfers
    <3> QED
      BY <3>2
  <2>2. ASSUME At("close")
        PROVE  InFlight = {}
    <3>1. todo \in ToClose
      BY <2>2, Which DEF IInv, Types, At
    <3>2. submitted = <<>> /\ ended = <<>>
      BY <2>2, <3>1 DEF IInv, Runs, Between
    <3> QED
      BY <3>2 DEF InFlight, Elements
  <2> QED
    BY <2>1, <2>2 DEF SubmittedIdle
<1> QED
  BY <1>1, Invariance, PTL

\* Between calls a session that was started runs, until a resubmission fails: the
\* exit flags that cancelled transfers of the session before have set do not
\* reach it (hackrf.c:1475).
THEOREM SessionsRun == Spec => []SessionRuns
<1>1. IInv => SessionRuns
  <2> SUFFICES ASSUME IInv, todo = <<>>, transfer_thread_started
               PROVE  /\ transceiver_mode = "BTLE"
                      /\ ~failed => ~do_exit /\ streaming /\ thread \in {"check", "events"}
                                    /\ InFlight = Transfers
    BY DEF SessionRuns
  <2>1. thread \in {"check", "events", "ended"} /\ todo \in Free
    BY DEF IInv, Types, TypeOK, Free
  <2>2. todo \notin ToJoin
    BY <2>1, Kinds
  <2>3. transceiver_mode = "BTLE"
    BY <2>1 DEF IInv, Runs
  <2>4. ~failed => ~do_exit /\ streaming /\ InFlight = Transfers /\ thread # "ended"
    BY <2>1, <2>2 DEF IInv, Runs
  <2> QED
    BY <2>1, <2>3, <2>4
<1> QED
  BY <1>1, Invariance, PTL
============================================================================
