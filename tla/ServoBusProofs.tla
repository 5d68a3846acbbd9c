----------------------------- MODULE ServoBusProofs -----------------------------
(***************************************************************************)
(* The servo and the encoder requests on the bus they share, for any       *)
(* settings and any times: the controller has a case for its state, unless *)
(* it has none for its mode, and a request for the encoders is out before  *)
(* timer 1 asks for the next.                                              *)
(*                                                                         *)
(* The second is a matter of time.  Left is the time until timer 1 asks    *)
(* again, Needed how long a request may still have to wait: as long as the *)
(* bus may stay blocked and the loop be on its way to the stage that sends *)
(* it.  Every tick takes one from both.  Only a servo packet makes Needed  *)
(* grow, and it sets timer 1 back with the same step: that is what the     *)
(* code sets it back for, and ServedInTime says by how much it has to.     *)
(***************************************************************************)
EXTENDS ServoBus, TLAPS

\* A servo packet that is never answered, and three passes of the loop, fit
\* between the restart of timer 1 and its end.
ServedInTime == EncRestart + BusTimeout + 3 <= EncPeriod

-----------------------------------------------------------------------------
(* The states of the controller.                                           *)

\* What the servo answers depends on what it was asked.
Alive == NoDeadState /\ servo1Buf \in Packets /\ request \in Packets

Kinds == {"nothing", "reading", "confirm", "bad"}

LEMMA AliveInit == Init => Alive
  BY DEF Init, Servo1Init, NoDeadState, Dead, Alive, Packets

LEMMA AnswerKinds ==
    ASSUME request \in Packets, NEW packetIn \in Answers \cup {Nothing}
    PROVE  packetIn.kind \in Kinds /\ (packetIn.kind = "nothing" <=> packetIn = Nothing)
<1>1. CASE packetIn = Nothing
  BY <1>1 DEF Nothing, Kinds
<1>2. CASE packetIn # Nothing
  <2>1. packetIn \in Answers
    BY <1>2
  <2>2. CASE request = Nothing
    BY <2>1, <2>2 DEF Answers, Nothing
  <2>3. CASE request.kind = "fb"
    BY <2>1, <2>3 DEF Answers, Nothing, Kinds
  <2>4. CASE request.kind = "angle"
    BY <2>1, <2>4 DEF Answers, Nothing, Kinds
  <2> QED
    BY <2>2, <2>3, <2>4 DEF Packets, FbReq, AngleCmd
<1> QED
  BY <1>1, <1>2

LEMMA AliveUpdate ==
    ASSUME NoDeadState, NEW out, NEW packetIn, packetIn.kind \in Kinds,
           packetIn.kind = "nothing" <=> packetIn = Nothing,
           Servo1Update(packetIn, out)
    PROVE  NoDeadState'
<1> USE DEF NoDeadState, Dead
<1>1. CASE IdleMode(out)
  BY <1>1 DEF IdleMode, Servo1UpdateConfig
<1>2. CASE Idle(out)
  BY <1>2 DEF Idle, SendOrConfigure, Servo1UpdateConfig, Request
<1>3. CASE Moving(out)
  BY <1>3 DEF Moving, SendOrConfigure, Servo1UpdateConfig, Request
<1>4. CASE SentAngleCmd(packetIn, out)
  <2>1. /\ config' = config /\ config.mode \in {"POINT", "SERVO"}
        /\ state = "SENT_ANGLE_CMD"
    BY <1>4 DEF SentAngleCmd, Receive
  <2>2. state' \in {"MOVING", "IDLE", "SENT_ANGLE_CMD"}
    <3>1. CASE packetIn.kind = "confirm"
      BY <1>4, <3>1 DEF SentAngleCmd, Receive, Nothing
    <3>2. CASE packetIn.kind \in {"reading", "bad"}
      BY <1>4, <3>2 DEF SentAngleCmd, Receive, Nothing
    <3>3. CASE packetIn = Nothing
      <4>1. state' = IF TimedOut(packetIn) THEN "IDLE" ELSE state
        BY <1>4, <3>3 DEF SentAngleCmd, Receive, Nothing
      <4> QED
        BY <2>1, <4>1
    <3> QED
      BY <3>1, <3>2, <3>3 DEF Kinds
  <2> QED
    BY <2>1, <2>2
<1>5. CASE Reading(packetIn, out)
  BY <1>5 DEF Reading, Receive
<1>6. CASE NoCase(out)
  BY <1>6 DEF NoCase, servoVars
<1> QED
  BY <1>1, <1>2, <1>3, <1>4, <1>5, <1>6 DEF Servo1Update

LEMMA AliveStep == ASSUME Alive, [Next]_vars PROVE Alive'
<1> USE DEF Alive
<1>1. Nothing \in Packets
  BY DEF Packets
<1>2. ASSUME NEW packetIn \in Answers \cup {Nothing}, Update(packetIn)
      PROVE  Alive'
  <2>1. PICK out \in Packets, estopRun \in BOOLEAN :
          /\ Servo1Update(packetIn, out)
          /\ servo1Buf' = IF out # Nothing /\ estopRun THEN out ELSE servo1Buf
    BY <1>2 DEF Update
  <2>2. NoDeadState'
    BY <2>1, AnswerKinds, AliveUpdate
  <2>3. request' \in Packets
    BY <1>1, <1>2 DEF Update
  <2> QED
    BY <2>1, <2>2, <2>3
<1>3. CASE ~(\E packetIn \in Answers \cup {Nothing} : Update(packetIn))
  <2>1. config' = config /\ state' = state
    BY <1>3
    DEF Next, MainLoop, SendServo, SendFbRequest, ClearFbRequest, NothingToSend, Tick,
        Servo1UpdateTime, BusReleased, ServoTurns, HostConfigures, SetConfig,
        servoVars, vars
  <2>2. servo1Buf' \in {servo1Buf, Nothing} /\ request' \in {request, servo1Buf, Nothing}
    BY <1>3
    DEF Next, MainLoop, SendServo, SendFbRequest, ClearFbRequest, NothingToSend, Tick,
        BusReleased, ServoTurns, HostConfigures, busVars, deviceVars, vars
  <2> QED
    BY <1>1, <2>1, <2>2 DEF NoDeadState, Dead
<1> QED
  BY <1>2, <1>3

\* Only a mode it does not know leaves the controller without a case, whatever
\* settings the host sends and in whatever order (Servo1Controller.c: the
\* switches of Servo1Update have one for every state the four modes can reach).
THEOREM NeverDead == Spec => []NoDeadState
<1>1. Alive => NoDeadState
  BY DEF Alive
<1> QED
  BY <1>1, AliveInit, AliveStep, PTL DEF Spec

-----------------------------------------------------------------------------
(* The encoder requests.                                                   *)

\* Ticks until timer 1 asks for the encoders.
Left == EncPeriod - 1 - tcnt1

\* Ticks left in the present pass.
OfPass == IF ticked THEN 0 ELSE 1

\* Ticks that may fall before a request is sent and its flag cleared, or timer
\* 1 is set back.
Needed ==
    IF pc = "clearFb" THEN OfPass
    ELSE IF rs485Blocked THEN BusTimeout - busAge + 2
    ELSE IF pc = "update" THEN OfPass + 1
    ELSE OfPass

BusTypes ==
    /\ pc \in {"update", "arbServo", "arbFb", "clearFb"}
    /\ ticked \in BOOLEAN /\ needToRequestFb \in BOOLEAN /\ rs485Blocked \in BOOLEAN
    /\ busAge \in 0 .. BusTimeout /\ tcnt1 \in 0 .. EncPeriod - 1

InTime == needToRequestFb => Needed <= Left

BusInv == BusTypes /\ InTime /\ (pc = "clearFb" => needToRequestFb)

LEMMA BusInit == Init => BusInv
<1> SUFFICES ASSUME Init PROVE BusInv
  OBVIOUS
<1>1. ticked \in BOOLEAN /\ needToRequestFb \in BOOLEAN /\ rs485Blocked \in BOOLEAN
  BY Zenon DEF Init
<1> QED
  BY <1>1, BusAssumption DEF Init, BusInv, BusTypes, InTime, BusAssumption

\* What grows no faster than the time left stays in time.
LEMMA Shorter ==
    ASSUME BusTypes, BusTypes', InTime, needToRequestFb' => needToRequestFb,
           Needed' - Needed <= Left' - Left
    PROVE  InTime'
<1>1. Needed \in Int /\ Needed' \in Int /\ Left \in Int /\ Left' \in Int
  BY BusAssumption DEF BusAssumption, BusTypes, Needed, Left, OfPass
<1> SUFFICES ASSUME needToRequestFb'
             PROVE  Needed' <= Left'
  BY DEF InTime
<1>2. Needed <= Left
  BY DEF InTime
<1>3. PICK n \in Int, m \in Int, k \in Int, l \in Int :
        n = Needed /\ m = Needed' /\ k = Left /\ l = Left'
  BY <1>1
<1>4. m - n <= l - k /\ n <= k
  BY <1>2, <1>3
<1>5. m <= l
  BY <1>4
<1> QED
  BY <1>3, <1>5

LEMMA BusStep == ASSUME ServedInTime, BusInv, [Next]_vars PROVE BusInv'
<1> USE DEF BusInv
<1>1. BusTimeout \in Nat /\ EncPeriod \in Nat /\ EncRestart \in 0 .. EncPeriod - 1
  BY BusAssumption DEF BusAssumption
<1>2. EncRestart + BusTimeout + 3 <= EncPeriod
  BY DEF ServedInTime
<1>3. /\ pc \in {"update", "arbServo", "arbFb", "clearFb"}
      /\ busAge \in 0 .. BusTimeout /\ tcnt1 \in 0 .. EncPeriod - 1
  BY DEF BusTypes
<1>4. OfPass \in 0 .. 1
  BY DEF OfPass
<1>5. ASSUME NEW answer \in Answers \cup {Nothing}, Update(answer)
      PROVE  BusInv'
  <2>1. /\ pc = "update" /\ pc' = "arbServo" /\ ticked' = FALSE
        /\ needToRequestFb' = needToRequestFb /\ tcnt1' = tcnt1
    BY <1>5 DEF Update
  <2>2. \/ rs485Blocked' = rs485Blocked /\ busAge' = busAge
        \/ rs485Blocked' = FALSE /\ busAge' = 0
    BY <1>5 DEF Update
  <2>3. rs485Blocked' \in BOOLEAN /\ ticked' \in BOOLEAN
    BY <2>1, <2>2, Zenon DEF BusTypes
  <2>4. BusTypes'
    BY <1>1, <2>1, <2>2, <2>3 DEF BusTypes
  <2>5. Needed' - Needed <= Left' - Left
    BY <1>1, <1>3, <1>4, <2>1, <2>2 DEF Needed, OfPass, Left
  <2> QED
    BY <2>1, <2>4, <2>5, Shorter
<1>6. CASE SendServo
  <2>1. /\ pc' = "arbFb" /\ ticked' = ticked /\ needToRequestFb' = needToRequestFb
        /\ rs485Blocked' = TRUE /\ busAge' = 0 /\ tcnt1' = EncRestart
    BY <1>6 DEF SendServo, SetBusBlocked, RestartTimer1
  <2>2. rs485Blocked' \in BOOLEAN
    BY <2>1, Zenon
  <2>3. BusTypes'
    BY <1>1, <2>1, <2>2 DEF BusTypes
  <2>4. Needed' <= Left'
    BY <1>1, <1>2, <2>1 DEF Needed, Left
  <2> QED
    BY <2>1, <2>3, <2>4 DEF InTime
<1>7. CASE SendFbRequest
  <2>1. /\ pc = "arbFb" /\ ~rs485Blocked /\ needToRequestFb
        /\ pc' = "clearFb" /\ ticked' = ticked /\ needToRequestFb' = needToRequestFb
        /\ rs485Blocked' = TRUE /\ busAge' = 0 /\ tcnt1' = tcnt1
    BY <1>7 DEF SendFbRequest, SetBusBlocked
  <2>2. rs485Blocked' \in BOOLEAN
    BY <2>1, Zenon
  <2>3. BusTypes'
    BY <1>1, <2>1, <2>2 DEF BusTypes
  <2>4. Needed' - Needed <= Left' - Left
    BY <1>1, <1>3, <1>4, <2>1 DEF Needed, OfPass, Left
  <2> QED
    BY <2>1, <2>3, <2>4, Shorter
<1>8. CASE ClearFbRequest
  <2>1. /\ pc' = "update" /\ ticked' = ticked /\ needToRequestFb' = FALSE
        /\ rs485Blocked' = rs485Blocked /\ busAge' = busAge /\ tcnt1' = tcnt1
    BY <1>8 DEF ClearFbRequest
  <2>2. needToRequestFb' \in BOOLEAN
    BY <2>1, Zenon
  <2>3. BusTypes'
    BY <2>1, <2>2 DEF BusTypes
  <2> QED
    BY <2>1, <2>3 DEF InTime
<1>9. CASE NothingToSend
  <2>1. /\ ticked' = ticked /\ needToRequestFb' = needToRequestFb
        /\ rs485Blocked' = rs485Blocked /\ busAge' = busAge /\ tcnt1' = tcnt1
        /\ \/ pc = "arbServo" /\ pc' = "arbFb"
           \/ pc = "arbFb" /\ (~needToRequestFb \/ rs485Blocked) /\ pc' = "update"
    BY <1>9 DEF NothingToSend, busVars
  <2>2. BusTypes'
    BY <2>1 DEF BusTypes
  <2>3. CASE needToRequestFb
    <3>1. Needed' - Needed <= Left' - Left
      BY <1>1, <1>3, <1>4, <2>1, <2>3 DEF Needed, OfPass, Left
    <3> QED
      BY <2>1, <2>2, <3>1, Shorter
  <2>4. CASE ~needToRequestFb
    BY <2>1, <2>2, <2>4 DEF InTime
  <2> QED
    BY <2>3, <2>4
<1>10. CASE Tick
  <2>1. /\ ~ticked /\ ~(rs485Blocked /\ busAge = BusTimeout)
        /\ ticked' = TRUE /\ pc' = pc /\ rs485Blocked' = rs485Blocked
        /\ busAge' = IF rs485Blocked THEN busAge + 1 ELSE 0
        /\ tcnt1' = IF EncodersRequest THEN 0 ELSE tcnt1 + 1
    BY <1>10 DEF Tick
  <2>2. needToRequestFb' = (needToRequestFb \/ EncodersRequest)
    BY <1>10 DEF Tick
  <2>3. ticked' \in BOOLEAN /\ needToRequestFb' \in BOOLEAN
    BY <2>1, <2>2, Zenon
  <2>4. BusTypes'
    BY <1>1, <1>3, <2>1, <2>3 DEF BusTypes, EncodersRequest
  <2>5. pc' = "clearFb" => needToRequestFb'
    BY <2>1, <2>2, Zenon
  <2>6. CASE EncodersRequest
    <3>1. Needed' <= BusTimeout + 2 /\ Left' = EncPeriod - 1
      BY <1>1, <1>3, <2>1, <2>6 DEF Needed, OfPass, Left
    <3>2. Needed' \in Int
      BY <1>1, <2>4 DEF BusTypes, Needed, OfPass
    <3> QED
      BY <1>1, <1>2, <2>4, <2>5, <3>1, <3>2 DEF InTime
  <2>7. CASE ~EncodersRequest
    <3>1. needToRequestFb' => needToRequestFb
      BY <2>2, <2>7, Zenon
    <3>2. Needed' - Needed <= Left' - Left
      BY <1>1, <1>3, <2>1, <2>7 DEF Needed, OfPass, Left
    <3> QED
      BY <2>4, <2>5, <3>1, <3>2, Shorter
  <2> QED
    BY <2>6, <2>7
<1>11. CASE BusReleased
  <2>1. /\ rs485Blocked /\ rs485Blocked' = FALSE /\ busAge' = 0
        /\ pc' = pc /\ ticked' = ticked /\ needToRequestFb' = needToRequestFb
        /\ tcnt1' = tcnt1
    BY <1>11 DEF BusReleased, loopVars
  <2>2. rs485Blocked' \in BOOLEAN
    BY <2>1, Zenon
  <2>3. BusTypes'
    BY <1>1, <2>1, <2>2 DEF BusTypes
  <2>4. Needed' - Needed <= Left' - Left
    BY <1>1, <1>3, <2>1 DEF Needed, OfPass, Left
  <2> QED
    BY <2>1, <2>3, <2>4, Shorter
<1>12. CASE ServoTurns \/ (\E c \in Configs : HostConfigures(c)) \/ UNCHANGED vars
  <2>1. /\ pc' = pc /\ ticked' = ticked /\ needToRequestFb' = needToRequestFb
        /\ rs485Blocked' = rs485Blocked /\ busAge' = busAge /\ tcnt1' = tcnt1
    BY <1>12 DEF ServoTurns, HostConfigures, loopVars, busVars, vars
  <2> QED
    BY <2>1 DEF BusTypes, InTime, Needed, OfPass, Left
<1> QED
  BY <1>5, <1>6, <1>7, <1>8, <1>9, <1>10, <1>11, <1>12 DEF Next, MainLoop

\* A blocked bus and a servo that is served first never delay a request for the
\* encoders so long that the next one meets it (main.c:672-697, 813-830).
THEOREM RequestsDoNotMeet ==
    ASSUME ServedInTime
    PROVE  Spec => EveryRequestServed
<1>1. BusInv /\ [Next]_vars => BusInv'
  BY BusStep
<1>2. BusInv => (Tick /\ EncodersRequest => ~needToRequestFb /\ pc # "clearFb")
  <2> SUFFICES ASSUME BusInv, Tick, EncodersRequest, needToRequestFb
               PROVE  FALSE
    BY DEF BusInv
  <2>1. Left = 0
    BY BusAssumption DEF EncodersRequest, Left, BusInv, BusTypes, BusAssumption
  <2>2. Needed <= 0
    BY <2>1 DEF BusInv, InTime
  <2>3. ~ticked /\ ~(rs485Blocked /\ busAge = BusTimeout)
    BY DEF Tick
  <2> QED
    BY <2>2, <2>3, BusAssumption DEF Needed, OfPass, BusInv, BusTypes, BusAssumption
<1> QED
  BY <1>1, <1>2, BusInit, PTL DEF Spec, EveryRequestServed

=============================================================================
