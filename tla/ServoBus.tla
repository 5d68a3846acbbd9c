------------------------------ MODULE ServoBus ------------------------------
(***************************************************************************)
(* The servo controller and the encoder requests of timer 1 share the      *)
(* RS-485 bus: drivers/Atmel/MainController/main.c:672-697 and 813-830.    *)
(* The loop asks the servo controller for a packet, keeps it while the     *)
(* vehicle may run, sends it when the bus is free and sets timer 1 back to *)
(* half of its period, and then sends the encoder request.                 *)
(*                                                                         *)
(* Time is discrete; a pass of the loop takes at most one tick, which may  *)
(* fall between any two of its steps.  A request blocks the bus until any  *)
(* answer comes or until BusTimeout.  The answers of the motor controller  *)
(* are of no other interest here, and the timeout itself may come early    *)
(* (the compare flag of timer 4 may be left from an earlier match, see     *)
(* MainController): BusReleased stands for both, and comes at any time.    *)
(***************************************************************************)
EXTENDS Servo1Controller

CONSTANTS
    BusTimeout,  \* of timer 4, 5 ms
    EncPeriod,   \* of timer 1, 25 ms: OCR1A
    EncRestart   \* TCNT1 after a servo packet, 12.5 ms

ASSUME BusAssumption ==
    /\ BusTimeout \in Nat /\ EncPeriod \in Nat
    /\ EncRestart \in 0 .. EncPeriod - 1

VARIABLES
    pc,               \* the stage of the main loop about to run
    ticked,           \* a tick has fallen into the loop's present pass
    servo1Buf,        \* servo1PacketOutBuf, Nothing if not needToSendServo1Packet
    needToRequestFb,
    rs485Blocked, busAge,
    tcnt1,            \* TCNT1
    request,          \* the packet the servo has still to answer, or Nothing
    target, angle     \* of the servo

loopVars   == <<pc, ticked>>
busVars    == <<servo1Buf, needToRequestFb, rs485Blocked, busAge, tcnt1>>
deviceVars == <<request, target, angle>>
vars == <<servoVars, loopVars, busVars, deviceVars>>

Init ==
    /\ Servo1Init
    /\ pc = "update" /\ ticked = FALSE
    /\ servo1Buf = Nothing
    /\ needToRequestFb = FALSE
    /\ rs485Blocked = FALSE /\ busAge = 0
    /\ tcnt1 = 0
    /\ request = Nothing /\ target = 0 /\ angle = 0

HostConfigures(c) ==
    /\ pc = "update"
    /\ SetConfig(c)
    /\ UNCHANGED <<loopVars, busVars, deviceVars>>

\* What the servo answers to the last request it received: the reading of its
\* angle, the confirmation of a command, or an error.
Answers ==
    CASE request = Nothing     -> {}
      [] request.kind = "fb"   -> {[kind |-> "reading", angle |-> angle], [kind |-> "bad"]}
      [] request.kind = "angle" -> {[kind |-> "confirm"], [kind |-> "bad"]}

\* The bus stage with the servo's answer, or none, and Servo1Update; the packet
\* is kept only while the vehicle may run.
Update(answer) ==
    /\ pc = "update"
    /\ IF answer = Nothing
       THEN UNCHANGED <<rs485Blocked, busAge, request>>
       ELSE rs485Blocked' = FALSE /\ busAge' = 0 /\ request' = Nothing
    /\ \E out \in Packets, estopRun \in BOOLEAN :
         /\ Servo1Update(answer, out)
         /\ servo1Buf' = IF out # Nothing /\ estopRun THEN out ELSE servo1Buf
    /\ pc' = "arbServo"
    /\ ticked' = FALSE
    /\ UNCHANGED <<needToRequestFb, tcnt1, target, angle>>

SetBusBlocked == rs485Blocked' = TRUE /\ busAge' = 0

\* A slip: timer 1 is set to the end of its period and not to half of it.
RestartTimer1AtEnd == tcnt1' = EncPeriod - 1

RestartTimer1 == tcnt1' = EncRestart

\* The packet reaches the servo or gets lost.
SendServo ==
    /\ pc = "arbServo" /\ servo1Buf # Nothing /\ ~rs485Blocked
    /\ SetBusBlocked
    /\ RestartTimer1
    /\ servo1Buf' = Nothing
    /\ \/ /\ request' = servo1Buf
          /\ target' = IF servo1Buf.kind = "angle" THEN servo1Buf.angle ELSE target
       \/ UNCHANGED <<request, target>>
    /\ pc' = "arbFb"
    /\ UNCHANGED <<servoVars, ticked, needToRequestFb, angle>>

SendFbRequest ==
    /\ pc = "arbFb" /\ needToRequestFb /\ ~rs485Blocked
    /\ SetBusBlocked
    /\ pc' = "clearFb"
    /\ UNCHANGED <<servoVars, ticked, servo1Buf, needToRequestFb, tcnt1, deviceVars>>

ClearFbRequest ==
    /\ pc = "clearFb"
    /\ needToRequestFb' = FALSE
    /\ pc' = "update"
    /\ UNCHANGED <<servoVars, ticked, servo1Buf, rs485Blocked, busAge, tcnt1, deviceVars>>

NothingToSend ==
    /\ \/ pc = "arbServo" /\ (servo1Buf = Nothing \/ rs485Blocked) /\ pc' = "arbFb"
       \/ pc = "arbFb" /\ (~needToRequestFb \/ rs485Blocked) /\ pc' = "update"
    /\ UNCHANGED <<servoVars, ticked, busVars, deviceVars>>

\* Timer 1 reaches OCR1A: EncodersRequestFcn.
EncodersRequest == tcnt1 + 1 = EncPeriod

\* The servo answers before the controller's next request, or never.
Tick ==
    /\ ~ticked
    /\ ~(rs485Blocked /\ busAge = BusTimeout)
    /\ ticked' = TRUE
    /\ Servo1UpdateTime
    /\ busAge' = IF rs485Blocked THEN busAge + 1 ELSE 0
    /\ needToRequestFb' = (needToRequestFb \/ EncodersRequest)
    /\ tcnt1' = IF EncodersRequest THEN 0 ELSE tcnt1 + 1
    /\ request' = IF reqAge' = NextReq THEN Nothing ELSE request
    /\ UNCHANGED <<pc, servo1Buf, rs485Blocked, target, angle>>

BusReleased ==
    /\ rs485Blocked
    /\ rs485Blocked' = FALSE /\ busAge' = 0
    /\ UNCHANGED <<servoVars, loopVars, servo1Buf, needToRequestFb, tcnt1, deviceVars>>

ServoTurns ==
    /\ angle # target
    /\ angle' = IF angle < target THEN angle + 1 ELSE angle - 1
    /\ UNCHANGED <<servoVars, loopVars, busVars, request, target>>

MainLoop == \/ \E answer \in Answers \cup {Nothing} : Update(answer)
            \/ SendServo \/ SendFbRequest \/ ClearFbRequest \/ NothingToSend
Next == \/ MainLoop \/ Tick \/ BusReleased \/ ServoTurns
        \/ \E c \in Configs : HostConfigures(c)
Spec == Init /\ [][Next]_vars

\* The loop and time go on, a timeout is taken, and the servo moves.
Fairness == /\ WF_vars(MainLoop) /\ WF_vars(Tick)
            /\ WF_vars(BusReleased) /\ WF_vars(ServoTurns)
FairSpec == Spec /\ Fairness

-----------------------------------------------------------------------------
(* Properties.                                                             *)

\* When timer 1 asks for the encoders, its last request has been sent and its
\* flag cleared: neither the servo, which is served first, nor a blocked bus
\* delays a request so long that two merge or one is cleared unsent.
EveryRequestServed ==
    [][Tick /\ EncodersRequest => ~needToRequestFb /\ pc # "clearFb"]_vars

\* The servo sets timer 1 back with every packet, and yet never so often that
\* the requests for the encoders stop.
RequestsKeepComing == []<><<Tick /\ EncodersRequest>>_vars

\* The controller is never in a state for which its mode has no case and in
\* which it would neither send nor take over settings any more, whatever the
\* settings change from and to while it waits for an answer; except that a mode
\* it does not know has no case at all (main.c:369 passes on any byte).
NoDeadState == Dead => config.mode = "unknown"

\* New settings are taken over, whatever the servo answers or fails to answer,
\* unless a mode that the controller does not know has been taken over before
\* them: Servo1Update then never looks at settings again.
ConfigApplied == staged # Nothing ~> staged = Nothing \/ config.mode = "unknown"

\* The laser scanner keeps panning between two ends within its range as long
\* as the controller gets readings of its angle, in spite of lost and late
\* packets, of freezes and of the encoder requests in between.
Sweeping ==
    /\ config.mode = "SERVO" /\ staged = Nothing
    /\ {config.min, config.max} \subseteq Angles /\ config.min < config.max
ReadingUsed ==
    \E answer \in Answers :
        answer.kind = "reading" /\ state = "MOVING_FB_REQUESTED" /\ Update(answer)
SweepGoesOn ==
    (<>[]Sweeping /\ []<><<ReadingUsed>>_vars) => ([]<>(dir = 1) /\ []<>(dir = -1))

=============================================================================
