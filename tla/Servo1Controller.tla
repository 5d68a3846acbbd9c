-------------------------- MODULE Servo1Controller --------------------------
(***************************************************************************)
(* The controller of the servo that pans the laser scanner:                *)
(* drivers/Atmel/MainController/Servo1Controller.c.  Each pass of the main *)
(* loop calls Servo1Update with the answer of the servo, if one has just   *)
(* come in, and gets back at most one packet for the bus.  ReqTimeout and  *)
(* NextReqTime are both set relative to ReqTime: reqAge is the time since  *)
(* ReqTime, and saturates at the longer of the two.                        *)
(***************************************************************************)
EXTENDS Integers

CONSTANTS
    ReqTimeout,  \* SERVO1_REQ_TIMEOUT_DELTA, 4 ms
    NextReq,     \* SERVO1_NEXT_REQ_DELTA, 24 ms
    MaxAngle,    \* the servo turns from 0 to MaxAngle
    ReversePt,   \* SERVO1_DEF_REVERSE_POINT
    Configs      \* the settings the host may send: [mode, min, max]

\* The host's byte for the mode is not checked: any other number is "unknown".
ServoModes  == {"IDLE", "FB_ONLY", "POINT", "SERVO", "unknown"}
ServoStates == {"IDLE", "FB_REQUESTED", "SENT_ANGLE_CMD", "MOVING",
                "MOVING_FB_REQUESTED"}
Angles      == 0 .. MaxAngle

ASSUME ServoAssumption ==
    /\ ReqTimeout \in Nat /\ NextReq \in Nat /\ ReqTimeout < NextReq
    /\ MaxAngle \in Nat /\ ReversePt \in Nat
    /\ Configs \subseteq [mode : ServoModes, min : Int, max : Int]

VARIABLES
    config,    \* _servo1Mode, _servo1MinAngleF, _servo1MaxAngleF
    staged,    \* the _servo1Temp* settings, or Nothing if not ConfigChanged
    state,     \* _servo1State
    dir,       \* _servo1Dir
    desAngle,  \* _servo1DesAngleF
    reqAge     \* _servo1Time - _servo1ReqTime

servoVars == <<config, staged, state, dir, desAngle, reqAge>>

Nothing == [kind |-> "nothing"]

Servo1Init ==
    /\ config = [mode |-> "IDLE", min |-> 0, max |-> MaxAngle]
    /\ staged = Nothing
    /\ state = "IDLE"
    /\ dir = 1
    /\ desAngle = 0
    /\ reqAge = NextReq

\* The packets the controller sends.  An angle out of range becomes the
\* middle of the range in the packet (Servo1FillAnglePacket), and only there.
FbReq       == [kind |-> "fb"]
AngleCmd(a) == [kind |-> "angle", angle |-> IF a \in Angles THEN a ELSE MaxAngle \div 2]
Packets     == {Nothing, FbReq} \cup {AngleCmd(a) : a \in Angles}

\* A slip: the state is left alone, so that the new mode may not have a case for it.
UpdateConfigOnly == config' = staged /\ staged' = Nothing /\ UNCHANGED state

Servo1UpdateConfig == config' = staged /\ staged' = Nothing /\ state' = "IDLE"

\* A slip: a request does not set back the time of the next one.
RequestAgain(packet, next, out) ==
    /\ out = packet /\ state' = next /\ UNCHANGED reqAge

Request(packet, next, out) ==
    /\ out = packet /\ state' = next /\ reqAge' = 0

\* When the controller may send again it first takes over new settings.
SendOrConfigure(packet, next, out) ==
    IF reqAge < NextReq
    THEN UNCHANGED <<config, staged, state, reqAge>> /\ out = Nothing
    ELSE IF staged # Nothing
    THEN Servo1UpdateConfig /\ UNCHANGED reqAge /\ out = Nothing
    ELSE Request(packet, next, out) /\ UNCHANGED <<config, staged>>

Receive(next, out) ==
    /\ state' = next /\ out = Nothing
    /\ UNCHANGED <<config, staged, reqAge>>

\* A slip: the timeout is looked at only when there is an answer.
TimedOutAnswered(packetIn) == packetIn # Nothing /\ reqAge > ReqTimeout

TimedOut(packetIn) == packetIn = Nothing /\ reqAge > ReqTimeout

IdleMode(out) ==
    /\ config.mode = "IDLE"
    /\ IF staged # Nothing THEN Servo1UpdateConfig
       ELSE UNCHANGED <<config, staged, state>>
    /\ out = Nothing
    /\ UNCHANGED <<dir, desAngle, reqAge>>

\* The desired angle changes when a command is sent, in the state IDLE.
Idle(out) ==
    /\ config.mode \in {"FB_ONLY", "POINT", "SERVO"} /\ state = "IDLE"
    /\ LET goal == IF config.mode = "SERVO" /\ dir > 0 THEN config.max ELSE config.min
       IN IF config.mode = "FB_ONLY"
          THEN /\ SendOrConfigure(FbReq, "FB_REQUESTED", out)
               /\ UNCHANGED desAngle
          ELSE /\ SendOrConfigure(AngleCmd(goal), "SENT_ANGLE_CMD", out)
               /\ desAngle' = IF state' = "SENT_ANGLE_CMD" THEN goal ELSE desAngle
    /\ UNCHANGED dir

Moving(out) ==
    /\ config.mode \in {"POINT", "SERVO"} /\ state = "MOVING"
    /\ SendOrConfigure(FbReq, "MOVING_FB_REQUESTED", out)
    /\ UNCHANGED <<dir, desAngle>>

SentAngleCmd(packetIn, out) ==
    /\ config.mode \in {"POINT", "SERVO"} /\ state = "SENT_ANGLE_CMD"
    /\ Receive(CASE packetIn.kind = "confirm" -> "MOVING"
                 [] packetIn.kind \in {"reading", "bad"} -> "IDLE"
                 [] packetIn = Nothing -> IF TimedOut(packetIn) THEN "IDLE" ELSE state,
               out)
    /\ UNCHANGED <<dir, desAngle>>

\* A slip: the end of the sweep is passed by the reverse point, not before it.
AtEndBeyond(angle) ==
    \/ dir > 0 /\ angle > desAngle + ReversePt
    \/ dir < 0 /\ angle < desAngle - ReversePt

\* The sweep turns round shortly before the servo reaches its end.
AtEnd(angle) ==
    \/ dir > 0 /\ angle > desAngle - ReversePt
    \/ dir < 0 /\ angle < desAngle + ReversePt

Reading(packetIn, out) ==
    /\ \/ config.mode = "FB_ONLY" /\ state = "FB_REQUESTED"
       \/ config.mode \in {"POINT", "SERVO"} /\ state = "MOVING_FB_REQUESTED"
    /\ LET turns == /\ packetIn.kind = "reading" /\ config.mode = "SERVO"
                    /\ AtEnd(packetIn.angle)
       IN /\ Receive(IF TimedOut(packetIn) \/ turns THEN "IDLE"
                     ELSE IF packetIn.kind # "reading" THEN state
                     ELSE IF config.mode = "FB_ONLY" THEN "IDLE" ELSE "MOVING",
                     out)
          /\ dir' = IF turns THEN -dir ELSE dir
    /\ UNCHANGED desAngle

\* A mode or a state for which Servo1Update has no case is left alone.
Dead ==
    \/ config.mode = "unknown"
    \/ config.mode = "FB_ONLY" /\ state \notin {"IDLE", "FB_REQUESTED"}
    \/ config.mode \in {"POINT", "SERVO"} /\ state = "FB_REQUESTED"

NoCase(out) ==
    /\ Dead
    /\ out = Nothing
    /\ UNCHANGED servoVars

\* One call of Servo1Update that returns the packet out, or Nothing.
Servo1Update(packetIn, out) ==
    \/ IdleMode(out) \/ Idle(out) \/ Moving(out)
    \/ SentAngleCmd(packetIn, out) \/ Reading(packetIn, out) \/ NoCase(out)

\* Servo1SetMinAngle, Servo1SetMaxAngle, Servo1SetSpeed and Servo1SetMode, as
\* HostPacketHandler calls them one after the other, with whatever the host sent.
SetConfig(c) ==
    /\ staged' = c
    /\ UNCHANGED <<config, state, dir, desAngle, reqAge>>

Servo1UpdateTime ==
    /\ reqAge' = IF reqAge < NextReq THEN reqAge + 1 ELSE reqAge
    /\ UNCHANGED <<config, staged, state, dir, desAngle>>

=============================================================================
