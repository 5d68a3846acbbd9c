--------------------------- MODULE MainController ---------------------------
(***************************************************************************)
(* The robot's main microcontroller: drivers/Atmel/MainController/main.c.  *)
(*                                                                         *)
(* One main loop polls, in this order, the host computer, the emergency    *)
(* stop, the RS-485 bus, the servo controller and the XBee radio, and then *)
(* puts at most one request on the half-duplex bus.  Two interrupts run    *)
(* between any two instructions of the loop: timer 1 asks for a new        *)
(* encoder reading, timer 4 gives up waiting for an answer on the bus.     *)
(*                                                                         *)
(* Each stage of the loop is one action; it is split where an interrupt    *)
(* can observe or change what the stage is doing.  Time is kept as the age *)
(* of the two instants the loop compares with: publishAge is the time      *)
(* since estopPublishTimer, msgAge the time since estopTimeout.  How wrong *)
(* the readings of the clock are, and its wrap, is in module ClockAges.    *)
(***************************************************************************)
EXTENDS ClockAges

CONSTANTS
    HostInputs,   \* the host packets considered
    RadioInputs   \* the states in the base station's packets, also unknown ones

EstopStates == {"RUN", "FREEZE", "DISABLE"}
Modes       == {"RUN", "CONFIG"}
Devices     == {"MOTOR", "OTHER"}  \* the motor controller; servo, pass-through

ASSUME InputAssumption ==
    HostInputs \subseteq {"velocity", "passthrough"} \cup Modes

VARIABLES
    pc,                  \* the stage of the main loop about to run
    mode,
    estopState,
    publishAge, msgAge,  \* now - estopPublishTimer, now - estopTimeout
    needToSendMotorCmd, needToSendPassThroughPacket,
    needToSendServo1Packet, needToRequestFb,
    rs485Blocked,
    compaEnabled,        \* TIMSK4.OCIE4A
    ocf4a,               \* TIFR4.OCF4A, set by every compare match
    timer4,              \* TCNT4 has not ("before") or has passed OCR4A
    staleSent,           \* history: velocity commands sent since RUN was left
    reportAhead          \* history: the time of the last report is too far in
                         \* the future for the next one to be due in time

estopVars == <<estopState, publishAge, msgAge, left, reportAhead>>
needVars  == <<needToSendMotorCmd, needToSendPassThroughPacket,
               needToSendServo1Packet, needToRequestFb>>
timerVars == <<rs485Blocked, compaEnabled, ocf4a, timer4>>
vars      == <<pc, mode, estopVars, needVars, timerVars, staleSent>>

Stages == {"host", "estop", "bus", "servo", "xbee", "arbServo", "armServo",
           "arbFb", "armFb", "clearFb", "disabled"}

Init ==
    /\ pc = "host"
    /\ mode = "RUN"
    /\ estopState = "RUN"
    /\ publishAge = 0 /\ msgAge = 0 /\ left = Far /\ reportAhead = FALSE
    /\ needToSendMotorCmd = FALSE /\ needToSendPassThroughPacket = FALSE
    /\ needToSendServo1Packet = FALSE /\ needToRequestFb = FALSE
    /\ rs485Blocked = FALSE
    /\ compaEnabled = FALSE /\ ocf4a = FALSE /\ timer4 = "before"
    /\ staleSent = 0

-----------------------------------------------------------------------------

Tick ==
    /\ publishAge' = Older(publishAge, PublishPeriod)
    /\ msgAge' = Older(msgAge, FreezeTimeout)
    /\ ClockTicks
    /\ reportAhead' = (reportAhead \/ Lost(publishAge, PublishPeriod))
    /\ UNCHANGED <<pc, mode, estopState, needVars, timerVars, staleSent>>

-----------------------------------------------------------------------------
(* Timers and interrupts.  Timer 4 is never stopped: its compare flag is   *)
(* raised on every match, whether the interrupt is enabled or not.         *)

Timer4Match ==
    /\ timer4 = "before"
    /\ timer4' = "after"
    /\ ocf4a' = TRUE
    /\ UNCHANGED <<pc, mode, estopVars, needVars, rs485Blocked,
                   compaEnabled, staleSent>>

Timer4Overflow ==
    /\ timer4 = "after"
    /\ ~(compaEnabled /\ ocf4a)  \* 257 ms later: a pending interrupt has run
    /\ timer4' = "before"
    /\ UNCHANGED <<pc, mode, estopVars, needVars, rs485Blocked,
                   compaEnabled, ocf4a, staleSent>>

\* A slip: the timeout is switched off and the bus is not released.
ReleaseBusForgotten == compaEnabled' = FALSE /\ UNCHANGED rs485Blocked

ReleaseBus == compaEnabled' = FALSE /\ rs485Blocked' = FALSE

Rs485ResponseTimeout ==
    /\ compaEnabled /\ ocf4a
    /\ ocf4a' = FALSE
    /\ ReleaseBus
    /\ UNCHANGED <<pc, mode, estopVars, needVars, timer4, staleSent>>

EncodersRequestFcn ==
    /\ needToRequestFb' = TRUE
    /\ UNCHANGED <<pc, mode, estopVars, needToSendMotorCmd,
                   needToSendPassThroughPacket, needToSendServo1Packet,
                   timerVars, staleSent>>

-----------------------------------------------------------------------------
(* The stages of the main loop.                                            *)

\* After the host stage a controller in CONFIG mode goes straight back to it.
AfterHost(m) == IF m = "CONFIG" THEN "host" ELSE "estop"

NoHostPacket ==
    /\ pc = "host"
    /\ pc' = AfterHost(mode)
    /\ UNCHANGED <<mode, estopVars, needVars, timerVars, staleSent>>

HandleModeSwitchRequest(m) ==
    /\ pc = "host"
    /\ m \in HostInputs \cap Modes
    /\ mode' = m
    /\ pc' = AfterHost(m)
    /\ UNCHANGED <<estopVars, needVars, timerVars, staleSent>>

\* A slip: the command is latched in every emergency stop state.
CommandLatchedAlways == TRUE

\* A velocity command is latched while the vehicle may run, else dropped.
CommandLatched == needToSendMotorCmd \/ estopState = "RUN"

HostVelocity ==
    /\ pc = "host"
    /\ "velocity" \in HostInputs
    /\ needToSendMotorCmd' = CommandLatched
    /\ pc' = AfterHost(mode)
    /\ UNCHANGED <<mode, estopVars, needToSendPassThroughPacket,
                   needToSendServo1Packet, needToRequestFb, timerVars, staleSent>>

HostPassThrough ==
    /\ pc = "host"
    /\ "passthrough" \in HostInputs
    /\ needToSendPassThroughPacket' = TRUE
    /\ pc' = AfterHost(mode)
    /\ UNCHANGED <<mode, estopVars, needToSendMotorCmd,
                   needToSendServo1Packet, needToRequestFb, timerVars, staleSent>>

\* The loop never leaves DisableVehicle, which reports its state for ever.
DisableVehicle == pc' = "disabled"

\* The input is high as the loop looks at it, which it may be at any time.
EstopInput ==
    /\ pc = "estop"
    /\ estopState' = "DISABLE"
    /\ DisableVehicle
    /\ UNCHANGED <<mode, publishAge, msgAge, left, reportAhead, needVars,
                   timerVars, staleSent>>

\* Slips: the thresholds are compared for equality, which a busy loop misses.
PublishDueExactly(e) == publishAge + e = PublishPeriod

PublishDue(e) == Due(publishAge, PublishPeriod, e)
FreezeDue(e)  == Due(msgAge, FreezeTimeout, e)

\* estopPublishTimer is set to a reading, which may be ahead of the time.
StampReport(e) ==
    /\ publishAge' = -e
    /\ reportAhead' = (e > FreezeTimeout - PublishPeriod - Late)

\* With the input low, one reading of the clock serves both comparisons.
PublishDisable(e) ==
    /\ pc = "estop"
    /\ PublishDue(e) /\ estopState = "DISABLE"
    /\ StampReport(e)
    /\ DisableVehicle
    /\ UNCHANGED <<mode, estopState, msgAge, left, needVars, timerVars, staleSent>>

CheckEstop(e) ==
    /\ pc = "estop"
    /\ ~(PublishDue(e) /\ estopState = "DISABLE")
    /\ IF PublishDue(e) THEN StampReport(e) ELSE UNCHANGED <<publishAge, reportAhead>>
    /\ estopState' = IF FreezeDue(e) THEN "FREEZE" ELSE estopState
    /\ pc' = "bus"
    /\ UNCHANGED <<mode, msgAge, left, needVars, timerVars, staleSent>>

NoBusPacket ==
    /\ pc = "bus"
    /\ pc' = "servo"
    /\ UNCHANGED <<mode, estopVars, needVars, timerVars, staleSent>>

\* A packet with the controller's id has come: the answer to the last request,
\* or a late or repeated answer to an earlier one.  Nothing else is assumed of
\* the devices; an answer that is lost is one that never comes.  One of the motor
\* controller is the cue to send what was latched for the bus; the emergency
\* stop was looked at when the command was latched.
BusPacketHandler(d) ==
    /\ pc = "bus"
    /\ ReleaseBus
    /\ IF d = "MOTOR"
       THEN /\ needToSendMotorCmd' = FALSE
            /\ needToSendPassThroughPacket' = FALSE
            /\ staleSent' = IF needToSendMotorCmd /\ estopState # "RUN"
                            THEN staleSent + 1 ELSE staleSent
       ELSE UNCHANGED <<needToSendMotorCmd, needToSendPassThroughPacket, staleSent>>
    /\ pc' = "servo"
    /\ UNCHANGED <<mode, estopVars, needToSendServo1Packet,
                   needToRequestFb, ocf4a, timer4>>

\* Servo1Update returns a packet or not (Servo1Controller.c; here it may or may not).
Servo1Stage ==
    /\ pc = "servo"
    /\ \E packetOut \in BOOLEAN :
         needToSendServo1Packet' =
             (needToSendServo1Packet \/ (packetOut /\ estopState = "RUN"))
    /\ pc' = "xbee"
    /\ UNCHANGED <<mode, estopVars, needToSendMotorCmd,
                   needToSendPassThroughPacket, needToRequestFb, timerVars,
                   staleSent>>

\* No packet, or one that XbeePacketHandler rejects: too short to hold this
\* robot's entry, or an entry that names no state.
NoEstopPacket ==
    /\ pc = "xbee"
    /\ pc' = "arbServo"
    /\ UNCHANGED <<mode, estopVars, needVars, timerVars, staleSent>>

\* Slips: the silence timeout is not restarted, any state is accepted.
TimeoutNotRestarted(e) == UNCHANGED msgAge
AcceptsAny(s) == s \in RadioInputs

RestartTimeout(e) == msgAge' = -e
Accepts(s)        == s \in EstopStates

XbeePacketHandler(s, e) ==
    /\ pc = "xbee"
    /\ Accepts(s)
    /\ estopState' = s
    /\ RestartTimeout(e)
    /\ staleSent' = IF s = "RUN" THEN 0 ELSE staleSent
    /\ pc' = "arbServo"
    /\ UNCHANGED <<mode, publishAge, left, reportAhead, needVars, timerVars>>

\* SetBusBlocked takes the bus, then restarts timer 4 and lets it interrupt.
TakeBus(next) == rs485Blocked' = TRUE /\ pc' = next
ArmTimeout    == timer4' = "before" /\ compaEnabled' = TRUE

ArbitrateServo ==
    /\ pc = "arbServo"
    /\ IF needToSendServo1Packet /\ ~rs485Blocked
       THEN TakeBus("armServo")
       ELSE pc' = "arbFb" /\ UNCHANGED rs485Blocked
    /\ UNCHANGED <<mode, estopVars, needVars, compaEnabled, ocf4a,
                   timer4, staleSent>>

SendServo ==
    /\ pc = "armServo"
    /\ ArmTimeout
    /\ needToSendServo1Packet' = FALSE
    /\ pc' = "arbFb"
    /\ UNCHANGED <<mode, estopVars, needToSendMotorCmd,
                   needToSendPassThroughPacket, needToRequestFb, rs485Blocked,
                   ocf4a, staleSent>>

ArbitrateFeedback ==
    /\ pc = "arbFb"
    /\ IF needToRequestFb /\ ~rs485Blocked
       THEN TakeBus("armFb")
       ELSE pc' = "host" /\ UNCHANGED rs485Blocked
    /\ UNCHANGED <<mode, estopVars, needVars, compaEnabled, ocf4a,
                   timer4, staleSent>>

SendFeedbackRequest ==
    /\ pc = "armFb"
    /\ ArmTimeout
    /\ pc' = "clearFb"
    /\ UNCHANGED <<mode, estopVars, needVars, rs485Blocked, ocf4a,
                   staleSent>>

\* A request of timer 1 between the sending and this store is forgotten.
ClearFeedbackRequest ==
    /\ pc = "clearFb"
    /\ needToRequestFb' = FALSE
    /\ pc' = "host"
    /\ UNCHANGED <<mode, estopVars, needToSendMotorCmd,
                   needToSendPassThroughPacket, needToSendServo1Packet,
                   timerVars, staleSent>>

HostStage  == \/ NoHostPacket \/ HostVelocity \/ HostPassThrough
              \/ \E m \in Modes : HandleModeSwitchRequest(m)
EstopStage == EstopInput \/ \E e \in Errors : PublishDisable(e) \/ CheckEstop(e)
BusStage   == NoBusPacket \/ \E d \in Devices : BusPacketHandler(d)
PacketAccepted == \E s \in RadioInputs, e \in Errors : XbeePacketHandler(s, e)
XbeeStage  == NoEstopPacket \/ PacketAccepted
Arbitrate  == \/ ArbitrateServo \/ SendServo \/ ArbitrateFeedback
              \/ SendFeedbackRequest \/ ClearFeedbackRequest
MainLoop   == HostStage \/ EstopStage \/ BusStage \/ Servo1Stage \/ XbeeStage
              \/ Arbitrate
Hardware   == \/ Tick
              \/ Timer4Match \/ Timer4Overflow
              \/ Rs485ResponseTimeout \/ EncodersRequestFcn

Next == MainLoop \/ Hardware
Spec == Init /\ [][Next]_vars

\* The processor keeps executing the loop, and time goes on.
FairSpec == Spec /\ WF_vars(MainLoop) /\ WF_vars(Tick)

-----------------------------------------------------------------------------
(* Properties.                                                             *)

\* Every variable has its type: the controller's own state, and the history.
LoopType ==
    /\ pc \in Stages
    /\ mode \in Modes
    /\ estopState \in EstopStates
    /\ publishAge \in -Ahead .. PublishPeriod + Late + 1
    /\ msgAge \in -Ahead .. FreezeTimeout + Late + 1
    /\ left \in -Late .. Past
    /\ {reportAhead, needToSendMotorCmd, needToSendPassThroughPacket,
        needToSendServo1Packet, needToRequestFb,
        rs485Blocked, compaEnabled, ocf4a} \subseteq BOOLEAN
    /\ timer4 \in {"before", "after"}
TypeOK == LoopType /\ staleSent \in Nat

\* The bus is never held without a running timeout: outside the two
\* instructions of SetBusBlocked that lie between taking the bus and arming
\* the timeout, rs485Blocked is set exactly when the compare interrupt is
\* enabled, in spite of the interrupts that clear both at any moment.  A bus
\* held with the interrupt off would stay held for ever (main.c:111-125).
BlockedHasTimeout ==
    rs485Blocked = (compaEnabled \/ pc \in {"armServo", "armFb"})

\* The check of estopState in HostPacketHandler is not repeated when the
\* command is sent (main.c:447-451), so a command latched in RUN can still go
\* out after a freeze, but never more than one until RUN is back.
AtMostOneStaleCommand == staleSent <= 1

\* A DISABLE is not downgraded by the radio-silence timeout, because the status
\* report that disables the vehicle comes first in the loop and its period is
\* the shorter one (main.c:626-665).  There are two exceptions: the time of the
\* last report was read so far ahead, or lost as the clock wrapped, that no
\* report is due (reportAhead); and the end of the silence lies beyond the wrap,
\* so that every reading before it is taken to be later (main.c:662).
DisableNotHidden ==
    [][estopState = "DISABLE" /\ estopState' # "DISABLE"
        => pc = "xbee" \/ reportAhead \/ SumWraps(msgAge, FreezeTimeout)]_vars

\* Everything else the controller does, interrupts included, is invisible to
\* the emergency stop: its states and timeouts are those of VehicleEstop.
Estop == INSTANCE VehicleEstop WITH disabled <- (pc = "disabled")
ImplementsEstop == Estop!Spec


\* A DISABLE accepted from the base station ends in DisableVehicle, unless the
\* base station replaces it, CONFIG mode hides it, or silence replaces it in the
\* two cases DisableNotHidden names.  The vehicle is not left to wait for ever
\* with a DISABLE in force, whatever the reports, the timeout and the radio do.
DisableTakesEffect ==
    estopState = "DISABLE" ~>
        (pc = "disabled" \/ estopState # "DISABLE" \/ mode = "CONFIG")

=============================================================================
