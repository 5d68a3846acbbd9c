----------------------------- MODULE DriveChain -----------------------------
(***************************************************************************)
(* The way of a velocity command: the program that drives the vehicle, or  *)
(* the operator's joystick, commands the micro gateway of the host         *)
(* (drivers/MicroGateway/MicroGateway2.cc), which sends what it was told   *)
(* last, decaying, every 50 ms; the main microcontroller latches it while  *)
(* the vehicle may run and passes it on behind the next answer of the      *)
(* motor controller (drivers/Atmel/MainController/main.c); the motor       *)
(* controller filters it, and stops when it hears nothing for a while      *)
(* (drivers/Atmel/MotorControllerSeeeduino/main.c).  Its remote control    *)
(* takes precedence.                                                       *)
(*                                                                         *)
(* Each of them may fall silent at any time and each packet may be lost;   *)
(* only the timer of the motor controller goes on for sure.  MainController*)
(* and MotorController model the two controllers in detail.                *)
(***************************************************************************)
EXTENDS VelocityFilter

CONSTANTS
    Speeds,    \* the velocities that are commanded
    Watchdog   \* overflows without a command until the motors are stopped (12)

ASSUME DriveAssumption == Speeds \subseteq -127 .. 127 /\ Watchdog \in Nat \ {0}

VARIABLES
    vCmdPrev,    \* of the gateway
    joystick,    \* VSC_ON_FLAG
    estopState,
    latched,     \* the velocity in motorCmdPacketOut, as a set: {} when none is
    runMode,
    v, n2OVF     \* of the motor controller

gateway == <<vCmdPrev, joystick>>
main    == <<estopState, latched>>
motor   == <<runMode, v, n2OVF>>
vars    == <<gateway, main, motor>>

Init ==
    /\ vCmdPrev = 0 /\ joystick = FALSE
    /\ estopState = "RUN" /\ latched = {}
    /\ runMode = "MANUAL" /\ v = 0 /\ n2OVF = 0

-----------------------------------------------------------------------------
\* The gateway: the driving program is heard unless the joystick is in charge.
VelocityCmd(c) ==
    /\ ~joystick
    /\ vCmdPrev' = c
    /\ UNCHANGED <<joystick, main, motor>>

\* A message of the safety controller, with or without a stop in force.
VSCController(stopped, c) ==
    /\ joystick' = ~stopped
    /\ vCmdPrev' = IF stopped THEN vCmdPrev ELSE c
    /\ UNCHANGED <<main, motor>>

GatewayRestarts == vCmdPrev' = 0 /\ joystick' = FALSE /\ UNCHANGED <<main, motor>>

\* A slip: the last command is repeated as it is.
Repeated(c) == c

Decayed(c) == CutOff(9 * c)

\* The packet arrives, or is lost on the serial line.  What comes while the
\* vehicle may not run is dropped.
SendVelocity ==
    /\ vCmdPrev' = Decayed(vCmdPrev)
    /\ latched' \in {latched} \cup (IF estopState = "RUN" THEN {{vCmdPrev'}} ELSE {})
    /\ UNCHANGED <<joystick, estopState, motor>>

-----------------------------------------------------------------------------
\* The main microcontroller: see VehicleEstop for when the state changes.
EstopChanges(s) == estopState' = s /\ UNCHANGED <<gateway, latched, motor>>

SetVelocity(c) == v' \in Filtered(DeadBand(c), v) /\ n2OVF' = 0

\* The motor controller answers a request, and gets what is latched, unless
\* that is lost on the bus.
PassOn ==
    /\ latched # {}
    /\ latched' = {}
    /\ \/ runMode = "AUTONOMOUS" /\ \E c \in latched : SetVelocity(c)
       \/ UNCHANGED <<v, n2OVF>>
    /\ UNCHANGED <<gateway, estopState, runMode>>

-----------------------------------------------------------------------------
\* The motor controller.
RcManual(c) ==
    /\ runMode' = "MANUAL"
    /\ SetVelocity(c)
    /\ UNCHANGED <<gateway, main>>

RcAutonomous ==
    /\ runMode' = "AUTONOMOUS"
    /\ UNCHANGED <<gateway, main, v, n2OVF>>

T2Overflow ==
    /\ IF n2OVF + 1 = Watchdog
       THEN v' = 0 /\ n2OVF' = 0
       ELSE n2OVF' = n2OVF + 1 /\ UNCHANGED v
    /\ UNCHANGED <<gateway, main, runMode>>

Next ==
    \/ \E c \in Speeds : VelocityCmd(c) \/ RcManual(c)
                         \/ \E stopped \in BOOLEAN : VSCController(stopped, c)
    \/ GatewayRestarts \/ SendVelocity \/ PassOn
    \/ \E s \in {"RUN", "FREEZE"} : EstopChanges(s)
    \/ RcAutonomous \/ T2Overflow

Spec == Init /\ [][Next]_vars

\* Only the timer of the motor controller is sure to go on.
FairSpec == Spec /\ WF_vars(T2Overflow)

-----------------------------------------------------------------------------
Moving == Speeds \ {0}

\* The vehicle comes to a standstill, and stays there, when its remote control
\* is left alone or commands 0 and, from some time on, nobody in charge of the
\* gateway commands it to move, or it may not run: the command that stands in
\* the gateway decays (MicroGateway2.cc:986), the one that was latched goes out
\* once at most, the filter comes down to 0 (main.c:281-289) and the watchdog
\* does the rest (main.c:95-106), whichever program, line or controller has
\* fallen silent.
RcDrives == \E c \in Moving : RcManual(c)
Commands == \E c \in Moving : VelocityCmd(c) \/ VSCController(FALSE, c)
StandsStill ==
    /\ ~[]<><<RcDrives>>_vars
    /\ ~[]<><<Commands>>_vars \/ <>[](estopState = "FREEZE") \/ <>[](runMode = "MANUAL")
    => <>[](v = 0)

=============================================================================
