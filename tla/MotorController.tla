--------------------------- MODULE MotorController ---------------------------
(***************************************************************************)
(* The motor controller: drivers/Atmel/MotorControllerSeeeduino/main.c and *)
(* MotorControllerHBridge.c.                                               *)
(*                                                                         *)
(* The main loop filters the velocities commanded by the bus or by the     *)
(* remote control and writes them to the H-bridges; interrupts run between *)
(* any two of its accesses to memory.  The interrupt of timer 2 is the     *)
(* watchdog: when no command has come for Watchdog overflows it stops the  *)
(* motors by calling the very function it may have interrupted.  The       *)
(* encoder interrupts count while the main loop reads and clears.          *)
(*                                                                         *)
(* A side of the vehicle has two PWM pins.  A pin is driven when it is     *)
(* connected to its timer and its pulse width is not 0.  The pulse width   *)
(* registers are buffered: a width becomes active when the timer is at     *)
(* BOTTOM.  The bits that connect the pins share two registers that take a *)
(* load and a store to change.                                             *)
(***************************************************************************)
EXTENDS VelocityFilter, Sequences

CONSTANTS
    Commands,   \* the velocity commands considered, pairs <<v, w>>
    Watchdog,   \* overflows without a command until the motors are stopped (12)
    EncMod,     \* number of values of an encoder count                   (2^16)
    MaxTicks    \* bound: encoder ticks in a behaviour

Speeds == -128 .. 127

ASSUME MotorAssumption ==
    /\ Commands \subseteq Speeds \X Speeds
    /\ Watchdog \in Nat \ {0}
    /\ MinSpeed \in Nat
    /\ EncMod \in Nat \ {0} /\ MaxTicks \in Nat

Pins      == {"LF", "LR", "RF", "RR"}
Registers == {"TCCR3A", "TCCR4A"}
Reg(pin)  == IF pin = "RF" THEN "TCCR3A" ELSE "TCCR4A"

VARIABLES
    main,        \* what the main loop is about to do
    cmd,         \* the arguments of SetVelocity
    filtered,    \* what SetVelocity has computed and not yet stored
    todo,        \* the accesses left of MotorControllerHBridgeSetVel
    v, w,        \* the filtered velocities
    bridge,      \* the registers of the H-bridge, see Bridges
    n2OVF,
    runMode,
    masked,      \* interrupts are disabled: between cli() and sei()
    encCount, counts,
    quiet,       \* history: overflows since the last SetVelocity ended
    raced,       \* history: the call of SetVelocity the watchdog stopped the
                 \* motors in, and that no later call has made up for
    ticks, told  \* history: encoder ticks counted, and reported to the bus

command  == <<cmd, filtered, todo>>
motors   == <<v, w, bridge>>
safety   == <<n2OVF, quiet, raced>>
encoders == <<masked, encCount, counts, ticks, told>>
vars     == <<main, command, motors, safety, runMode, encoders>>

\* active: the widths in use.  latch: the copy of a connection register that
\* the main loop has loaded and is going to store.
Bridges == [width : [Pins -> 0 .. 254], active : [Pins -> 0 .. 254],
            connected : [Registers -> SUBSET Pins], latch : SUBSET Pins]

-----------------------------------------------------------------------------
(* MotorControllerHBridgeSetVel as a sequence of accesses.                 *)

WriteWidth(pin, x) == [access |-> "width", pin |-> pin, width |-> x]
Load(pin)          == [access |-> "load", pin |-> pin]
Store(pin, on)     == [access |-> "store", pin |-> pin, on |-> on]

Clamp(x) == IF x > 127 THEN 127 ELSE IF x < -127 THEN -127 ELSE x

WriteWidths(forward, reverse, vel) ==
    <<WriteWidth(forward, IF vel >= 0 THEN 2 * vel ELSE 0),
      WriteWidth(reverse, IF vel >= 0 THEN 0 ELSE -2 * vel)>>

\* A slip: the pin of the other direction stays connected.
ConnectOnly(on, off) == <<Load(on), Store(on, TRUE)>>

\* One pin is disconnected before the other is connected.
Connect(on, off) == <<Load(off), Store(off, FALSE), Load(on), Store(on, TRUE)>>

SetSide(forward, reverse, vel) ==
    WriteWidths(forward, reverse, vel)
    \o (IF vel >= 0 THEN Connect(forward, reverse) ELSE Connect(reverse, forward))

SetVel(vel, turn) ==
    SetSide("LF", "LR", Clamp(vel - turn)) \o SetSide("RF", "RR", Clamp(vel + turn))

\* The effect of one access.
Do(b, a) ==
    CASE a.access = "width" -> [b EXCEPT !.width[a.pin] = a.width]
      [] a.access = "load"  -> [b EXCEPT !.latch = b.connected[Reg(a.pin)]]
      [] a.access = "store" ->
           [b EXCEPT !.connected[Reg(a.pin)] =
              IF a.on THEN b.latch \cup {a.pin} ELSE b.latch \ {a.pin}]

\* An interrupt does it all at once and gives the main loop its registers back.
DoAll(b, accesses) ==
    LET done[n \in 0 .. Len(accesses)] ==
          IF n = 0 THEN b ELSE Do(done[n - 1], accesses[n])
    IN  [done[Len(accesses)] EXCEPT !.latch = b.latch]

-----------------------------------------------------------------------------
\* The main loop starts with the motors set to 0.
Init ==
    /\ main = "idle"
    /\ cmd = <<0, 0>> /\ filtered = 0 /\ todo = <<>>
    /\ v = 0 /\ w = 0
    /\ bridge = [width |-> [p \in Pins |-> 0], active |-> [p \in Pins |-> 0],
                 connected |-> [r \in Registers |-> {p \in {"LF", "RF"} : Reg(p) = r}],
                 latch |-> {}]
    /\ n2OVF = 0 /\ quiet = 0 /\ raced = "none"
    /\ runMode = "MANUAL"
    /\ masked = FALSE /\ encCount = 0 /\ counts = 0 /\ ticks = 0 /\ told = 0

-----------------------------------------------------------------------------
(* SetVelocity.                                                            *)

SetVelocity(c) ==
    /\ cmd' = <<DeadBand(c[1]), DeadBand(c[2])>>
    /\ filtered' \in Filtered(cmd'[1], v)
    /\ raced' = IF raced = "this" THEN "earlier" ELSE raced
    /\ main' = "storeV"
    /\ UNCHANGED <<todo, motors, n2OVF, quiet, encoders>>

RcManual(c) ==
    /\ main = "idle"
    /\ runMode' = "MANUAL"
    /\ SetVelocity(c)

RcAutonomous ==
    /\ main = "idle"
    /\ runMode' = "AUTONOMOUS"
    /\ UNCHANGED <<main, command, motors, safety, encoders>>

BusVelocity(c) ==
    /\ main = "idle"
    /\ runMode = "AUTONOMOUS"
    /\ SetVelocity(c)
    /\ UNCHANGED runMode

StoreV ==
    /\ main = "storeV"
    /\ v' = filtered
    /\ main' = "filterW"
    /\ UNCHANGED <<command, w, bridge, safety, runMode, encoders>>

FilterW ==
    /\ main = "filterW"
    /\ filtered' \in Filtered(cmd[2], w)
    /\ main' = "storeW"
    /\ UNCHANGED <<cmd, todo, motors, safety, runMode, encoders>>

StoreW ==
    /\ main = "storeW"
    /\ w' = filtered
    /\ main' = "call"
    /\ UNCHANGED <<command, v, bridge, safety, runMode, encoders>>

\* A slip: the motors are set to the velocities as commanded.
SetUnfiltered == SetVel(cmd[1], cmd[2])

SetFiltered == SetVel(v, w)

CallSetVel ==
    /\ main = "call"
    /\ todo' = SetFiltered
    /\ main' = "drive"
    /\ UNCHANGED <<cmd, filtered, motors, safety, runMode, encoders>>

Drive ==
    /\ main = "drive"
    /\ bridge' = Do(bridge, Head(todo))
    /\ todo' = Tail(todo)
    /\ main' = IF todo' = <<>> THEN "reset" ELSE "drive"
    /\ UNCHANGED <<cmd, filtered, v, w, safety, runMode, encoders>>

ResetMotorCmdTimeout ==
    /\ main = "reset"
    /\ n2OVF' = 0 /\ quiet' = 0
    /\ raced' = IF raced = "earlier" THEN "none" ELSE raced
    /\ main' = "idle"
    /\ cmd' = <<0, 0>> /\ filtered' = 0  \* dead from here on
    /\ UNCHANGED <<todo, motors, runMode, encoders>>

-----------------------------------------------------------------------------
(* The watchdog, and the timers of the PWM.                                *)

\* A slip: the velocities are zeroed and not set.
StopVelocitiesOnly == v' = 0 /\ w' = 0 /\ UNCHANGED bridge

Expires(n) == n = Watchdog
StopMotors == v' = 0 /\ w' = 0 /\ bridge' = DoAll(bridge, SetVel(0, 0))

InSetVelocity ==
    main \in {"storeV", "filterW", "storeW", "call", "drive", "reset"}

T2Overflow ==
    /\ ~masked
    /\ quiet' = IF quiet < Watchdog THEN quiet + 1 ELSE quiet
    /\ IF Expires(n2OVF + 1)
       THEN StopMotors /\ n2OVF' = 0 /\ raced' = IF InSetVelocity THEN "this" ELSE "none"
       ELSE n2OVF' = n2OVF + 1 /\ UNCHANGED <<motors, raced>>
    /\ UNCHANGED <<main, command, runMode, encoders>>

PwmBottom(r) ==
    /\ bridge' = [bridge EXCEPT !.active =
         [p \in Pins |-> IF Reg(p) = r THEN bridge.width[p] ELSE @[p]]]
    /\ UNCHANGED <<main, command, v, w, safety, runMode, encoders>>

-----------------------------------------------------------------------------
(* The encoders.                                                           *)

EncoderTick ==
    /\ ~masked
    /\ ticks < MaxTicks
    /\ ticks' = ticks + 1
    /\ encCount' = (encCount + 1) % EncMod
    /\ UNCHANGED <<main, command, motors, safety, runMode, masked, counts, told>>

\* A slip: the interrupts stay enabled.
MaskForgotten == UNCHANGED masked

Mask == masked' = TRUE

EncodersRequest ==
    /\ main = "idle"
    /\ Mask
    /\ main' = "copy"
    /\ UNCHANGED <<command, motors, safety, runMode, encCount, counts, ticks, told>>

CopyCounts ==
    /\ main = "copy"
    /\ counts' = encCount
    /\ main' = "clear"
    /\ UNCHANGED <<command, motors, safety, runMode, masked, encCount, ticks, told>>

ResetEncoderCounts ==
    /\ main = "clear"
    /\ encCount' = 0
    /\ main' = "respond"
    /\ UNCHANGED <<command, motors, safety, runMode, masked, counts, ticks, told>>

\* sei(), and the response on the bus.
EncodersResponse ==
    /\ main = "respond"
    /\ masked' = FALSE
    /\ told' = (told + counts) % EncMod
    /\ counts' = 0
    /\ main' = "idle"
    /\ UNCHANGED <<command, motors, safety, runMode, encCount, ticks>>

Velocity == \/ \E c \in Commands : RcManual(c) \/ BusVelocity(c)
            \/ RcAutonomous
            \/ StoreV \/ FilterW \/ StoreW \/ CallSetVel \/ Drive
            \/ ResetMotorCmdTimeout
Encoder  == \/ EncoderTick
            \/ EncodersRequest \/ CopyCounts \/ ResetEncoderCounts
            \/ EncodersResponse
Next == Velocity \/ Encoder \/ T2Overflow \/ \E r \in Registers : PwmBottom(r)
Spec == Init /\ [][Next]_vars

-----------------------------------------------------------------------------
(* Properties.                                                             *)

Driven(pin) == pin \in bridge.connected[Reg(pin)] /\ bridge.active[pin] > 0

\* The two pins of a side are never driven together, which would close both
\* halves of its H-bridge: not while a command reverses the side, and not when
\* the watchdog runs between two accesses of a command or between the load and
\* the store of TCCR4A, once a later command has run to its end
\* (MotorControllerHBridge.c:57-91, 143-189).  Within such an interrupted
\* command they can be, for at most a period of the PWM: see README.md.
NoShootThrough ==
    raced = "none" => ~(Driven("LF") /\ Driven("LR")) /\ ~(Driven("RF") /\ Driven("RR"))

Stopped == \A p \in Pins : bridge.width[p] = 0

\* Without a command the motors stop after Watchdog overflows, and stay
\* stopped, whatever the watchdog interrupts: only a command on its way to the
\* motors may move them (main.c:87-106, 279-300).
MotorsStop ==
    quiet >= Watchdog /\ main \notin {"drive", "reset"} => Stopped

WidthsOf(vel, turn) == DoAll(bridge, SetVel(vel, turn)).width

\* Both sides of the vehicle carry out the same filtered velocity, unless the
\* watchdog stopped the motors in the middle of the last command: then one
\* side may be moving alone until the next command or the next expiry of the
\* watchdog (main.c:95-106, 288-297).
WidthsFollowFilter ==
    ~InSetVelocity /\ raced = "none"
    => bridge.width = WidthsOf(v, w)

\* Between two requests no encoder tick is lost or counted twice, although the
\* count is copied and cleared in two steps (main.c:427-440, 468-484): what was
\* reported and what is counted add up to the ticks there were.
EncodersAddUp ==
    main = "idle" => (told + encCount) % EncMod = ticks % EncMod

=============================================================================
