---------------------------- MODULE EstopStation ----------------------------
(***************************************************************************)
(* The emergency stop base station: drivers/Atmel/Estop/main.c.  A button  *)
(* for each robot toggles it between RUN and FREEZE, a switch disables it, *)
(* and the master button (index 0) sets all robots to one state.  Every    *)
(* SendPeriod passes of the loop, of 5 ms each, the states of the robots   *)
(* 0 .. NumEntries - 1 are broadcast in one packet.  The display of the    *)
(* states the robots report back is left out.                              *)
(***************************************************************************)
EXTENDS Integers

CONSTANTS
    NumRobots,   \* robots with a button and a switch   (10 in the code)
    NumEntries,  \* entries of the state packet          (nRobots + 1 = 10)
    Debounce,    \* DEBOUNCE_DELAY                       (100)
    SendPeriod   \* passes of the loop between packets   (200)

Indices == 0 .. NumRobots
Robots  == 1 .. NumRobots
States  == 0 .. 2  \* MMC_ESTOP_STATE_RUN, _FREEZE, _DISABLE

ASSUME StationAssumption ==
    /\ NumRobots \in Nat /\ NumEntries \in 1 .. NumRobots + 1
    /\ NumEntries <= 80  \* or some states add up to a checksum that names one
    /\ Debounce \in Nat \ {0} /\ SendPeriod \in Nat \ {0}

VARIABLES commandedState, debounceCntr, cntr

stationVars == <<commandedState, debounceCntr, cntr>>

StationInit ==
    /\ commandedState = [i \in Indices |-> 1]
    /\ debounceCntr = [i \in Indices |-> 0]
    /\ cntr = 0

Toggle(s) == CASE s = 0 -> 1 [] s = 1 -> 0 [] s = 2 -> 2

Fires(i, pressed) == i \in pressed /\ debounceCntr[i] = Debounce

\* A slip: the switch is looked at when the robot's button is pressed.
SwitchedByButton(i, s, pressed, switches) ==
    CASE i \in switches /\ i \in pressed -> 2
      [] i \notin switches /\ s = 2 -> 1
      [] OTHER -> s

Switched(i, s, pressed, switches) ==
    CASE i \in switches -> 2
      [] i \notin switches /\ s = 2 -> 1
      [] OTHER -> s

\* READ_ESTOP_STATE for the robots in turn; then the master button, which
\* overrides what the switches have just set.
ReadInputs(pressed, switches) ==
    /\ commandedState' =
         IF Fires(0, pressed)
         THEN [i \in Indices |-> Toggle(commandedState[0])]
         ELSE [i \in Indices |->
                 LET s == commandedState[i] IN
                 IF i = 0 THEN s
                 ELSE Switched(i, IF Fires(i, pressed) THEN Toggle(s) ELSE s,
                               pressed, switches)]
    /\ debounceCntr' = [i \in Indices |->
         IF Fires(i, pressed) THEN 1
         ELSE debounceCntr[i] + (IF debounceCntr[i] < Debounce THEN 1 ELSE 0)]

\* One pass of the loop; a packet is sent in it iff cntr' = 0, and holds the
\* states the previous pass has left.
StationLoop(pressed, switches) ==
    /\ cntr' = (cntr + 1) % SendPeriod
    /\ ReadInputs(pressed, switches)

\* DynamixelPacketWrapData: the id (8), the length, the type (0) and the
\* entries are added up in 8 bits and complemented.
EntrySum(entries) ==
    LET sum[n \in 0 .. NumEntries] ==
            IF n = 0 THEN 0 ELSE sum[n - 1] + entries[n - 1]
    IN  sum[NumEntries]

Checksum(entries) == 255 - ((8 + (NumEntries + 2) + 0 + EntrySum(entries)) % 256)

=============================================================================
