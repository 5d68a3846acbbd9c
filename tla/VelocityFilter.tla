--------------------------- MODULE VelocityFilter ---------------------------
(***************************************************************************)
(* How SetVelocity of drivers/Atmel/MotorControllerSeeeduino/main.c turns  *)
(* a commanded velocity into the velocity of the motors.                   *)
(***************************************************************************)
EXTENDS Integers

CONSTANT MinSpeed    \* MIN_V, MIN_W: slower commands count as 0 (5)

DeadBand(x) == IF x < MinSpeed /\ x > -MinSpeed THEN 0 ELSE x

\* The integer part, towards 0, of a number of tenths.
CutOff(tenths) == IF tenths >= 0 THEN tenths \div 10 ELSE -((-tenths) \div 10)

\* new*0.3 + old*0.7, cut off to an integer.  Where the sum is an integer, the
\* rounding of the floating-point numbers may make it the next nearer to 0.
Filtered(new, old) ==
    LET tenths == 3 * new + 7 * old
        sum    == CutOff(tenths)
    IN  {sum} \cup (IF tenths # 0 /\ tenths = 10 * sum
                    THEN {sum - (IF sum > 0 THEN 1 ELSE -1)} ELSE {})

=============================================================================
