------------------------------ MODULE ClockAges ------------------------------
(***************************************************************************)
(* The two instants that the emergency stop compares with its 32-bit clock *)
(* (drivers/Atmel/MainController/main.c), as ages: the time since them.    *)
(*                                                                         *)
(* A reading of the clock lies between Late ticks behind and Ahead ticks   *)
(* before the time.  Module GlobalTimer, which reads the clock byte by     *)
(* byte, has these bounds: Late is a period of TCNT3 (65535 ticks), Ahead  *)
(* a torn reading (2^24 ticks).  An instant stored from a reading that was *)
(* e ticks ahead has the age -e.                                           *)
(*                                                                         *)
(* The clock wraps once in a behaviour, at any time or never: left is the  *)
(* number of ticks until then, while they are few enough to matter.        *)
(***************************************************************************)
EXTENDS Integers

CONSTANTS
    PublishPeriod,  \* ticks between two status reports       (1 s in the code)
    FreezeTimeout,  \* ticks of radio silence before a freeze (10 s)
    Late, Ahead     \* how wrong a reading may be             (1.05 s, 268 s)

ASSUME TimingAssumption ==
    /\ PublishPeriod \in Nat /\ FreezeTimeout \in Nat
    /\ Late \in Nat /\ Ahead \in Nat
    /\ PublishPeriod + Late <= FreezeTimeout

VARIABLE left

Errors == -Late .. Ahead

Far  == FreezeTimeout + Ahead + 1  \* the wrap is out of sight,
Past == Far + 1                    \* or over; a late reading may still miss it

\* stored + period does not fit into 32 bits, or only because stored wrapped too.
SumWraps(age, period) == period - age >= left

\* new > stored + period in 32 bits, for a reading new that is e ticks ahead.
Due(age, period, e) ==
    IF (e >= left) <=> SumWraps(age, period)
    THEN age + e > period
    ELSE SumWraps(age, period)

\* The clock has wrapped and the sum has not: no reading exceeds it before the
\* clock comes round to it, in 19 hours, which are cut short to Ahead ticks.
Lost(age, period) == left = -Late /\ ~SumWraps(age, period)

\* An age a tick later.  It is not counted beyond what makes every reading due.
Older(age, period) ==
    CASE Lost(age, period) -> -Ahead
      [] ~Lost(age, period) /\ age > period + Late -> age
      [] ~Lost(age, period) /\ age <= period + Late -> age + 1

ClockTicks ==
    left' \in CASE left = Far -> {Far, Far - 1}
                [] left \in {-Late, Past} -> {Past}
                [] left \in 1 - Late .. Far - 1 -> {left - 1}

=============================================================================
