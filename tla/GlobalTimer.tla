----------------------------- MODULE GlobalTimer -----------------------------
(***************************************************************************)
(* The clock of the main controller, and the decision it serves: to freeze *)
(* the vehicle after ten seconds of radio silence                          *)
(* (drivers/Atmel/MainController/main.c).                                  *)
(*                                                                         *)
(* The time is the 32-bit globalTimer, to which the overflow interrupt of  *)
(* timer 3 adds 0xFFFF, plus the 16-bit counter TCNT3.  The processor      *)
(* reads globalTimer byte by byte, the lowest first, then TCNT3; ticks and *)
(* the interrupt come between these accesses.  Module MainController uses  *)
(* the ages of the instants the clock is compared with; this module is     *)
(* about how well the clock measures them.                                 *)
(***************************************************************************)
EXTENDS Integers

CONSTANTS
    HwMod,          \* number of values of TCNT3                       (2^16)
    Base, Digits,   \* number of values of a byte, bytes in globalTimer (2^8, 4)
    FreezeTimeout,  \* ticks of silence until a freeze              (625000)
    MaxNow          \* bound: ticks in a behaviour

ASSUME TimerAssumption ==
    /\ HwMod \in Nat /\ HwMod >= 2
    /\ Base \in Nat /\ Base >= 2 /\ Digits \in Nat \ {0}
    /\ FreezeTimeout \in Nat /\ MaxNow \in Nat

\* What a unit of byte i is worth; and all of them.
Weight[i \in 0 .. Digits] == IF i = 0 THEN 1 ELSE Base * Weight[i - 1]
Mod == Weight[Digits]

VARIABLES
    now,           \* the true time
    tcnt3, tov3,   \* TCNT3, and the overflow interrupt is pending
    globalTimer,
    reader,        \* what the main loop reads the clock for
    next,          \* the next byte GlobalTimerGetTime reads
    temp,          \* what it has read
    ticked,        \* a tick has come since the reading began
    torn,          \* history: bytes read when globalTimer changed under it
    newEstopTime, estopTimeout,
    lastMessage,   \* history: the true time of the last message,
    messageOff,    \* and how far off tearing may have put its reading
    freeze         \* history: the outcome of the last comparison

hardware == <<now, tcnt3, tov3, globalTimer>>
reading  == <<reader, next, temp, ticked, torn>>
estop    == <<newEstopTime, estopTimeout, lastMessage, messageOff, freeze>>
vars     == <<hardware, reading, estop>>

Init ==
    /\ now = 0 /\ tcnt3 = 0 /\ tov3 = FALSE /\ globalTimer = 0
    /\ reader = "none" /\ next = 0 /\ temp = 0 /\ ticked = FALSE /\ torn = 0
    /\ newEstopTime = 0 /\ estopTimeout = 0
    /\ lastMessage = 0 /\ messageOff = 0 /\ freeze = FALSE

-----------------------------------------------------------------------------
(* Timer 3.                                                                *)

\* A pending interrupt waits, and a reading takes, less than a tick of 16 us.
Tick ==
    /\ ~tov3 /\ ~ticked
    /\ now < MaxNow
    /\ now' = now + 1
    /\ tcnt3' = (tcnt3 + 1) % HwMod
    /\ tov3' = (tcnt3' = 0)
    /\ ticked' = (reader # "none")
    /\ UNCHANGED <<globalTimer, reader, next, temp, torn, estop>>

\* A slip: overflows are counted.
CountOverflow == globalTimer' = (globalTimer + 1) % Mod

AddPeriod == globalTimer' = (globalTimer + HwMod - 1) % Mod

GlobalTimerOverflow ==
    /\ tov3
    /\ tov3' = FALSE
    /\ AddPeriod
    /\ torn' = next % Digits
    /\ UNCHANGED <<now, tcnt3, reader, next, temp, ticked, estop>>

-----------------------------------------------------------------------------
(* GlobalTimerGetTime, called by the loop and when a message has come.     *)

StartRead(purpose) ==
    /\ reader = "none"
    /\ reader' = purpose
    /\ next' = 0 /\ temp' = 0 /\ ticked' = FALSE /\ torn' = 0
    /\ UNCHANGED <<hardware, estop>>

Byte(x, i) == (x \div Weight[i]) % Base

ReadBytes ==
    /\ reader # "none"
    /\ next < Digits
    /\ temp' = temp + Byte(globalTimer, next) * Weight[next]
    /\ next' = next + 1
    /\ UNCHANGED <<hardware, reader, ticked, torn, estop>>

\* A slip: the loop's last reading is taken for the time of the message.
StaleTime(time) == newEstopTime

MessageTime(time) == time

Due(new, timeout) == new > (timeout + FreezeTimeout) % Mod

\* With so many bytes of the old value, the reading is ahead by at most this.
Off == Weight[torn] - 1

ReadTCNT3 ==
    /\ reader # "none" /\ next = Digits
    /\ LET time == (temp + tcnt3) % Mod
       IN  IF reader = "loop"
           THEN /\ newEstopTime' = time
                /\ freeze' = Due(time, estopTimeout)
                /\ UNCHANGED <<estopTimeout, lastMessage, messageOff>>
           ELSE /\ estopTimeout' = MessageTime(time)
                /\ lastMessage' = now /\ messageOff' = Off
                /\ UNCHANGED <<newEstopTime, freeze>>
    /\ reader' = "none"
    /\ next' = 0 /\ temp' = 0 /\ ticked' = FALSE /\ torn' = 0
    /\ UNCHANGED hardware

Next == \/ Tick \/ GlobalTimerOverflow
        \/ \E purpose \in {"loop", "message"} : StartRead(purpose)
        \/ ReadBytes \/ ReadTCNT3
Spec == Init /\ [][Next]_vars

-----------------------------------------------------------------------------
(* Properties.                                                             *)

\* The clock loses a tick in each overflow, at most this many in a time.
Drift(time) == time \div HwMod + 1

\* What is read is never behind the true time by more than a tick per overflow
\* so far and one period, which is lost when TCNT3 wraps between the two accesses
\* (main.c:98-108), nor ahead of it, unless the overflow interrupt runs between
\* two bytes: then by less than a unit of the first byte read after it.
ReadingIsRecent ==
    [][ReadTCNT3 => LET time == (temp + tcnt3) % Mod
                    IN  /\ time <= now + Off
                        /\ time >= now - HwMod - Drift(now)]_vars

Silence == now - lastMessage
FreezesWithin(early, late) ==
    ReadTCNT3 /\ reader = "loop" =>
      IF freeze'
      THEN Silence > FreezeTimeout - HwMod - early
      ELSE Silence <= FreezeTimeout + HwMod + Drift(Silence) + late

\* The vehicle freezes because of ten seconds of silence ("10 seconds",
\* main.c:662), not before and not long after: the two instants compared are
\* as wrong as ReadingIsRecent says, and not more.  Only a torn reading of the
\* loop freezes it early, and only a torn time of the message late.
FreezesInTime == [][FreezesWithin(Off, messageOff)]_vars

=============================================================================
