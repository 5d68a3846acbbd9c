---------------------------- MODULE VehicleEstop ----------------------------
(***************************************************************************)
(* What the emergency stop of one vehicle promises, whatever else its main *)
(* microcontroller does: drivers/Atmel/MainController/main.c without the   *)
(* bus, the host, the servo and the interrupts.  The vehicle accepts the   *)
(* states of the base station, freezes when it has heard none for longer   *)
(* than FreezeTimeout, and is disabled for good by its own input or when a *)
(* DISABLE is in force as a status report is due, every PublishPeriod, as  *)
(* far as its clock can tell (module ClockAges).                           *)
(*                                                                         *)
(* MainController implements this module (its ImplementsEstop), and the    *)
(* vehicle of EstopChain is an instance of it.                             *)
(***************************************************************************)
EXTENDS ClockAges

VARIABLES
    estopState,
    publishAge, msgAge,  \* now - estopPublishTimer, now - estopTimeout
    disabled             \* the main loop has entered DisableVehicle

vars == <<estopState, publishAge, msgAge, left, disabled>>

EstopStates == {"RUN", "FREEZE", "DISABLE"}

Init ==
    /\ estopState = "RUN"
    /\ publishAge = 0 /\ msgAge = 0
    /\ left = Far
    /\ disabled = FALSE

Tick ==
    /\ publishAge' = Older(publishAge, PublishPeriod)
    /\ msgAge' = Older(msgAge, FreezeTimeout)
    /\ ClockTicks
    /\ UNCHANGED <<estopState, disabled>>

EstopInput ==
    /\ ~disabled
    /\ estopState' = "DISABLE"
    /\ disabled' = TRUE
    /\ UNCHANGED <<publishAge, msgAge, left>>

\* A slip: the silence is measured with the timer of the reports.
FreezeDueByReports(e) == Due(publishAge, FreezeTimeout, e)

PublishDue(e) == Due(publishAge, PublishPeriod, e)
FreezeDue(e)  == Due(msgAge, FreezeTimeout, e)

\* One pass of the loop over the emergency stop: the report comes first.
Report(e) ==
    /\ ~disabled
    /\ publishAge' = IF PublishDue(e) THEN -e ELSE publishAge
    /\ disabled' = (PublishDue(e) /\ estopState = "DISABLE")
    /\ estopState' = IF FreezeDue(e) /\ ~disabled' THEN "FREEZE" ELSE estopState
    /\ UNCHANGED <<msgAge, left>>

Accept(s, e) ==
    /\ ~disabled
    /\ estopState' = s
    /\ msgAge' = -e
    /\ UNCHANGED <<publishAge, left, disabled>>

Next == \/ Tick \/ EstopInput
        \/ \E e \in Errors : Report(e) \/ \E s \in EstopStates : Accept(s, e)
Spec == Init /\ [][Next]_vars

=============================================================================
