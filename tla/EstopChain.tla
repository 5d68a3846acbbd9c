----------------------------- MODULE EstopChain -----------------------------
(***************************************************************************)
(* The chain of the emergency stop: the base station, its radio packets    *)
(* and one vehicle, watched among those that hear the station.  Time       *)
(* advances by one pass of the station's loop (5 ms).  The vehicle's loop  *)
(* looks at its emergency stop at least once in that time and may receive  *)
(* any number of the packets sent: they are lost or arrive before the next *)
(* pass.  The station may lose its power at any time and start again, and  *)
(* so may the vehicle.  The vehicle's readings of its clock are right and  *)
(* do not wrap here; how wrong they are is the subject of GlobalTimer, and *)
(* what the emergency stop makes of it that of MainController.             *)
(***************************************************************************)
EXTENDS EstopStation

CONSTANTS PublishPeriod, FreezeTimeout  \* of the vehicle, in passes of 5 ms

ASSUME ChainAssumption == PublishPeriod \in Nat /\ FreezeTimeout \in Nat

VARIABLES
    id,          \* ptableR.id, the id of the vehicle
    stationOn,
    switchOn,    \* level of the vehicle's switch in the last pass
    air,         \* what the vehicle will read as its entry, or NoPacket
    estopState, publishAge, msgAge, disabled,  \* see VehicleEstop
    checked,     \* the vehicle's loop has run since the last pass
    permitAge    \* history: time since the station last had the vehicle in
                 \* RUN or the vehicle was started

Vehicle == INSTANCE VehicleEstop WITH Late <- 0, Ahead <- 0, left <- FreezeTimeout + 1

vehicleVars == <<estopState, publishAge, msgAge, disabled>>
airVars     == <<id, air, checked>>
vars == <<stationVars, stationOn, switchOn, airVars, vehicleVars, permitAge>>

NoPacket == -1

Init ==
    /\ StationInit
    /\ id \in Robots
    /\ stationOn = TRUE /\ switchOn = FALSE
    /\ air = NoPacket
    /\ Vehicle!Init
    /\ checked = FALSE
    /\ permitAge = 0

\* A slip: the entries are counted from the first robot.
EntryFromOne(entries) ==
    IF id - 1 < NumEntries THEN entries[id - 1] ELSE Checksum(entries)

\* A slip: a payload whose last entry is the vehicle's is taken for too short.
EntryIfMore(entries) == IF id + 1 < NumEntries THEN entries[id] ELSE NoPacket

\* XbeePacketHandler only asks for id bytes of payload, and reads the byte
\* after them: for id = NumEntries that is the checksum.
Entry(entries) ==
    CASE id < NumEntries -> entries[id]
      [] id = NumEntries -> Checksum(entries)
      [] OTHER -> NoPacket

Permitted == stationOn' /\ commandedState'[id] = 0

Age == permitAge' = IF Permitted THEN 0
                    ELSE IF permitAge > FreezeTimeout + 2 THEN permitAge
                    ELSE permitAge + 1

TimePasses ==
    /\ checked /\ air = NoPacket
    /\ Vehicle!Tick
    /\ checked' = FALSE
    /\ Age
    /\ UNCHANGED id

Pass(pressed, switches) ==
    /\ stationOn
    /\ StationLoop(pressed, switches)
    /\ switchOn' = (id \in switches)
    /\ air' = IF cntr' = 0 THEN Entry(commandedState) ELSE NoPacket
    /\ UNCHANGED stationOn
    /\ TimePasses

\* Any buttons and switches: those of the other robots are in the checksum too.
StationPass ==
    \E pressed \in SUBSET Indices, switches \in SUBSET Robots : Pass(pressed, switches)

Silence ==
    /\ ~stationOn
    /\ UNCHANGED <<stationVars, stationOn, switchOn, air>>
    /\ TimePasses

StationOff ==
    /\ stationOn /\ stationOn' = FALSE /\ switchOn' = FALSE
    /\ UNCHANGED <<stationVars, airVars, vehicleVars, permitAge>>

StationStart ==
    /\ ~stationOn /\ stationOn' = TRUE
    /\ commandedState' = [i \in Indices |-> 1]
    /\ debounceCntr' = [i \in Indices |-> 0]
    /\ cntr' = 0
    /\ UNCHANGED <<switchOn, airVars, vehicleVars, permitAge>>

PacketLost ==
    /\ air # NoPacket /\ air' = NoPacket
    /\ UNCHANGED <<stationVars, stationOn, switchOn, id, checked, vehicleVars,
                   permitAge>>

StateName == [s \in States |-> CASE s = 0 -> "RUN" [] s = 1 -> "FREEZE" [] s = 2 -> "DISABLE"]

PacketReceived ==
    /\ air # NoPacket /\ air' = NoPacket
    /\ \/ (air \in States /\ Vehicle!Accept(StateName[air], 0))
       \/ ((air \notin States \/ disabled) /\ UNCHANGED vehicleVars)
    /\ UNCHANGED <<stationVars, stationOn, switchOn, id, checked, permitAge>>

VehiclePass ==
    /\ checked' = TRUE
    /\ Vehicle!Report(0) \/ (disabled /\ UNCHANGED vehicleVars)
    /\ UNCHANGED <<stationVars, stationOn, switchOn, id, air, permitAge>>

VehicleInput ==
    /\ Vehicle!EstopInput
    /\ UNCHANGED <<stationVars, stationOn, switchOn, airVars, permitAge>>

VehicleStart ==
    /\ estopState' = "RUN" /\ publishAge' = 0 /\ msgAge' = 0
    /\ disabled' = FALSE
    /\ permitAge' = 0
    /\ UNCHANGED <<stationVars, stationOn, switchOn, airVars>>

Next == \/ StationPass \/ Silence \/ StationOff \/ StationStart
        \/ PacketLost \/ PacketReceived
        \/ VehiclePass \/ VehicleInput \/ VehicleStart
Spec == Init /\ [][Next]_vars

\* Both loops keep running, and not every packet is lost.
Fairness == /\ WF_vars(StationPass \/ Silence)
            /\ WF_vars(VehiclePass) /\ WF_vars(PacketLost \/ PacketReceived)
            /\ SF_vars(PacketReceived)
FairSpec == Spec /\ Fairness

-----------------------------------------------------------------------------
(* Properties.                                                             *)

\* A vehicle runs only if the station had it in RUN, or it was started, at
\* most FreezeTimeout and one pass before: whichever of the radio, the
\* station and the packets fails.
RunIsRecent ==
    estopState = "RUN" /\ checked => permitAge <= FreezeTimeout + 1

\* The switch of a robot prevails over every button but the master's, which
\* hides it for one pass; a packet sent in the next one lifts the DISABLE.
SwitchPrevails ==
    switchOn => commandedState[id] = 2 \/ debounceCntr[0] = 1

\* The vehicle whose id is the number of entries has a button, but no entry:
\* it reads the checksum, which names no state, and never runs again.
UncoveredStaysStopped ==
    [][id >= NumEntries /\ estopState # "RUN" /\ estopState' = "RUN" => VehicleStart]_vars

\* A robot switched off is disabled in the end, if the master button is let
\* go and the power stays on: neither the loss of packets nor the race of
\* report, timeout and radio in the vehicle prevents it.
SwitchDisables ==
    (/\ <>[](stationOn /\ switchOn)
     /\ <>[][commandedState'[0] = commandedState[0]]_vars
     /\ <>[][~VehicleStart]_vars
     /\ id < NumEntries)
    => <>disabled

=============================================================================
