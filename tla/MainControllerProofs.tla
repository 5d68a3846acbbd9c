------------------------ MODULE MainControllerProofs ------------------------
(***************************************************************************)
(* Proofs about MainController for every period, timeout and input set     *)
(* its assumptions allow.  The inductive invariant adds three facts to the *)
(* type invariant and to BlockedHasTimeout: the interrupt is off while the *)
(* timeout is being armed (QuietWhileArming), how many stale commands were *)
(* and can still be sent (StaleBudget), and that a pending DISABLE has its *)
(* report due before the radio-silence timeout, however wrong the readings *)
(* of the clock, unless reportAhead says otherwise (ReportFirst).          *)
(***************************************************************************)
EXTENDS MainController, TLAPS

\* While the vehicle runs nothing is stale; otherwise the commands sent since
\* RUN and the one that may still be latched are at most one together.
StaleBudget ==
    /\ staleSent \in {0, 1}
    /\ estopState = "RUN" => staleSent = 0
    /\ needToSendMotorCmd => staleSent = 0

\* The last report is not recorded later than the next may be late for.
ReportNotAhead == ~reportAhead => publishAge >= PublishPeriod + Late - FreezeTimeout

\* A DISABLE that the loop has not acted on arrived after the last report: by
\* the recorded times, its silence does not end before the report is due.
ReportFirst ==
    estopState = "DISABLE" /\ pc # "disabled" /\ ~reportAhead =>
        msgAge <= publishAge + (FreezeTimeout - PublishPeriod)

\* Between taking the bus and arming the timeout the interrupt is off, so that
\* no late timeout of an earlier request releases the bus just taken.
QuietWhileArming == pc \in {"armServo", "armFb"} => ~compaEnabled

IInv == /\ TypeOK /\ BlockedHasTimeout /\ QuietWhileArming
        /\ StaleBudget /\ ReportNotAhead /\ ReportFirst

\* A tick makes an age one older, unless it is old enough or lost.
LEMMA AgeType ==
    ASSUME NEW t \in Nat, NEW a \in -Ahead .. t + Late + 1
    PROVE  /\ Older(a, t) \in -Ahead .. t + Late + 1
           /\ Older(a, t) <= a + 1
           /\ ~Lost(a, t) => \/ Older(a, t) = a + 1
                             \/ Older(a, t) = t + Late + 1 /\ a = t + Late + 1
<1> USE TimingAssumption DEF TimingAssumption
<1>1. CASE Lost(a, t)
  BY <1>1 DEF Older
<1>2. CASE ~Lost(a, t) /\ a > t + Late
  BY <1>2 DEF Older
<1>3. CASE ~Lost(a, t) /\ a <= t + Late
  BY <1>3 DEF Older
<1> QED
  BY <1>1, <1>2, <1>3

\* The time until the wrap stays within its bounds.
LEMMA LeftType ==
    ASSUME left \in -Late .. Past, ClockTicks
    PROVE  left' \in -Late .. Past
<1> USE TimingAssumption DEF TimingAssumption, Far, Past
<1>1. CASE left = Far
  <2>1. left' \in {Far, Far - 1}
    BY <1>1 DEF ClockTicks
  <2> QED
    BY <2>1
<1>2. CASE left \in {-Late, Past}
  <2>1. left' \in {Past}
    BY <1>2 DEF ClockTicks
  <2> QED
    BY <2>1
<1>3. CASE left \in 1 - Late .. Far - 1
  <2>1. left' \in {left - 1}
    BY <1>3 DEF ClockTicks
  <2> QED
    BY <2>1, <1>3
<1> QED
  BY <1>1, <1>2, <1>3

\* What a report records is within the errors of a reading, and reportAhead tells
\* when the next report is late.
LEMMA StampType ==
    ASSUME NEW e \in Errors
    PROVE  /\ e \in Int /\ -e \in Int /\ e <= Ahead /\ -e <= Late
           /\ -e \in -Ahead .. PublishPeriod + Late + 1
           /\ -e \in -Ahead .. FreezeTimeout + Late + 1
           /\ StampReport(e) => /\ publishAge' = -e
                               /\ reportAhead' \in BOOLEAN
                               /\ ReportNotAhead'
<1> USE TimingAssumption DEF TimingAssumption
<1>1. e \in Int /\ e <= Ahead /\ e >= -Late
  BY DEF Errors
<1>2. -e \in Int /\ -e <= Late /\ -e >= -Ahead
  BY <1>1
<1>3. ASSUME StampReport(e)
      PROVE  publishAge' = -e /\ reportAhead' \in BOOLEAN /\ ReportNotAhead'
  <2> DEFINE ahead == e > FreezeTimeout - PublishPeriod - Late
  <2>1. publishAge' = -e
    BY <1>3, SMT DEF StampReport
  <2>2. reportAhead' = ahead
    BY <1>3, Zenon DEF StampReport
  <2>3. ahead \in BOOLEAN /\ (~ahead => -e >= PublishPeriod + Late - FreezeTimeout)
    BY <1>1
  <2> HIDE DEF ahead
  <2>4. reportAhead' \in BOOLEAN /\ (~reportAhead' => ~ahead)
    BY <2>2, <2>3, Zenon
  <2> QED
    BY <2>1, <2>3, <2>4 DEF ReportNotAhead
<1> QED
  BY <1>1, <1>2, <1>3

LEMMA InitIInv == Init => IInv
<1> SUFFICES ASSUME Init PROVE IInv
  OBVIOUS
<1> USE DEF Init
<1>1. LoopType
  <2>1. /\ publishAge \in -Ahead .. PublishPeriod + Late + 1
        /\ msgAge \in -Ahead .. FreezeTimeout + Late + 1
        /\ left \in -Late .. Past
    BY TimingAssumption DEF TimingAssumption, Far, Past
  <2> QED
    BY <2>1 DEF LoopType, Stages, Modes, EstopStates
<1>2. BlockedHasTimeout /\ QuietWhileArming /\ StaleBudget
  BY DEF BlockedHasTimeout, QuietWhileArming, StaleBudget
<1>3. ReportNotAhead /\ ReportFirst
  BY TimingAssumption DEF TimingAssumption, ReportNotAhead, ReportFirst
<1> QED
  BY <1>1, <1>2, <1>3 DEF IInv, TypeOK

\* The controller's own state keeps its type.
LEMMA LoopTypeStep ==
    ASSUME LoopType, [Next]_vars
    PROVE  LoopType'
<1> USE TimingAssumption
<1> USE DEF TimingAssumption, LoopType, Stages, Modes, EstopStates,
            estopVars, needVars, timerVars
<1>1. CASE HostStage
  BY <1>1 DEF HostStage, NoHostPacket, HostVelocity, HostPassThrough,
     HandleModeSwitchRequest, AfterHost, CommandLatched
<1>2. CASE EstopStage
  <2>1. CASE EstopInput
    BY <2>1 DEF EstopInput, DisableVehicle
  <2>2. ASSUME NEW e \in Errors, PublishDisable(e) PROVE LoopType'
    BY <2>2, StampType DEF PublishDisable, DisableVehicle
  <2>3. ASSUME NEW e \in Errors, CheckEstop(e) PROVE LoopType'
    <3>1. /\ publishAge' \in -Ahead .. PublishPeriod + Late + 1
          /\ reportAhead' \in BOOLEAN
      BY <2>3, StampType DEF CheckEstop
    <3> QED
      BY <2>3, <3>1 DEF CheckEstop
  <2> QED
    BY <1>2, <2>1, <2>2, <2>3 DEF EstopStage
<1>3. CASE BusStage
  BY <1>3 DEF BusStage, NoBusPacket, BusPacketHandler, ReleaseBus
<1>4. CASE Servo1Stage
  BY <1>4 DEF Servo1Stage
<1>5. CASE XbeeStage
  BY <1>5 DEF XbeeStage, NoEstopPacket, PacketAccepted, XbeePacketHandler, RestartTimeout,
     Accepts, Errors
<1>6. CASE Arbitrate
  BY <1>6 DEF Arbitrate, ArbitrateServo, SendServo, ArbitrateFeedback,
     SendFeedbackRequest, ClearFeedbackRequest, TakeBus, ArmTimeout
<1>7. CASE Tick
  BY AgeType, LeftType, <1>7 DEF Tick
<1>8. CASE Timer4Match \/ Timer4Overflow \/ EncodersRequestFcn
  BY <1>8 DEF Timer4Match, Timer4Overflow, EncodersRequestFcn
<1>9. CASE Rs485ResponseTimeout
  BY <1>9 DEF Rs485ResponseTimeout, ReleaseBus
<1>11. CASE UNCHANGED vars
  BY <1>11 DEF vars
<1> QED
  BY <1>1, <1>2, <1>3, <1>4, <1>5, <1>6, <1>7, <1>8, <1>9, <1>11
  DEF Next, MainLoop, Hardware

\* Every step keeps the three facts the properties rest on.
LEMMA IInvStep ==
    ASSUME IInv, [Next]_vars
    PROVE  IInv'
<1>1. LoopType /\ LoopType'
  BY LoopTypeStep DEF IInv, TypeOK
<1>2. BlockedHasTimeout' /\ QuietWhileArming'
  <2> USE DEF IInv, LoopType, BlockedHasTimeout, QuietWhileArming, Stages,
              timerVars
  <2>1. CASE HostStage
    BY <1>1, <2>1 DEF HostStage, NoHostPacket, HostVelocity, HostPassThrough,
       HandleModeSwitchRequest, AfterHost, CommandLatched
  <2>2. CASE EstopStage
    BY <1>1, <2>2 DEF EstopStage, EstopInput, PublishDisable, CheckEstop,
       DisableVehicle, StampReport, Errors
  <2>3. CASE BusStage
    BY <1>1, <2>3 DEF BusStage, NoBusPacket, BusPacketHandler, ReleaseBus
  <2>4. CASE Servo1Stage
    BY <1>1, <2>4 DEF Servo1Stage
  <2>5. CASE XbeeStage
    BY <1>1, <2>5 DEF XbeeStage, NoEstopPacket, PacketAccepted, XbeePacketHandler, RestartTimeout,
     Accepts, Errors
  <2>6. CASE Arbitrate
    BY <1>1, <2>6 DEF Arbitrate, ArbitrateServo, SendServo, ArbitrateFeedback,
       SendFeedbackRequest, ClearFeedbackRequest, TakeBus, ArmTimeout
  <2>7. CASE Tick
    BY <1>1, <2>7 DEF Tick
  <2>8. CASE Timer4Match \/ Timer4Overflow \/ EncodersRequestFcn
    BY <1>1, <2>8 DEF Timer4Match, Timer4Overflow, EncodersRequestFcn
  <2>9. CASE Rs485ResponseTimeout
    BY <1>1, <2>9 DEF Rs485ResponseTimeout, ReleaseBus
  <2>11. CASE UNCHANGED vars
    BY <1>1, <2>11 DEF vars
  <2> QED
    BY <2>1, <2>2, <2>3, <2>4, <2>5, <2>6, <2>7, <2>8, <2>9, <2>11
    DEF Next, MainLoop, Hardware
<1>3. StaleBudget'
  <2> USE DEF IInv, LoopType, StaleBudget, estopVars, needVars
  <2>1. CASE HostStage
    BY <1>1, <2>1 DEF HostStage, NoHostPacket, HostVelocity, HostPassThrough,
       HandleModeSwitchRequest, AfterHost, CommandLatched
  <2>2. CASE EstopStage
    BY <1>1, <2>2 DEF EstopStage, EstopInput, PublishDisable, CheckEstop,
       DisableVehicle, StampReport, Errors
  <2>3. CASE BusStage
    BY <1>1, <2>3 DEF BusStage, NoBusPacket, BusPacketHandler, ReleaseBus
  <2>4. CASE Servo1Stage
    BY <1>1, <2>4 DEF Servo1Stage
  <2>5. CASE XbeeStage
    BY <1>1, <2>5 DEF XbeeStage, NoEstopPacket, PacketAccepted, XbeePacketHandler, RestartTimeout,
     Accepts, Errors
  <2>6. CASE Arbitrate
    BY <1>1, <2>6 DEF Arbitrate, ArbitrateServo, SendServo, ArbitrateFeedback,
       SendFeedbackRequest, ClearFeedbackRequest, TakeBus, ArmTimeout
  <2>7. CASE Tick
    BY <2>7 DEF Tick
  <2>8. CASE Timer4Match \/ Timer4Overflow \/ EncodersRequestFcn
    BY <1>1, <2>8 DEF Timer4Match, Timer4Overflow, EncodersRequestFcn
  <2>9. CASE Rs485ResponseTimeout
    BY <1>1, <2>9 DEF Rs485ResponseTimeout, ReleaseBus
  <2>11. CASE UNCHANGED vars
    BY <1>1, <2>11 DEF vars
  <2> QED
    BY <2>1, <2>2, <2>3, <2>4, <2>5, <2>6, <2>7, <2>8, <2>9, <2>11
    DEF Next, MainLoop, Hardware
<1>4. ReportNotAhead' /\ ReportFirst'
  <2> USE TimingAssumption
  <2> USE DEF TimingAssumption, IInv, LoopType, ReportNotAhead, ReportFirst, estopVars
  <2>1. CASE HostStage
    BY <1>1, <2>1 DEF HostStage, NoHostPacket, HostVelocity, HostPassThrough,
       HandleModeSwitchRequest, AfterHost, CommandLatched
  <2>2. CASE EstopInput
    BY <1>1, <2>2 DEF EstopInput, DisableVehicle
  <2>3. ASSUME NEW e \in Errors, PublishDisable(e)
        PROVE  ReportNotAhead' /\ ReportFirst'
    BY <1>1, <2>3, StampType DEF PublishDisable, DisableVehicle
  <2>4. ASSUME NEW e \in Errors, CheckEstop(e)
        PROVE  ReportNotAhead' /\ ReportFirst'
    <3>1. CASE PublishDue(e)
      <4>1. estopState' # "DISABLE"
        BY <2>4, <3>1 DEF CheckEstop
      <4> QED
        BY <2>4, <3>1, <4>1, StampType DEF CheckEstop
    <3>2. CASE ~PublishDue(e)
      BY <1>1, <2>4, <3>2 DEF CheckEstop
    <3> QED
      BY <3>1, <3>2
  <2>5. CASE BusStage \/ Servo1Stage
    BY <1>1, <2>5 DEF BusStage, NoBusPacket, BusPacketHandler, Servo1Stage
  <2>6. CASE NoEstopPacket
    BY <1>1, <2>6 DEF NoEstopPacket
  <2>7. ASSUME NEW s \in RadioInputs, NEW e \in Errors, XbeePacketHandler(s, e)
        PROVE  ReportNotAhead' /\ ReportFirst'
    <3>1. msgAge' = -e /\ publishAge' = publishAge /\ reportAhead' = reportAhead
      BY <2>7 DEF XbeePacketHandler, RestartTimeout
    <3>2. -e \in Int /\ -e <= Late
      BY StampType
    <3> QED
      BY <1>1, <3>1, <3>2
  <2>8. CASE Arbitrate
    BY <1>1, <2>8 DEF Arbitrate, ArbitrateServo, SendServo, ArbitrateFeedback,
       SendFeedbackRequest, ClearFeedbackRequest, TakeBus, ArmTimeout
  <2>9. CASE Tick
    <3>1. /\ publishAge' = Older(publishAge, PublishPeriod)
          /\ msgAge' = Older(msgAge, FreezeTimeout)
          /\ reportAhead' = (reportAhead \/ Lost(publishAge, PublishPeriod))
          /\ pc' = pc /\ estopState' = estopState
      BY <2>9 DEF Tick
    <3>2. CASE reportAhead'
      BY <3>2
    <3>3. CASE ~reportAhead'
      <4>1. ~reportAhead /\ ~Lost(publishAge, PublishPeriod)
        BY <3>1, <3>3
      <4>2. \/ publishAge' = publishAge + 1
            \/ /\ publishAge' = PublishPeriod + Late + 1
               /\ publishAge = PublishPeriod + Late + 1
        BY <1>1, <3>1, <4>1, AgeType
      <4>3. msgAge' \in -Ahead .. FreezeTimeout + Late + 1 /\ msgAge' <= msgAge + 1
        BY <1>1, <3>1, AgeType
      <4> QED
        BY <1>1, <3>1, <4>1, <4>2, <4>3
    <3> QED
      BY <3>2, <3>3
  <2>10. CASE \/ Timer4Match \/ Timer4Overflow
              \/ Rs485ResponseTimeout \/ EncodersRequestFcn
    BY <1>1, <2>10 DEF Timer4Match, Timer4Overflow, Rs485ResponseTimeout,
       EncodersRequestFcn
  <2>11. CASE UNCHANGED vars
    BY <1>1, <2>11 DEF vars
  <2> QED
    BY <2>1, <2>2, <2>3, <2>4, <2>5, <2>6, <2>7, <2>8, <2>9, <2>10, <2>11
    DEF Next, MainLoop, EstopStage, XbeeStage, PacketAccepted, Hardware
<1>5. TypeOK'
  BY <1>1, <1>3 DEF TypeOK, StaleBudget
<1> QED
  BY <1>2, <1>3, <1>4, <1>5 DEF IInv

\* The inductive invariant holds in every reachable state.
THEOREM Invariance == Spec => []IInv
<1>1. IInv /\ [Next]_vars => IInv'
  BY IInvStep
<1> QED
  BY InitIInv, <1>1, PTL DEF Spec

\* Every variable of the main controller always has its type.
THEOREM TypeCorrect == Spec => []TypeOK
<1>1. IInv => TypeOK
  BY DEF IInv
<1> QED
  BY Invariance, <1>1, PTL

\* The RS-485 bus is never held without an armed timeout.
THEOREM NoBusLockup == Spec => []BlockedHasTimeout
<1>1. IInv => BlockedHasTimeout
  BY DEF IInv
<1> QED
  BY Invariance, <1>1, PTL

\* After the vehicle has left RUN at most one latched command still goes out.
THEOREM StaleCommandBound == Spec => []AtMostOneStaleCommand
<1>1. IInv => AtMostOneStaleCommand
  BY DEF IInv, StaleBudget, AtMostOneStaleCommand
<1> QED
  BY Invariance, <1>1, PTL

\* Only a packet from the base station takes the controller out of DISABLE, while
\* the last report's recorded time lets the next be due and the end of the silence
\* lies on this side of the wrap: whatever else the readings of the clock are.
THEOREM DisableStays == Spec => DisableNotHidden
<1>1. ASSUME IInv, [Next]_vars, estopState = "DISABLE", estopState' # "DISABLE"
      PROVE  pc = "xbee" \/ reportAhead \/ SumWraps(msgAge, FreezeTimeout)
  <2> USE <1>1
  <2> USE TimingAssumption
  <2> USE DEF TimingAssumption, IInv, TypeOK, LoopType, estopVars
  <2>1. CASE HostStage
    BY <2>1 DEF HostStage, NoHostPacket, HostVelocity, HostPassThrough,
       HandleModeSwitchRequest
  <2>2. CASE EstopInput
    BY <2>2 DEF EstopInput
  <2>3. ASSUME NEW e \in Errors, PublishDisable(e)
        PROVE  FALSE
    BY <2>3 DEF PublishDisable
  <2>4. ASSUME NEW e \in Errors, CheckEstop(e)
        PROVE  reportAhead \/ SumWraps(msgAge, FreezeTimeout)
    <3>1. FreezeDue(e) /\ ~PublishDue(e) /\ pc = "estop"
      BY <2>4 DEF CheckEstop
    <3>2. SUFFICES ASSUME ~reportAhead, ~SumWraps(msgAge, FreezeTimeout)
                   PROVE  FALSE
      OBVIOUS
    <3>3. ~(e >= left) /\ msgAge + e > FreezeTimeout
      BY <3>1, <3>2 DEF FreezeDue, Due
    <3>4. msgAge <= publishAge + (FreezeTimeout - PublishPeriod)
      BY <3>1, <3>2 DEF ReportFirst
    <3>5. publishAge + e > PublishPeriod
      <4>1. msgAge \in Int /\ publishAge \in Int /\ e \in Int
        BY StampType
      <4> QED
        BY <3>3, <3>4, <4>1
    <3>6. PublishDue(e)
      BY <3>3, <3>5 DEF PublishDue, Due, SumWraps
    <3> QED
      BY <3>1, <3>6
  <2>5. CASE BusStage \/ Servo1Stage
    BY <2>5 DEF BusStage, NoBusPacket, BusPacketHandler, Servo1Stage
  <2>6. CASE XbeeStage
    BY <2>6 DEF XbeeStage, NoEstopPacket, PacketAccepted, XbeePacketHandler
  <2>7. CASE Arbitrate
    BY <2>7 DEF Arbitrate, ArbitrateServo, SendServo, ArbitrateFeedback,
       SendFeedbackRequest, ClearFeedbackRequest
  <2>8. CASE Hardware
    BY <2>8 DEF Hardware, Tick, Timer4Match, Timer4Overflow,
       Rs485ResponseTimeout, EncodersRequestFcn
  <2>9. CASE UNCHANGED vars
    BY <2>9 DEF vars
  <2> QED
    BY <2>1, <2>2, <2>3, <2>4, <2>5, <2>6, <2>7, <2>8, <2>9
    DEF Next, MainLoop, EstopStage
<1>2. IInv /\ [Next]_vars =>
        [estopState = "DISABLE" /\ estopState' # "DISABLE"
          => pc = "xbee" \/ reportAhead \/ SumWraps(msgAge, FreezeTimeout)]_vars
  BY <1>1
<1> QED
  BY Invariance, <1>2, PTL DEF Spec, DisableNotHidden

\* Every step of the controller is a step of the emergency stop it promises or
\* leaves that unchanged: the refinement of VehicleEstop, for all constants.
THEOREM Implementation == Spec => ImplementsEstop
<1>1. Init => Estop!Init
  BY DEF Init, Far, Estop!Init, Estop!Far
<1>2. [Next]_vars => [Estop!Next]_(Estop!vars)
  <2> SUFFICES ASSUME [Next]_vars PROVE Estop!Next \/ UNCHANGED Estop!vars
    OBVIOUS
  <2> USE DEF estopVars, Estop!vars
  <2>1. CASE HostStage
    BY <2>1 DEF HostStage, NoHostPacket, HostVelocity, HostPassThrough,
       HandleModeSwitchRequest, AfterHost
  <2>2. CASE EstopStage
    <3>1. CASE EstopInput
      <4>1. Estop!EstopInput
        BY <3>1 DEF EstopInput, DisableVehicle, Estop!EstopInput
      <4> QED
        BY <4>1 DEF Estop!Next
    <3>2. ASSUME NEW e \in Errors, PublishDisable(e) \/ CheckEstop(e)
          PROVE  Estop!Next
      <4>1. /\ PublishDue(e) <=> Estop!PublishDue(e)
            /\ FreezeDue(e) <=> Estop!FreezeDue(e)
            /\ e \in Estop!Errors
        BY DEF PublishDue, FreezeDue, Due, SumWraps, Errors, Estop!PublishDue,
           Estop!FreezeDue, Estop!Due, Estop!SumWraps, Estop!Errors
      <4>2. Estop!Report(e)
        BY <3>2, <4>1 DEF PublishDisable, CheckEstop, DisableVehicle, StampReport,
           Estop!Report
      <4> QED
        BY <4>1, <4>2 DEF Estop!Next
    <3> QED
      BY <2>2, <3>1, <3>2 DEF EstopStage
  <2>3. CASE BusStage
    BY <2>3 DEF BusStage, NoBusPacket, BusPacketHandler
  <2>4. CASE Servo1Stage
    BY <2>4 DEF Servo1Stage
  <2>5. CASE NoEstopPacket
    BY <2>5 DEF NoEstopPacket
  <2>6. ASSUME NEW s \in RadioInputs, NEW e \in Errors, XbeePacketHandler(s, e)
        PROVE  Estop!Next
    <3>1. s \in Estop!EstopStates /\ e \in Estop!Errors /\ Estop!Accept(s, e)
      BY <2>6 DEF XbeePacketHandler, RestartTimeout, Accepts, Errors, EstopStates,
         Estop!EstopStates, Estop!Errors, Estop!Accept
    <3> QED
      BY <3>1 DEF Estop!Next
  <2>7. CASE Arbitrate
    BY <2>7 DEF Arbitrate, ArbitrateServo, SendServo, ArbitrateFeedback,
       SendFeedbackRequest, ClearFeedbackRequest, TakeBus
  <2>8. CASE Tick
    <3>1. Estop!Tick
      BY <2>8 DEF Tick, Older, Lost, SumWraps, ClockTicks, Far, Past, Estop!Tick,
         Estop!Older, Estop!Lost, Estop!SumWraps, Estop!ClockTicks, Estop!Far,
         Estop!Past
    <3> QED
      BY <3>1 DEF Estop!Next
  <2>9. CASE \/ Timer4Match \/ Timer4Overflow
             \/ Rs485ResponseTimeout \/ EncodersRequestFcn
    BY <2>9 DEF Timer4Match, Timer4Overflow, Rs485ResponseTimeout,
       EncodersRequestFcn
  <2>11. CASE UNCHANGED vars
    BY <2>11 DEF vars
  <2> QED
    BY <2>1, <2>2, <2>3, <2>4, <2>5, <2>6, <2>7, <2>8, <2>9, <2>11
    DEF Next, MainLoop, XbeeStage, PacketAccepted, Hardware
<1> QED
  BY <1>1, <1>2, PTL DEF Spec, ImplementsEstop, Estop!Spec

=============================================================================
