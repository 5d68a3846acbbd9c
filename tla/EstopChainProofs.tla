-------------------------- MODULE EstopChainProofs --------------------------
(***************************************************************************)
(* The chain of the emergency stop, for any number of robots, any periods  *)
(* and any silence: a vehicle runs only if the station permitted it a      *)
(* short while ago, its switch prevails over the buttons, and a vehicle    *)
(* without an entry never runs again.                                      *)
(*                                                                         *)
(* IInv says what each link knows.  The packet in the air is no older than *)
(* the last pass (FreshAir), a vehicle in RUN has heard the station no     *)
(* longer ago than its own timer says (HeardRecently), and one that has    *)
(* been through its loop has compared that timer (TimerChecked).           *)
(*                                                                         *)
(* The last part is about the clock that timer is read from, module        *)
(* GlobalTimer.  Two statements carry it: globalTimer and TCNT3 together   *)
(* have lost a tick per overflow (ClockRight), and a reading in progress   *)
(* is that of one value, or of two joined at one byte (ReadSoFar).         *)
(***************************************************************************)
EXTENDS EstopChain, TLAPS, WellFoundedInduction

-----------------------------------------------------------------------------
(* The checksum of a packet of states.  What a recursive sum adds up to is *)
(* shown by the least number of entries for which it would be otherwise.   *)

\* Every set of natural numbers has a least element.
LEMMA LeastElement ==
    ASSUME NEW T \in SUBSET Nat, T # {}
    PROVE  \E x \in T : \A y \in T : x <= y
<1> DEFINE Less == {ss \in Nat \X Nat : ss[1] < ss[2]}
<1>1. IsWellFoundedOn(Less, Nat)
  BY NatLessThanWellFounded DEF OpToRel
<1>2. PICK x \in T : \A y \in T : ~ (<<y, x>> \in Less)
  <2> HIDE DEF Less
  <2> QED
    BY <1>1, WFMin
<1>3. \A y \in T : ~ (y < x)
  BY <1>2
<1> QED
  BY <1>3

\* s holds the sums of the first i entries, for i up to n.
IsSum(entries, s, n) ==
    s = [i \in 0 .. n |-> IF i = 0 THEN 0 ELSE s[i - 1] + entries[i - 1]]

\* There are such sums, so the recursive definition in EntrySum has a solution.
LEMMA SumExists ==
    ASSUME NEW entries, NEW N \in Nat
    PROVE  \E s : IsSum(entries, s, N)
<1> DEFINE T == {n \in Nat : ~ \E s : IsSum(entries, s, n)}
<1>1. CASE T = {}
  BY <1>1
<1>2. CASE T # {}
  <2>1. PICK n \in T : \A m \in T : n <= m
    BY <1>2, LeastElement
  <2>2. CASE n = 0
    <3>1. IsSum(entries, [i \in 0 .. 0 |-> 0], 0)
      BY DEF IsSum
    <3> QED
      BY <2>1, <2>2, <3>1
  <2>3. CASE n # 0
    <3>1. n - 1 \in Nat /\ n - 1 \notin T
      BY <2>1, <2>3
    <3>2. PICK s : IsSum(entries, s, n - 1)
      BY <3>1
    <3> DEFINE t == [i \in 0 .. n |-> IF i = n THEN s[n - 1] + entries[n - 1] ELSE s[i]]
    <3>3. \A i \in 0 .. n - 1 : t[i] = s[i]
      BY <2>1
    <3>4. \A i \in 0 .. n : t[i] = IF i = 0 THEN 0 ELSE t[i - 1] + entries[i - 1]
      <4> TAKE i \in 0 .. n
      <4>1. CASE i = n
        BY <4>1, <2>3, <3>1, <3>3
      <4>2. CASE i # n
        <5>1. i \in 0 .. n - 1 /\ (i # 0 => i - 1 \in 0 .. n - 1)
          BY <4>2, <2>1
        <5>2. s[i] = IF i = 0 THEN 0 ELSE s[i - 1] + entries[i - 1]
          BY <5>1, <3>2 DEF IsSum
        <5> QED
          BY <5>1, <5>2, <3>3
      <4> QED
        BY <4>1, <4>2
    <3>5. IsSum(entries, t, n)
      <4> HIDE DEF t
      <4>1. t = [i \in 0 .. n |-> t[i]]
        BY DEF t
      <4> QED
        BY <4>1, <3>4, Zenon DEF IsSum
    <3> QED
      BY <2>1, <3>5
  <2> QED
    BY <2>2, <2>3
<1> QED
  BY <1>1, <1>2

\* The states are at most 2.
LEMMA SumBounded ==
    ASSUME NEW entries \in [Indices -> States]
    PROVE  EntrySum(entries) \in 0 .. 2 * NumEntries
<1> DEFINE sum == CHOOSE s : IsSum(entries, s, NumEntries)
<1>0. NumEntries \in Nat
  BY StationAssumption DEF StationAssumption
<1>1. IsSum(entries, sum, NumEntries)
  BY <1>0, SumExists
<1>2. EntrySum(entries) = sum[NumEntries]
  BY DEF EntrySum, IsSum
<1> HIDE DEF sum
<1> DEFINE T == {n \in 0 .. NumEntries : sum[n] \notin 0 .. 2 * n}
<1>3. CASE T = {}
  BY <1>0, <1>2, <1>3
<1>4. CASE T # {}
  <2>1. PICK n \in T : \A m \in T : n <= m
    <3> T \in SUBSET Nat
      OBVIOUS
    <3> QED
      BY <1>4, LeastElement
  <2>2. sum[n] = IF n = 0 THEN 0 ELSE sum[n - 1] + entries[n - 1]
    BY <1>1, <1>0 DEF IsSum
  <2>3. CASE n = 0
    BY <2>2, <2>3
  <2>4. CASE n # 0
    <3>1. n - 1 \in 0 .. NumEntries /\ n - 1 \notin T /\ n - 1 \in Indices
      BY <2>1, <2>4, <1>0, StationAssumption DEF StationAssumption, Indices
    <3>2. sum[n - 1] \in 0 .. 2 * (n - 1) /\ entries[n - 1] \in 0 .. 2
      BY <3>1 DEF States
    <3> QED
      BY <3>2, <2>2, <2>4, <1>0
  <2> QED
    BY <2>3, <2>4
<1> QED
  BY <1>3, <1>4

\* No checksum names a state: the sum does not come round to it in 8 bits.
LEMMA ChecksumNamesNoState ==
    ASSUME NEW entries \in [Indices -> States]
    PROVE  Checksum(entries) \in Int \ States
<1>1. EntrySum(entries) \in 0 .. 2 * NumEntries
  BY SumBounded
<1>2. 8 + (NumEntries + 2) + 0 + EntrySum(entries) \in 10 .. 252
  BY <1>1, StationAssumption DEF StationAssumption
<1> QED
  BY <1>2 DEF Checksum, States

-----------------------------------------------------------------------------
Switches == {stationOn, switchOn, disabled, checked} \subseteq BOOLEAN
TypeOK ==
    /\ Switches
    /\ commandedState \in [Indices -> States]
    /\ debounceCntr \in [Indices -> 0 .. Debounce]
    /\ cntr \in 0 .. SendPeriod - 1
    /\ id \in Robots
    /\ air \in Int
    /\ estopState \in Vehicle!EstopStates
    /\ publishAge \in Nat /\ msgAge \in Nat /\ permitAge \in Nat

PermitAgeRight == stationOn /\ commandedState[id] = 0 => permitAge = 0
FreshAir ==
    /\ air \in States => id < NumEntries
    /\ air = 0 => permitAge <= 1
HeardRecently == estopState = "RUN" => permitAge <= msgAge + 1
TimerChecked  == estopState = "RUN" /\ checked => msgAge <= FreezeTimeout
StopStands    == disabled => estopState = "DISABLE"
SwitchSeen    == ~stationOn => ~switchOn

IInv ==
    /\ TypeOK
    /\ PermitAgeRight /\ FreshAir /\ HeardRecently /\ TimerChecked
    /\ StopStands /\ SwitchSeen /\ SwitchPrevails

LEMMA InvInit == Init => IInv
<1>1. Init => Switches
  BY Zenon DEF Init, Vehicle!Init, Switches
<1> QED
  BY <1>1, StationAssumption, ChainAssumption
  DEF StationAssumption, ChainAssumption, Init, StationInit, Vehicle!Init, IInv, TypeOK,
      PermitAgeRight, FreshAir, HeardRecently, TimerChecked, StopStands,
      SwitchSeen, SwitchPrevails, Vehicle!EstopStates, Indices, Robots, States, NoPacket

\* A pass over the inputs gives states again, and the switch of a robot shows in its
\* state unless the master button has just fired.
LEMMA InputsStep ==
    ASSUME TypeOK, NEW pressed \in SUBSET Indices, NEW switches \in SUBSET Robots,
           ReadInputs(pressed, switches)
    PROVE  /\ commandedState' \in [Indices -> States]
           /\ debounceCntr' \in [Indices -> 0 .. Debounce]
           /\ id \in switches => commandedState'[id] = 2 \/ debounceCntr'[0] = 1
<1> USE StationAssumption DEF StationAssumption, TypeOK, States, Indices, Robots
<1>1. \A i \in Indices : debounceCntr[i] \in 0 .. Debounce
  OBVIOUS
<1>2. debounceCntr' \in [Indices -> 0 .. Debounce]
  BY <1>1 DEF ReadInputs, Fires
<1>3. \A t \in States : Toggle(t) \in States
  BY DEF Toggle
<1>4. \A i, t : t \in States => Switched(i, t, pressed, switches) \in States
  BY DEF Switched
<1>5. CASE Fires(0, pressed)
  <2>1. commandedState' = [i \in Indices |-> Toggle(commandedState[0])]
    BY <1>5 DEF ReadInputs
  <2>2. debounceCntr'[0] = 1
    BY <1>5 DEF ReadInputs
  <2>3. Toggle(commandedState[0]) \in States
    BY <1>3
  <2> QED
    BY <1>2, <2>1, <2>2, <2>3
<1>6. CASE ~Fires(0, pressed)
  <2> DEFINE Pushed(i) == IF Fires(i, pressed) THEN Toggle(commandedState[i])
                          ELSE commandedState[i]
  <2>1. commandedState' = [i \in Indices |->
                             IF i = 0 THEN commandedState[i]
                             ELSE Switched(i, Pushed(i), pressed, switches)]
    BY <1>6 DEF ReadInputs
  <2>2. \A i \in Indices : Pushed(i) \in States
    BY <1>3
  <2>3. commandedState' \in [Indices -> States]
    <3> HIDE DEF Pushed
    <3> QED
      BY <2>1, <2>2, <1>4
  <2>4. id \in switches => commandedState'[id] = 2
    <3> HIDE DEF Pushed
    <3> QED
      BY <2>1 DEF Switched
  <2> QED
    BY <1>2, <2>3, <2>4
<1> QED
  BY <1>5, <1>6

\* With the clock of this vehicle an age grows by a tick, up to one beyond its period.
LEMMA OlderByOne ==
    ASSUME NEW t \in Nat, NEW a \in Nat
    PROVE  /\ Vehicle!Older(a, t) \in Nat
           /\ a <= t => Vehicle!Older(a, t) = a + 1
<1>1. ~Vehicle!Lost(a, t)
  BY ChainAssumption DEF ChainAssumption, Vehicle!Lost
<1>2. Vehicle!Older(a, t) = IF a > t THEN a ELSE a + 1
  BY <1>1 DEF Vehicle!Older
<1> QED
  BY <1>2

\* The time that passes in a pass or in silence, for the vehicle and the history.
LEMMA TimeStep ==
    ASSUME IInv, TimePasses
    PROVE  /\ id' = id /\ checked' = FALSE /\ disabled' = disabled
           /\ estopState' = estopState
           /\ publishAge' \in Nat /\ msgAge' \in Nat /\ permitAge' \in Nat
           /\ Permitted => permitAge' = 0
           /\ permitAge' <= permitAge + 1
           /\ HeardRecently'
<1> USE ChainAssumption DEF ChainAssumption, IInv, TypeOK
<1>1. /\ id' = id /\ checked' = FALSE /\ disabled' = disabled
      /\ estopState' = estopState
  BY DEF TimePasses, Vehicle!Tick
<1>2. /\ permitAge' \in Nat /\ permitAge' <= permitAge + 1
      /\ Permitted => permitAge' = 0
  BY DEF TimePasses, Age
<1>3. /\ publishAge' \in Nat /\ msgAge' \in Nat
      /\ msgAge <= FreezeTimeout => msgAge' = msgAge + 1
  BY OlderByOne DEF TimePasses, Vehicle!Tick
<1>4. HeardRecently'
  BY <1>1, <1>2, <1>3 DEF TimePasses, HeardRecently, TimerChecked
<1> QED
  BY <1>1, <1>2, <1>3, <1>4

LEMMA PassStep ==
    ASSUME IInv, StationPass
    PROVE  IInv'
<1> USE StationAssumption DEF StationAssumption
<1>1. PICK pressed \in SUBSET Indices, switches \in SUBSET Robots : Pass(pressed, switches)
  BY DEF StationPass
<1>2. /\ stationOn /\ stationOn' = stationOn
      /\ ReadInputs(pressed, switches)
      /\ cntr' = (cntr + 1) % SendPeriod
      /\ switchOn' = (id \in switches)
      /\ air' = IF cntr' = 0 THEN Entry(commandedState) ELSE NoPacket
      /\ TimePasses
  BY <1>1 DEF Pass, StationLoop
<1>4. /\ commandedState' \in [Indices -> States]
      /\ debounceCntr' \in [Indices -> 0 .. Debounce]
      /\ switchOn' => commandedState'[id] = 2 \/ debounceCntr'[0] = 1
  BY <1>2, InputsStep DEF IInv
<1>5. /\ id' = id /\ checked' = FALSE /\ disabled' = disabled
      /\ estopState' = estopState
      /\ publishAge' \in Nat /\ msgAge' \in Nat /\ permitAge' \in Nat
      /\ Permitted => permitAge' = 0
      /\ permitAge' <= permitAge + 1
      /\ HeardRecently'
  BY <1>2, TimeStep
<1>6. air' \in Int /\ FreshAir'
  <2>1. CASE cntr' = 0 /\ id < NumEntries
    <3>1. air' = commandedState[id] /\ air' \in States
      BY <1>2, <2>1 DEF Entry, IInv, TypeOK, Robots, Indices
    <3> QED
      BY <1>2, <1>5, <2>1, <3>1 DEF FreshAir, IInv, PermitAgeRight, States, TypeOK
  <2>2. CASE cntr' = 0 /\ id = NumEntries
    <3>1. air' = Checksum(commandedState)
      BY <1>2, <2>2 DEF Entry
    <3>2. air' \in Int \ States
      BY <3>1, ChecksumNamesNoState DEF IInv, TypeOK
    <3> QED
      BY <3>2 DEF FreshAir, States
  <2>3. CASE ~(cntr' = 0 /\ id <= NumEntries)
    <3>1. air' = NoPacket
      BY <1>2, <2>3 DEF Entry, IInv, TypeOK, Robots
    <3> QED
      BY <3>1 DEF FreshAir, States, NoPacket
  <2> QED
    BY <2>1, <2>2, <2>3 DEF IInv, TypeOK, Robots
<1>7. TypeOK'
  <2>1. cntr' \in 0 .. SendPeriod - 1
    BY <1>2 DEF IInv, TypeOK
  <2>2. switchOn' \in BOOLEAN
    BY <1>2
  <2> QED
    BY <1>2, <1>4, <1>5, <1>6, <2>1, <2>2 DEF IInv, TypeOK, Switches
<1>8. PermitAgeRight' /\ TimerChecked' /\ StopStands' /\ SwitchSeen' /\ SwitchPrevails'
  BY <1>2, <1>4, <1>5
  DEF IInv, PermitAgeRight, TimerChecked, StopStands, SwitchSeen, SwitchPrevails, Permitted
<1> QED
  BY <1>5, <1>6, <1>7, <1>8 DEF IInv

LEMMA InvStep ==
    ASSUME IInv, [Next]_vars
    PROVE  IInv'
<1> USE StationAssumption, ChainAssumption
    DEF StationAssumption, ChainAssumption, IInv, TypeOK, Switches, PermitAgeRight, FreshAir,
        HeardRecently, TimerChecked, StopStands, SwitchSeen, SwitchPrevails
<1>1. CASE StationPass
  BY <1>1, PassStep DEF StationPass
<1>2. CASE Silence
  <2>1. TimePasses
    BY <1>2 DEF Silence
  <2>2. /\ id' = id /\ checked' = FALSE /\ disabled' = disabled
        /\ estopState' = estopState
        /\ publishAge' \in Nat /\ msgAge' \in Nat /\ permitAge' \in Nat
        /\ permitAge' <= permitAge + 1
        /\ HeardRecently'
    BY <2>1, TimeStep
  <2>3. air = NoPacket
    BY <2>1 DEF TimePasses
  <2>4. Switches'
    BY <1>2, <2>2, Zenon DEF Silence, Switches
  <2>5. /\ commandedState' = commandedState /\ debounceCntr' = debounceCntr
        /\ cntr' = cntr /\ air' = -1
        /\ ~stationOn' /\ switchOn' = switchOn /\ ~stationOn
    BY <1>2, <2>3 DEF Silence, stationVars, NoPacket
  <2>6. FreshAir'
    BY <2>5 DEF States
  <2>7. TypeOK'
    BY <2>2, <2>4, <2>5
  <2>8. PermitAgeRight'
    BY <2>2, <2>5
  <2>9. TimerChecked' /\ StopStands'
    BY <2>2, <2>5
  <2>10. SwitchSeen' /\ SwitchPrevails'
    BY <2>2, <2>5
  <2> QED
    BY <2>2, <2>6, <2>7, <2>8, <2>9, <2>10
<1>3. CASE StationOff
  BY <1>3 DEF StationOff, stationVars, airVars, vehicleVars
<1>4. CASE StationStart
  BY <1>4 DEF StationStart, airVars, vehicleVars, States, Robots, Indices
<1>5. CASE PacketLost
  BY <1>5 DEF PacketLost, stationVars, vehicleVars, NoPacket, States
<1>6. CASE PacketReceived
  <2>1. CASE air \in States /\ Vehicle!Accept(StateName[air], 0)
    <3>1. StateName[air] \in Vehicle!EstopStates /\ (StateName[air] = "RUN" => air = 0)
      BY <2>1 DEF StateName, States, Vehicle!EstopStates
    <3> QED
      BY <1>6, <2>1, <3>1
      DEF PacketReceived, Vehicle!Accept, stationVars, NoPacket, States
  <2>2. CASE UNCHANGED vehicleVars
    BY <1>6, <2>2 DEF PacketReceived, stationVars, vehicleVars, NoPacket, States
  <2> QED
    BY <1>6, <2>1, <2>2 DEF PacketReceived
<1>7. CASE VehiclePass
  <2>1. CASE Vehicle!Report(0)
    <3>1. Vehicle!FreezeDue(0) <=> msgAge > FreezeTimeout
      BY DEF Vehicle!FreezeDue, Vehicle!Due, Vehicle!SumWraps
    <3> QED
      BY <1>7, <2>1, <3>1
      DEF VehiclePass, Vehicle!Report, Vehicle!EstopStates, stationVars
  <2>2. CASE disabled /\ UNCHANGED vehicleVars
    BY <1>7, <2>2 DEF VehiclePass, vehicleVars, stationVars
  <2> QED
    BY <1>7, <2>1, <2>2 DEF VehiclePass
<1>8. CASE VehicleInput
  <2>1. Switches'
    BY <1>8, Zenon DEF VehicleInput, Vehicle!EstopInput, Switches, airVars
  <2> QED
    BY <1>8, <2>1 DEF VehicleInput, Vehicle!EstopInput, Vehicle!EstopStates, stationVars, airVars
<1>9. CASE VehicleStart
  <2>1. Switches'
    BY <1>9, Zenon DEF VehicleStart, Switches, airVars
  <2> QED
    BY <1>9, <2>1 DEF VehicleStart, Vehicle!EstopStates, stationVars, airVars
<1>10. CASE UNCHANGED vars
  BY <1>10 DEF vars, stationVars, airVars, vehicleVars
<1> QED
  BY <1>1, <1>2, <1>3, <1>4, <1>5, <1>6, <1>7, <1>8, <1>9, <1>10 DEF Next

-----------------------------------------------------------------------------
LEMMA Invariance == Spec => []IInv
  BY InvInit, InvStep, PTL DEF Spec

\* A vehicle that runs was permitted to, by the station or by being started, no longer
\* ago than the silence it tolerates and one pass (main.c:506-555, 662;
\* Estop/main.c:276-291).
THEOREM PermissionIsRecent == Spec => []RunIsRecent
<1>1. IInv => RunIsRecent
  BY ChainAssumption
  DEF ChainAssumption, IInv, TypeOK, HeardRecently, TimerChecked, RunIsRecent
<1> QED
  BY <1>1, Invariance, PTL

\* The switch of a robot shows in its commanded state, whatever buttons are pressed,
\* but for the pass in which the master button has fired (Estop/main.c:206-262).
THEOREM SwitchPrevailsAlways == Spec => []SwitchPrevails
<1>1. IInv => SwitchPrevails
  BY DEF IInv
<1> QED
  BY <1>1, Invariance, PTL

\* A robot beyond the entries of the packet, which reads the checksum or nothing, does
\* not leave FREEZE or DISABLE for RUN unless it is started again (main.c:519-523).
THEOREM NeverRunsUncovered == Spec => UncoveredStaysStopped
<1>1. ASSUME IInv, [Next]_vars, id >= NumEntries, estopState # "RUN", estopState' = "RUN"
      PROVE  VehicleStart
  <2>1. ~(air \in States)
    BY <1>1, StationAssumption DEF StationAssumption, IInv, FreshAir, TypeOK, Robots
  <2> QED
    BY <1>1, <2>1
    DEF Next, StationPass, Pass, Silence, TimePasses, Vehicle!Tick, StationOff,
        StationStart, PacketLost, PacketReceived, VehiclePass, Vehicle!Report,
        VehicleInput, Vehicle!EstopInput, vars, vehicleVars
<1>2. IInv /\ [Next]_vars
      => [id >= NumEntries /\ estopState # "RUN" /\ estopState' = "RUN" => VehicleStart]_vars
  BY <1>1
<1> QED
  BY <1>2, Invariance, PTL DEF Spec, UncoveredStaysStopped

-----------------------------------------------------------------------------
(* The clock the silence is measured with: module GlobalTimer, for every   *)
(* width of TCNT3 and every number of bytes, until globalTimer wraps.      *)

CONSTANTS HwMod, Base, Digits, FreezeTicks, MaxNow
VARIABLES now, tcnt3, tov3, globalTimer, reader, next, temp, ticked, torn,
          newEstopTime, estopTimeout, lastMessage, messageOff, freeze

Clock == INSTANCE GlobalTimer WITH FreezeTimeout <- FreezeTicks

W == Clock!Weight

\* Until then the time and the time of a freeze fit into globalTimer, even
\* with an error of all bytes but the highest (all but the last
\* five of 1145 minutes).
BeforeWrap ==
    /\ Clock!TimerAssumption
    /\ MaxNow + FreezeTicks + W[Digits - 1] <= W[Digits]

\* w holds what a unit of the first n bytes is worth.
IsWeight(w, n) == w = [i \in 0 .. n |-> IF i = 0 THEN 1 ELSE Base * w[i - 1]]

LEMMA WeightExists ==
    ASSUME NEW N \in Nat
    PROVE  \E w : IsWeight(w, N)
<1> DEFINE T == {n \in Nat : ~ \E w : IsWeight(w, n)}
<1>1. CASE T = {}
  BY <1>1
<1>2. CASE T # {}
  <2>1. PICK n \in T : \A m \in T : n <= m
    BY <1>2, LeastElement
  <2>2. CASE n = 0
    <3>1. IsWeight([i \in 0 .. 0 |-> 1], 0)
      BY DEF IsWeight
    <3> QED
      BY <2>1, <2>2, <3>1
  <2>3. CASE n # 0
    <3>1. n - 1 \in Nat /\ n - 1 \notin T
      BY <2>1, <2>3
    <3>2. PICK w : IsWeight(w, n - 1)
      BY <3>1
    <3> DEFINE v == [i \in 0 .. n |-> IF i = n THEN Base * w[n - 1] ELSE w[i]]
    <3>3. \A i \in 0 .. n - 1 : v[i] = w[i]
      BY <2>1
    <3>4. \A i \in 0 .. n : v[i] = IF i = 0 THEN 1 ELSE Base * v[i - 1]
      <4> TAKE i \in 0 .. n
      <4>1. CASE i = n
        BY <4>1, <2>3, <3>1, <3>3
      <4>2. CASE i # n
        <5>1. i \in 0 .. n - 1 /\ (i # 0 => i - 1 \in 0 .. n - 1)
          BY <4>2, <2>1
        <5>2. w[i] = IF i = 0 THEN 1 ELSE Base * w[i - 1]
          BY <5>1, <3>2 DEF IsWeight
        <5> QED
          BY <5>1, <5>2, <3>3
      <4> QED
        BY <4>1, <4>2
    <3>5. IsWeight(v, n)
      <4> HIDE DEF v
      <4>1. v = [i \in 0 .. n |-> v[i]]
        BY DEF v
      <4> QED
        BY <4>1, <3>4, Zenon DEF IsWeight
    <3> QED
      BY <2>1, <3>5
  <2> QED
    BY <2>2, <2>3
<1> QED
  BY <1>1, <1>2

LEMMA WeightOfByte ==
    ASSUME Clock!TimerAssumption
    PROVE  /\ \A i \in 0 .. Digits : W[i] = IF i = 0 THEN 1 ELSE Base * W[i - 1]
           /\ \A i \in 0 .. Digits : W[i] \in Nat \ {0}
<1>0. Digits \in Nat \ {0} /\ Base \in Nat /\ Base >= 2
  BY DEF Clock!TimerAssumption
<1>1. W = CHOOSE w : IsWeight(w, Digits)
  BY DEF W, Clock!Weight, IsWeight
<1>2. IsWeight(W, Digits)
  BY <1>0, <1>1, WeightExists
<1>3. \A i \in 0 .. Digits : W[i] = IF i = 0 THEN 1 ELSE Base * W[i - 1]
  BY <1>2 DEF IsWeight
<1> DEFINE T == {i \in 0 .. Digits : W[i] \notin Nat \ {0}}
<1>4. CASE T # {}
  <2>1. PICK i \in T : \A j \in T : i <= j
    <3> T \in SUBSET Nat
      BY <1>0
    <3> QED
      BY <1>4, LeastElement
  <2>2. CASE i = 0
    BY <2>1, <2>2, <1>3
  <2>3. CASE i # 0
    <3>1. i \in 0 .. Digits /\ i - 1 \in 0 .. Digits /\ ~(i <= i - 1)
      BY <2>1, <2>3, <1>0
    <3>2. W[i - 1] \in Nat \ {0}
      BY <2>1, <3>1
    <3>3. W[i] = Base * W[i - 1]
      BY <2>3, <3>1, <1>3
    <3>4. Base * W[i - 1] \in Nat \ {0}
      <4> DEFINE w == W[i - 1]
      <4>1. w \in Nat /\ w >= 1
        BY <3>2
      <4> HIDE DEF w
      <4>2. Base * w >= 1 /\ Base * w \in Nat
        BY <4>1, <1>0
      <4> QED
        BY <4>2 DEF w
    <3> QED
      BY <2>1, <3>3, <3>4
  <2> QED
    BY <2>2, <2>3
<1>5. CASE T = {}
  BY <1>5, <1>3
<1> QED
  BY <1>4, <1>5

\* No byte but the last is worth more than the last.
LEMMA WeightOrdered ==
    ASSUME Clock!TimerAssumption
    PROVE  \A i \in 0 .. Digits - 1 : W[i] <= W[Digits - 1]
<1>0. Digits \in Nat \ {0} /\ Base \in Nat /\ Base >= 2
  BY DEF Clock!TimerAssumption
<1> DEFINE last == Digits - 1
           T == {k \in 0 .. last : ~(W[last - k] <= W[last])}
<1>1. CASE T # {}
  <2>1. PICK k \in T : \A j \in T : k <= j
    <3> T \in SUBSET Nat
      BY <1>0
    <3> QED
      BY <1>1, LeastElement
  <2>2. k \in 0 .. last /\ ~(W[last - k] <= W[last]) /\ last \in 0 .. Digits
    BY <2>1, <1>0
  <2>3. k # 0
    <3>1. W[last] \in Nat
      BY <2>2, WeightOfByte
    <3> QED
      BY <2>2, <3>1, <1>0
  <2>4. k - 1 \in 0 .. last /\ ~(k <= k - 1) /\ k - 1 \notin T
    BY <2>1, <2>2, <2>3, <1>0
  <2> DEFINE a == last - k
  <2>5. a \in 0 .. Digits /\ a + 1 \in 0 .. Digits /\ last - (k - 1) = a + 1 /\ (a + 1) - 1 = a
    BY <2>2, <2>4, <1>0
  <2>6. W[a + 1] <= W[last]
    BY <2>4, <2>5
  <2>7. W[a + 1] = Base * W[a] /\ W[a] \in Nat \ {0} /\ W[last] \in Nat
    BY <2>2, <2>5, WeightOfByte
  <2>8. W[a] <= Base * W[a]
    <3> DEFINE w == W[a]
    <3>1. w \in Nat
      BY <2>7
    <3> HIDE DEF w
    <3>2. w <= Base * w
      BY <3>1, <1>0
    <3> QED
      BY <3>2 DEF w
  <2>9. W[a] <= W[last]
    <3> DEFINE x == Base * W[a]
    <3>1. x \in Int
      BY <2>7, <1>0
    <3> QED
      BY <2>6, <2>7, <2>8, <3>1
  <2> QED
    BY <2>2, <2>9
<1>2. CASE T = {}
  <2> TAKE i \in 0 .. Digits - 1
  <2>1. last - i \in 0 .. last /\ last - (last - i) = i
    BY <1>0
  <2> QED
    BY <1>2, <2>1
<1> QED
  BY <1>1, <1>2

\* Quotients and remainders.
LEMMA DivMod ==
    ASSUME NEW a \in Nat, NEW n \in Nat \ {0}
    PROVE  /\ a \div n \in Nat /\ a % n \in 0 .. n - 1
           /\ a = n * (a \div n) + (a % n)
<1>1. a \div n \in Nat /\ a % n \in 0 .. n - 1
  OBVIOUS
<1>2. a = n * (a \div n) + (a % n)
  OBVIOUS
<1> QED
  BY <1>1, <1>2

LEMMA SmallMultiple ==
    ASSUME NEW n \in Nat \ {0}, NEW x \in Int, n * x < n, n * x > -n
    PROVE  x = 0
<1>1. CASE x >= 1
  <2>1. n * x >= n
    BY <1>1
  <2> QED
    BY <2>1
<1>2. CASE x <= -1
  <2>1. n * x <= -n
    BY <1>2
  <2> QED
    BY <2>1
<1> QED
  BY <1>1, <1>2

LEMMA ModUnique ==
    ASSUME NEW n \in Nat \ {0}, NEW a \in Nat, NEW q \in Int, NEW r \in 0 .. n - 1,
           a = n * q + r
    PROVE  a % n = r
<1>1. a = n * (a \div n) + (a % n) /\ a \div n \in Nat /\ a % n \in 0 .. n - 1
  BY DivMod
<1>2. n * (q - a \div n) = (a % n) - r
  BY <1>1
<1>3. q - a \div n = 0
  BY <1>1, <1>2, SmallMultiple
<1> QED
  BY <1>1, <1>2, <1>3

\* What the first bytes of a number are worth.
LEMMA NextByte ==
    ASSUME Clock!TimerAssumption, NEW k \in 0 .. Digits - 1, NEW g \in Nat
    PROVE  g % W[k + 1] = (g % W[k]) + Clock!Byte(g, k) * W[k]
<1> DEFINE p == W[k]
           q == g \div p
           r == g % p
           d == q % Base
           e == q \div Base
<1>0. Digits \in Nat \ {0} /\ Base \in Nat \ {0}
  BY DEF Clock!TimerAssumption
<1>1. p \in Nat \ {0} /\ W[k + 1] = Base * p
  <2>1. k \in 0 .. Digits /\ k + 1 \in 0 .. Digits /\ k + 1 # 0 /\ (k + 1) - 1 = k
    BY <1>0
  <2> QED
    BY <2>1, WeightOfByte
<1>2. Clock!Byte(g, k) = d
  BY DEF Clock!Byte, W
<1> HIDE DEF p
<1>3. q \in Nat /\ r \in 0 .. p - 1 /\ g = p * q + r
  BY <1>1, DivMod
<1> HIDE DEF q, r
<1>4. e \in Nat /\ d \in 0 .. Base - 1 /\ q = Base * e + d
  BY <1>0, <1>3, DivMod
<1> HIDE DEF d, e
<1>5. g = (Base * p) * e + (d * p + r)
  <2>1. p * (Base * e + d) = (Base * p) * e + d * p
    BY <1>0, <1>1, <1>4
  <2> QED
    BY <2>1, <1>0, <1>1, <1>3, <1>4
<1>6. d * p + r \in 0 .. Base * p - 1
  <2>1. d * p >= 0 /\ d * p \in Nat
    BY <1>1, <1>4
  <2>2. d * p <= (Base - 1) * p
    BY <1>0, <1>1, <1>4
  <2>3. (Base - 1) * p = Base * p - p
    BY <1>0, <1>1
  <2>4. Base * p \in Nat
    BY <1>0, <1>1
  <2> QED
    BY <2>1, <2>2, <2>3, <2>4, <1>1, <1>3
<1>7. Base * p \in Nat \ {0}
  BY <1>0, <1>1
<1>8. g % (Base * p) = d * p + r
  <2> DEFINE n == Base * p
             s == d * p + r
  <2>1. n \in Nat \ {0} /\ s \in 0 .. n - 1 /\ g = n * e + s /\ e \in Int
    BY <1>4, <1>5, <1>6, <1>7
  <2> HIDE DEF n, s
  <2>2. g % n = s
    BY <2>1, ModUnique
  <2> QED
    BY <2>2 DEF n, s
<1>9. g % W[k] = r /\ Clock!Byte(g, k) * W[k] = d * p
  BY <1>2 DEF p, r
<1>10. d * p + r = r + d * p
  BY <1>1, <1>3, <1>4
<1> QED
  BY <1>1, <1>8, <1>9, <1>10

\* One tick in the quotient and the remainder.
LEMMA NextTick ==
    ASSUME NEW n \in Nat \ {0}, NEW a \in Nat
    PROVE  IF ((a % n) + 1) % n = 0
           THEN a % n = n - 1 /\ (a + 1) % n = 0 /\ (a + 1) \div n = (a \div n) + 1
           ELSE /\ (a + 1) % n = (a % n) + 1 /\ (a + 1) \div n = a \div n
                /\ ((a % n) + 1) % n = (a % n) + 1
<1> DEFINE q == a \div n
           r == a % n
           p == (a + 1) \div n
           s == (a + 1) % n
<1>1. q \in Nat /\ r \in 0 .. n - 1 /\ a = n * q + r
  BY DivMod
<1>2. p \in Nat /\ s \in 0 .. n - 1 /\ a + 1 = n * p + s
  <2> DEFINE b == a + 1
  <2>1. b \in Nat
    OBVIOUS
  <2> HIDE DEF b
  <2>2. b \div n \in Nat /\ b % n \in 0 .. n - 1 /\ b = n * (b \div n) + (b % n)
    BY <2>1, DivMod
  <2> QED
    BY <2>2 DEF b
<1>3. CASE r = n - 1
  <2>1. a + 1 = n * (q + 1) + 0 /\ q + 1 \in Int /\ 0 \in 0 .. n - 1
    <3> HIDE DEF q, r
    <3> QED
      BY <1>1, <1>3
  <2>2. s = 0
    <3> DEFINE x == q + 1
    <3>1. x \in Int /\ a + 1 = n * x + 0 /\ a + 1 \in Nat
      BY <2>1
    <3> HIDE DEF x
    <3> QED
      BY <3>1, <2>1, ModUnique
  <2>3. n * (p - (q + 1)) = 0
    <3> HIDE DEF q, p, r, s
    <3> QED
      BY <2>1, <2>2, <1>1, <1>2
  <2>4. p = q + 1
    <3> HIDE DEF q, p, r, s
    <3>1. p - (q + 1) = 0
      BY <2>3, <1>1, <1>2, SmallMultiple
    <3> QED
      BY <3>1, <1>1, <1>2
  <2>5. (r + 1) % n = 0
    <3>1. r + 1 = n * 1 + 0 /\ r + 1 \in Nat
      BY <1>1, <1>3
    <3> HIDE DEF r
    <3> QED
      BY <3>1, ModUnique
  <2> QED
    BY <2>2, <2>4, <2>5, <1>3
<1>4. CASE r # n - 1
  <2>1. r + 1 \in 0 .. n - 1 /\ r + 1 \in Nat
    BY <1>1, <1>4
  <2>2. a + 1 = n * q + (r + 1) /\ a + 1 \in Nat
    BY <1>1
  <2>3. s = r + 1
    <3> DEFINE x == r + 1
    <3>1. x \in 0 .. n - 1 /\ a + 1 = n * q + x /\ q \in Int
      BY <2>1, <2>2, <1>1
    <3> HIDE DEF x
    <3>2. (a + 1) % n = x
      BY <3>1, <2>2, ModUnique
    <3> QED
      BY <3>2 DEF x
  <2>4. p = q
    <3> HIDE DEF q, p, r, s
    <3>1. n * (p - q) = 0
      BY <2>2, <2>3, <1>1, <1>2
    <3>2. p - q = 0
      BY <3>1, <1>1, <1>2, SmallMultiple
    <3> QED
      BY <3>2, <1>1, <1>2
  <2>5. (r + 1) % n = r + 1
    <3> DEFINE x == r + 1
    <3>1. x \in 0 .. n - 1 /\ x = n * 0 + x /\ x \in Nat
      BY <2>1
    <3> HIDE DEF x
    <3>2. x % n = x
      BY <3>1, ModUnique
    <3> QED
      BY <3>2 DEF x
  <2> QED
    BY <2>3, <2>4, <2>5, <2>1
<1> QED
  BY <1>3, <1>4

-----------------------------------------------------------------------------
ClockTypes ==
    /\ now \in 0 .. MaxNow /\ tcnt3 \in 0 .. HwMod - 1 /\ globalTimer \in Nat
    /\ reader \in {"none", "loop", "message"}
    /\ next \in 0 .. Digits /\ temp \in Nat /\ torn \in 0 .. Digits - 1
    /\ lastMessage \in 0 .. now /\ estopTimeout \in Nat
    /\ messageOff \in 0 .. W[Digits - 1] - 1

\* globalTimer and TCNT3 have lost a tick in every overflow, and a period that
\* the interrupt has still to add.
ClockRight ==
    /\ tcnt3 = now % HwMod
    /\ globalTimer = now - tcnt3 - now \div HwMod - (IF tov3 THEN HwMod - 1 ELSE 0)
    /\ tov3 => tcnt3 = 0

\* A reading takes less than a tick, so the interrupt runs within it only once.
Served == ~tov3 /\ (ticked \/ tcnt3 = 0)

\* The interrupt has not run since the first byte, has run between two bytes,
\* or after the last.
ReadWhole == torn = 0 /\ temp = globalTimer % W[next]
ReadTorn  ==
    /\ Served /\ torn \in 1 .. next
    /\ temp - (globalTimer % W[next]) \in -(HwMod - 1) .. W[torn] - 1
ReadLate  == Served /\ next = Digits /\ torn = 0 /\ temp = globalTimer - (HwMod - 1)

ReadSoFar ==
    IF reader = "none" THEN next = 0 /\ temp = 0 /\ torn = 0
                       ELSE ReadWhole \/ ReadTorn \/ ReadLate

\* The time t was read at the time now, ahead by at most off.
Measures(t, at, off) ==
    t \in at - at \div HwMod - (HwMod - 1) .. at - at \div HwMod + off

MessageMeasured == Measures(estopTimeout, lastMessage, messageOff)

ClockInv == ClockTypes /\ ClockRight /\ ReadSoFar /\ MessageMeasured

\* The numbers the proofs below need of the assumption.
LEMMA ClockNumbers ==
    ASSUME BeforeWrap
    PROVE  /\ HwMod \in Nat /\ HwMod >= 2 /\ MaxNow \in Nat /\ FreezeTicks \in Nat
           /\ Digits \in Nat \ {0} /\ W[0] = 1
           /\ \A i \in 0 .. Digits : W[i] \in Nat \ {0}
           /\ \A i \in 0 .. Digits - 1 : W[i] <= W[Digits - 1]
           /\ Clock!Mod = W[Digits]
<1>1. Clock!TimerAssumption
  BY DEF BeforeWrap
<1>2. W[0] = 1
  <2>1. 0 \in 0 .. Digits
    BY <1>1 DEF Clock!TimerAssumption
  <2> QED
    BY <1>1, <2>1, WeightOfByte
<1> QED
  BY <1>1, <1>2, WeightOfByte, WeightOrdered DEF Clock!TimerAssumption, Clock!Mod, W

\* A number below n is its own remainder.
LEMMA SmallRemainder ==
    ASSUME NEW n \in Nat \ {0}, NEW r \in 0 .. n - 1
    PROVE  r % n = r
<1>1. r = n * 0 + r /\ r \in Nat
  OBVIOUS
<1> QED
  BY <1>1, ModUnique

\* A remainder grows by no more than the number.
LEMMA RemainderGrows ==
    ASSUME NEW n \in Nat \ {0}, NEW a \in Nat, NEW d \in Nat
    PROVE  (a + d) % n <= (a % n) + d
<1> DEFINE q == a \div n
           r == (a % n) + d
           p == r \div n
           s == r % n
<1>1. q \in Nat /\ r \in Nat /\ a + d = n * q + r
  BY DivMod
<1> HIDE DEF q, r
<1>2. p \in Nat /\ s \in 0 .. n - 1 /\ r = n * p + s
  BY <1>1, DivMod
<1> HIDE DEF p, s
<1>3. n * p \in Nat /\ n * (q + p) = n * q + n * p
  BY <1>1, <1>2
<1>4. s <= r
  BY <1>2, <1>3
<1>5. (a + d) % n = s
  <2> DEFINE x == a + d
             z == q + p
  <2>1. x \in Nat /\ z \in Int /\ x = n * z + s
    BY <1>1, <1>2, <1>3
  <2> HIDE DEF x, z
  <2>2. x % n = s
    BY <2>1, <1>2, ModUnique
  <2> QED
    BY <2>2 DEF x
<1> QED
  BY <1>4, <1>5 DEF r

LEMMA ClockInit == ASSUME BeforeWrap, Clock!Init PROVE ClockInv
<1> USE DEF Clock!Init
<1>0. HwMod \in Nat \ {0} /\ HwMod >= 2 /\ Digits \in Nat \ {0} /\ W[0] = 1
  BY ClockNumbers
<1>1. ClockTypes
  <2>1. Digits - 1 \in 0 .. Digits
    BY <1>0
  <2>2. W[Digits - 1] \in Nat \ {0}
    BY <2>1, ClockNumbers
  <2> QED
    BY <2>2, ClockNumbers DEF ClockTypes
<1>2. 0 % HwMod = 0 /\ 0 \div HwMod = 0
  <2>1. 0 % HwMod = 0
    BY <1>0, SmallRemainder
  <2>2. 0 = HwMod * (0 \div HwMod) + (0 % HwMod) /\ 0 \div HwMod \in Nat
    BY <1>0, DivMod
  <2> DEFINE q == 0 \div HwMod
  <2> HIDE DEF q
  <2>3. HwMod * q = 0 /\ q \in Nat
    BY <1>0, <2>1, <2>2 DEF q
  <2>4. q = 0
    BY <1>0, <2>3, SmallMultiple
  <2> QED
    BY <2>1, <2>4 DEF q
<1>3. ClockRight
  BY <1>0, <1>2 DEF ClockRight
<1>4. ReadSoFar
  BY DEF ReadSoFar
<1>5. MessageMeasured
  BY <1>0, <1>2 DEF MessageMeasured, Measures
<1> QED
  BY <1>1, <1>3, <1>4, <1>5 DEF ClockInv

LEMMA TickStep == ASSUME BeforeWrap, ClockInv, Clock!Tick PROVE ClockInv'
<1>0. /\ HwMod \in Nat \ {0} /\ HwMod >= 2 /\ MaxNow \in Nat
      /\ now \in Nat /\ tcnt3 = now % HwMod
  BY ClockNumbers DEF ClockInv, ClockTypes, ClockRight
<1>1. IF (tcnt3 + 1) % HwMod = 0
      THEN /\ tcnt3 = HwMod - 1 /\ (now + 1) % HwMod = 0
           /\ (now + 1) \div HwMod = (now \div HwMod) + 1
      ELSE /\ (now + 1) % HwMod = tcnt3 + 1 /\ (now + 1) \div HwMod = now \div HwMod
           /\ (tcnt3 + 1) % HwMod = tcnt3 + 1
  BY <1>0, NextTick
<1>2. now \div HwMod \in Nat
  BY <1>0, DivMod
<1>3. (tcnt3 + 1) % HwMod \in 0 .. HwMod - 1
  BY <1>0, DivMod DEF ClockInv, ClockTypes
<1>4. ClockTypes'
  BY <1>0, <1>3 DEF ClockInv, ClockTypes, Clock!Tick, Clock!estop
<1>5. ClockRight'
  <2>1. now' = now + 1 /\ tcnt3' = (tcnt3 + 1) % HwMod /\ tov3' = (tcnt3' = 0)
        /\ ~tov3 /\ globalTimer' = globalTimer
    BY DEF Clock!Tick
  <2>2. tcnt3 \in Nat /\ globalTimer \in Nat
    BY DEF ClockInv, ClockTypes
  <2>3. globalTimer = now - tcnt3 - now \div HwMod - 0
    BY <2>1 DEF ClockInv, ClockRight
  <2>4. CASE (tcnt3 + 1) % HwMod = 0
    <3>1. globalTimer = (now + 1) - 0 - ((now \div HwMod) + 1) - (HwMod - 1)
      BY <1>0, <1>1, <1>2, <2>2, <2>3, <2>4
    <3> QED
      BY <1>1, <2>1, <2>4, <3>1 DEF ClockRight
  <2>5. CASE (tcnt3 + 1) % HwMod # 0
    <3>1. globalTimer = (now + 1) - (tcnt3 + 1) - (now \div HwMod) - 0
      BY <1>0, <1>2, <2>2, <2>3
    <3> QED
      BY <1>1, <2>1, <2>5, <3>1 DEF ClockRight
  <2> QED
    BY <2>4, <2>5
<1>6. ReadSoFar'
  <2>1. UNCHANGED <<globalTimer, reader, next, temp, torn>> /\ ~ticked /\ ~tov3
    BY DEF Clock!Tick
  <2>2. CASE reader = "none" \/ ReadWhole
    BY <2>1, <2>2 DEF ClockInv, ReadSoFar, ReadWhole
  <2>3. CASE reader # "none" /\ (ReadTorn \/ ReadLate)
    <3>1. tcnt3 = 0
      BY <2>1, <2>3 DEF ReadTorn, ReadLate, Served
    <3>2. (tcnt3 + 1) % HwMod = 1
      <4>1. 1 \in 0 .. HwMod - 1 /\ tcnt3 + 1 = 1
        BY <3>1, <1>0
      <4> QED
        BY <4>1, <1>0, SmallRemainder
    <3>3. Served'
      <4>1. tcnt3' # 0 /\ tov3' = (tcnt3' = 0) /\ ticked' = (reader # "none")
        BY <3>2 DEF Clock!Tick
      <4> QED
        BY <2>3, <4>1, Zenon DEF Served
    <3> QED
      BY <2>1, <2>3, <3>3 DEF ReadSoFar, ReadTorn, ReadLate
  <2> QED
    BY <2>2, <2>3 DEF ClockInv, ReadSoFar
<1>7. MessageMeasured'
  BY DEF ClockInv, MessageMeasured, Measures, Clock!Tick, Clock!estop
<1> QED
  BY <1>4, <1>5, <1>6, <1>7 DEF ClockInv

LEMMA OverflowStep ==
    ASSUME BeforeWrap, ClockInv, Clock!GlobalTimerOverflow
    PROVE  ClockInv'
<1>0. /\ HwMod \in Nat \ {0} /\ Digits \in Nat \ {0} /\ now \in 0 .. MaxNow
      /\ MaxNow \in Nat /\ FreezeTicks \in Nat
  BY ClockNumbers DEF ClockInv, ClockTypes
<1>1. /\ tov3 /\ ~tov3' /\ torn' = next % Digits /\ tcnt3 = 0 /\ globalTimer \in Nat
      /\ globalTimer' = (globalTimer + HwMod - 1) % W[Digits]
      /\ UNCHANGED <<now, tcnt3, reader, next, temp, ticked>>
      /\ UNCHANGED <<estopTimeout, lastMessage, messageOff>>
  BY ClockNumbers DEF ClockInv, ClockTypes, ClockRight, Clock!GlobalTimerOverflow,
     Clock!AddPeriod, Clock!estop
<1>2. now \div HwMod \in Nat
  BY <1>0, DivMod
<1>3. globalTimer + (HwMod - 1) = now - now \div HwMod
  <2>1. globalTimer = now - tcnt3 - now \div HwMod - (HwMod - 1)
    BY <1>1 DEF ClockInv, ClockRight
  <2> QED
    BY <1>0, <1>1, <1>2, <2>1
<1>4. globalTimer' = globalTimer + (HwMod - 1)
  <2> DEFINE g == globalTimer + HwMod - 1
  <2>0. Digits \in 0 .. Digits /\ Digits - 1 \in 0 .. Digits
    BY <1>0
  <2>1. /\ W[Digits] \in Nat \ {0} /\ W[Digits - 1] \in Nat \ {0}
        /\ MaxNow + FreezeTicks + W[Digits - 1] <= W[Digits]
    BY <2>0, ClockNumbers DEF BeforeWrap
  <2>2. g \in 0 .. W[Digits] - 1 /\ g = globalTimer + (HwMod - 1)
    BY <1>0, <1>1, <1>2, <1>3, <2>1
  <2> HIDE DEF g
  <2>3. g % W[Digits] = g
    BY <2>1, <2>2, SmallRemainder
  <2> QED
    BY <1>1, <2>2, <2>3 DEF g
<1>5. torn' = IF next = Digits THEN 0 ELSE next
  <2>1. next \in 0 .. Digits
    BY DEF ClockInv, ClockTypes
  <2>2. CASE next = Digits
    <3>1. next = Digits * 1 + 0 /\ next \in Nat /\ 0 \in 0 .. Digits - 1
      BY <1>0, <2>2
    <3>2. next % Digits = 0
      BY <3>1, <1>0, ModUnique
    <3> QED
      BY <1>1, <2>2, <3>2
  <2>3. CASE next # Digits
    <3>1. next \in 0 .. Digits - 1
      BY <1>0, <2>1, <2>3
    <3> QED
      BY <1>0, <1>1, <2>3, <3>1, SmallRemainder
  <2> QED
    BY <2>2, <2>3
<1>6. ClockTypes'
  BY <1>0, <1>1, <1>4, <1>5 DEF ClockInv, ClockTypes
<1>7. ClockRight'
  BY <1>0, <1>1, <1>2, <1>3, <1>4 DEF ClockInv, ClockRight
<1>8. ReadSoFar'
  <2>1. CASE reader = "none"
    BY <1>0, <1>1, <1>5, <2>1 DEF ClockInv, ReadSoFar
  <2>2. CASE reader # "none"
    <3>1. ReadWhole /\ next \in 0 .. Digits /\ temp \in Nat
      BY <1>1, <2>2 DEF ClockInv, ClockTypes, ReadSoFar, ReadTorn, ReadLate, Served
    <3>2. Served'
      BY <1>1 DEF Served
    <3>3. W[next] \in Nat \ {0} /\ next' = next /\ temp = globalTimer % W[next]
      BY <1>1, <3>1, ClockNumbers DEF ReadWhole
    <3>4. CASE next = 0
      <4>1. W[next] = 1
        BY <3>4, ClockNumbers
      <4>2. globalTimer % 1 = 0 /\ globalTimer' % 1 = 0
        <5>1. globalTimer' \in Nat
          BY <1>6 DEF ClockTypes
        <5>2. globalTimer % 1 \in 0 .. 0 /\ globalTimer' % 1 \in 0 .. 0
          BY <1>1, <5>1
        <5> QED
          BY <5>2
      <4>3. ReadWhole'
        BY <1>0, <1>1, <1>5, <3>3, <3>4, <4>1, <4>2 DEF ReadWhole
      <4> QED
        BY <4>3, <1>1, <2>2 DEF ReadSoFar
    <3>5. CASE next = Digits
      <4>1. globalTimer \in 0 .. W[Digits] - 1
        <5>1. Digits - 1 \in 0 .. Digits
          BY <1>0
        <5>2. W[Digits - 1] \in Nat \ {0}
          BY <5>1, ClockNumbers
        <5>3. MaxNow + FreezeTicks + W[Digits - 1] <= W[Digits]
          BY DEF BeforeWrap
        <5> QED
          BY <5>2, <5>3, <3>3, <3>5, <1>0, <1>1, <1>2, <1>3
      <4>2. temp = globalTimer
        BY <3>3, <3>5, <4>1, SmallRemainder
      <4>3. temp' = globalTimer' - (HwMod - 1)
        BY <1>0, <1>1, <1>4, <4>2
      <4>4. ReadLate'
        BY <1>1, <1>5, <3>2, <3>5, <4>3 DEF ReadLate
      <4> QED
        BY <4>4, <1>1, <2>2 DEF ReadSoFar
    <3>6. CASE next \in 1 .. Digits - 1
      <4> DEFINE n == W[next]
                 x == globalTimer' % n
      <4>1. globalTimer' \in Nat
        BY <1>6 DEF ClockTypes
      <4>2. n \in Nat \ {0} /\ temp \in 0 .. n - 1 /\ x \in 0 .. n - 1
        <5>1. n \in Nat \ {0} /\ temp = globalTimer % n
          BY <3>3
        <5> HIDE DEF n
        <5> QED
          BY <1>1, <4>1, <5>1, DivMod
      <4>3. torn' = next /\ W[torn'] = n /\ W[next'] = n /\ temp' = temp
        BY <1>0, <1>1, <1>5, <3>6
      <4>4. temp - x \in -(HwMod - 1) .. n - 1
        <5>1. temp = globalTimer % n
          BY <3>3
        <5>2. HwMod - 1 \in Nat
          BY <1>0
        <5> HIDE DEF n
        <5>3. (globalTimer + (HwMod - 1)) % n <= (globalTimer % n) + (HwMod - 1)
          BY <4>2, <5>2, <1>1, RemainderGrows
        <5>4. x <= temp + (HwMod - 1)
          BY <5>1, <5>3, <1>4
        <5> HIDE DEF x
        <5> QED
          BY <4>2, <5>2, <5>4
      <4>5. ReadTorn'
        <5>1. temp' - (globalTimer' % W[next']) \in -(HwMod - 1) .. W[torn'] - 1
          <6> HIDE DEF n
          <6> QED
            BY <4>3, <4>4
        <5>2. torn' \in 1 .. next'
          BY <1>1, <3>6, <4>3
        <5> QED
          BY <5>1, <5>2, <3>2 DEF ReadTorn
      <4> QED
        BY <4>5, <1>1, <2>2 DEF ReadSoFar
    <3> QED
      BY <3>1, <3>4, <3>5, <3>6, <1>0
  <2> QED
    BY <2>1, <2>2
<1>9. MessageMeasured'
  BY <1>1 DEF ClockInv, MessageMeasured, Measures
<1> QED
  BY <1>6, <1>7, <1>8, <1>9 DEF ClockInv

LEMMA StartStep ==
    ASSUME BeforeWrap, ClockInv, NEW purpose \in {"loop", "message"},
           Clock!StartRead(purpose)
    PROVE  ClockInv'
<1>0. Digits \in Nat \ {0} /\ W[0] = 1 /\ globalTimer \in Nat
  BY ClockNumbers DEF ClockInv, ClockTypes
<1>1. /\ reader' = purpose /\ next' = 0 /\ temp' = 0 /\ torn' = 0 /\ ticked' = FALSE
      /\ UNCHANGED <<now, tcnt3, tov3, globalTimer>>
      /\ UNCHANGED <<estopTimeout, lastMessage, messageOff>>
  BY DEF Clock!StartRead, Clock!hardware, Clock!estop
<1>2. ClockTypes'
  BY <1>0, <1>1 DEF ClockInv, ClockTypes
<1>3. ClockRight'
  BY <1>1 DEF ClockInv, ClockRight
<1>4. ReadSoFar'
  <2>1. globalTimer % 1 = 0
    <3>1. globalTimer % 1 \in 0 .. 0
      BY <1>0
    <3> QED
      BY <3>1
  <2> QED
    BY <1>0, <1>1, <2>1 DEF ReadSoFar, ReadWhole
<1>5. MessageMeasured'
  BY <1>1 DEF ClockInv, MessageMeasured, Measures
<1> QED
  BY <1>2, <1>3, <1>4, <1>5 DEF ClockInv

LEMMA ByteStep == ASSUME BeforeWrap, ClockInv, Clock!ReadBytes PROVE ClockInv'
<1> DEFINE w == Clock!Byte(globalTimer, next) * W[next]
<1>0. /\ Digits \in Nat \ {0} /\ next \in 0 .. Digits - 1 /\ globalTimer \in Nat
      /\ Clock!TimerAssumption /\ temp \in Nat /\ reader # "none" /\ torn \in 0 .. Digits - 1
  BY ClockNumbers DEF ClockInv, ClockTypes, Clock!ReadBytes, BeforeWrap
<1>1. /\ temp' = temp + w /\ next' = next + 1
      /\ UNCHANGED <<reader, ticked, torn, now, tcnt3, tov3, globalTimer>>
      /\ UNCHANGED <<estopTimeout, lastMessage, messageOff>>
  BY DEF Clock!ReadBytes, Clock!hardware, Clock!estop, W
<1> DEFINE x == globalTimer % W[next]
           y == globalTimer % W[next + 1]
<1>2. y = x + w
  BY <1>0, NextByte
<1>3. x \in Nat /\ y \in Nat /\ w \in Nat
  <2>1. W[next] \in Nat \ {0} /\ W[next + 1] \in Nat \ {0}
    <3>1. next \in 0 .. Digits /\ next + 1 \in 0 .. Digits
      BY <1>0
    <3> QED
      BY <3>1, ClockNumbers
  <2>2. x \in Nat /\ y \in Nat
    BY <1>0, <2>1
  <2>3. Clock!Byte(globalTimer, next) \in Nat
    <3> DEFINE q == globalTimer \div W[next]
    <3>1. q \in Nat
      BY <1>0, <2>1, DivMod
    <3>2. Clock!Byte(globalTimer, next) = q % Base
      BY DEF Clock!Byte, W
    <3>3. Base \in Nat \ {0}
      BY <1>0 DEF Clock!TimerAssumption
    <3> HIDE DEF q
    <3>4. q % Base \in Nat
      BY <3>1, <3>3
    <3> QED
      BY <3>2, <3>4
  <2>4. w \in Nat
    <3> DEFINE b == Clock!Byte(globalTimer, next)
               m == W[next]
    <3>1. b \in Nat /\ m \in Nat
      BY <2>1, <2>3
    <3> HIDE DEF b, m
    <3>2. b * m \in Nat
      BY <3>1
    <3> QED
      BY <3>2 DEF b, m
  <2> QED
    BY <2>2, <2>4
<1> HIDE DEF w, x, y
<1>4. ClockTypes'
  BY <1>0, <1>1, <1>3 DEF ClockInv, ClockTypes
<1>5. ClockRight'
  BY <1>1 DEF ClockInv, ClockRight
<1>6. y = globalTimer' % W[next'] /\ x = globalTimer % W[next]
  BY <1>1 DEF x, y
<1>7. ReadSoFar'
  <2>1. CASE ReadWhole
    <3>1. ReadWhole'
      BY <1>1, <1>2, <1>6, <2>1 DEF ReadWhole
    <3> QED
      BY <3>1, <1>0, <1>1 DEF ReadSoFar
  <2>2. CASE ReadTorn
    <3>1. temp' - y = temp - x
      BY <1>0, <1>1, <1>2, <1>3
    <3>2. temp' - y \in -(HwMod - 1) .. W[torn'] - 1
      BY <1>1, <1>6, <2>2, <3>1 DEF ReadTorn
    <3>3. torn' \in 1 .. next'
      BY <1>0, <1>1, <2>2 DEF ReadTorn
    <3>4. Served'
      BY <1>1, <2>2 DEF ReadTorn, Served
    <3>5. ReadTorn'
      BY <1>6, <3>2, <3>3, <3>4 DEF ReadTorn
    <3> QED
      BY <3>5, <1>0, <1>1 DEF ReadSoFar
  <2> QED
    BY <2>1, <2>2, <1>0 DEF ClockInv, ReadSoFar, ReadLate
<1>8. MessageMeasured'
  BY <1>1 DEF ClockInv, MessageMeasured, Measures
<1> QED
  BY <1>4, <1>5, <1>7, <1>8 DEF ClockInv

\* A reading fits into globalTimer, and is as wrong as Measures says.
LEMMA ReadingMeasures ==
    ASSUME BeforeWrap, ClockInv, Clock!ReadTCNT3
    PROVE  /\ (temp + tcnt3) % Clock!Mod = temp + tcnt3
           /\ temp + tcnt3 \in Nat
           /\ Measures(temp + tcnt3, now, Clock!Off)
           /\ Clock!Off \in 0 .. W[Digits - 1] - 1
<1>0. /\ HwMod \in Nat \ {0} /\ HwMod >= 2 /\ Digits \in Nat \ {0}
      /\ now \in 0 .. MaxNow /\ MaxNow \in Nat /\ FreezeTicks \in Nat
      /\ globalTimer \in Nat /\ temp \in Nat /\ tcnt3 \in Nat /\ torn \in 0 .. Digits - 1
      /\ reader # "none" /\ next = Digits
  BY ClockNumbers DEF ClockInv, ClockTypes, Clock!ReadTCNT3
<1> DEFINE o == now \div HwMod
           max == W[Digits]
           last == W[Digits - 1]
           unit == W[torn]
<1>1. o \in Nat
  BY <1>0, DivMod
<1>2. /\ max \in Nat \ {0} /\ last \in Nat \ {0} /\ unit \in 1 .. last
      /\ MaxNow + FreezeTicks + last <= max
  <2>1. Digits \in 0 .. Digits /\ Digits - 1 \in 0 .. Digits /\ torn \in 0 .. Digits
    BY <1>0
  <2>2. max \in Nat \ {0} /\ last \in Nat \ {0} /\ unit \in Nat \ {0} /\ unit <= last
    BY <1>0, <2>1, ClockNumbers
  <2> QED
    BY <2>2 DEF BeforeWrap
<1>3. Clock!Off = unit - 1
  BY DEF Clock!Off, W
<1>4. /\ tov3 => globalTimer = now - tcnt3 - o - (HwMod - 1)
      /\ ~tov3 => globalTimer = now - tcnt3 - o - 0
  BY DEF ClockInv, ClockRight
<1>5. globalTimer + tcnt3 \in now - o - (HwMod - 1) .. now - o
  <2> HIDE DEF o
  <2>1. CASE tov3
    BY <1>0, <1>1, <1>4, <2>1
  <2>2. CASE ~tov3
    BY <1>0, <1>1, <1>4, <2>2
  <2> QED
    BY <2>1, <2>2
<1>6. globalTimer % max = globalTimer
  <2>1. globalTimer \in 0 .. max - 1
    <3> HIDE DEF o, max, last
    <3> QED
      BY <1>0, <1>1, <1>2, <1>5
  <2> HIDE DEF max
  <2> QED
    BY <1>2, <2>1, SmallRemainder
<1>7. temp + tcnt3 \in now - o - (HwMod - 1) .. now - o + (unit - 1)
  <2>1. CASE ReadWhole
    <3>1. temp = globalTimer
      BY <1>0, <1>6, <2>1 DEF ReadWhole
    <3> HIDE DEF o, unit, last
    <3> QED
      BY <3>1, <1>0, <1>1, <1>2, <1>5
  <2>2. CASE ReadTorn
    <3>1. ~tov3 /\ temp - globalTimer \in -(HwMod - 1) .. unit - 1
      BY <1>0, <1>6, <2>2 DEF ReadTorn, Served
    <3> HIDE DEF o, unit, last
    <3> QED
      BY <3>1, <1>0, <1>1, <1>2, <1>4
  <2>3. CASE ReadLate
    <3>1. ~tov3 /\ temp = globalTimer - (HwMod - 1)
      BY <2>3 DEF ReadLate, Served
    <3> HIDE DEF o, unit, last
    <3> QED
      BY <3>1, <1>0, <1>1, <1>2, <1>4
  <2> QED
    BY <2>1, <2>2, <2>3, <1>0 DEF ClockInv, ReadSoFar
<1>8. temp + tcnt3 \in 0 .. max - 1
  <2> HIDE DEF o, unit, last, max
  <2> QED
    BY <1>0, <1>1, <1>2, <1>7
<1>9. (temp + tcnt3) % max = temp + tcnt3
  <2> DEFINE t == temp + tcnt3
  <2> HIDE DEF t, max
  <2>1. t \in 0 .. max - 1
    BY <1>8 DEF t
  <2>2. t % max = t
    BY <1>2, <2>1, SmallRemainder
  <2> QED
    BY <2>2 DEF t
<1>10. Measures(temp + tcnt3, now, Clock!Off)
  BY <1>3, <1>7 DEF Measures
<1>11. Clock!Off \in 0 .. last - 1
  <2> HIDE DEF unit, last
  <2> QED
    BY <1>2, <1>3
<1> QED
  BY <1>0, <1>9, <1>10, <1>11, ClockNumbers

LEMMA ReadStep == ASSUME BeforeWrap, ClockInv, Clock!ReadTCNT3 PROVE ClockInv'
<1> DEFINE time == temp + tcnt3
<1>0. /\ Digits \in Nat \ {0} /\ HwMod \in Nat \ {0} /\ now \in 0 .. MaxNow /\ MaxNow \in Nat
      /\ lastMessage \in 0 .. now
  BY ClockNumbers DEF ClockInv, ClockTypes
<1>1. /\ reader' = "none" /\ next' = 0 /\ temp' = 0 /\ torn' = 0
      /\ UNCHANGED <<now, tcnt3, tov3, globalTimer>>
  BY DEF Clock!ReadTCNT3, Clock!hardware
<1>2. time \in Nat /\ Measures(time, now, Clock!Off) /\ Clock!Off \in 0 .. W[Digits - 1] - 1
  BY ReadingMeasures
<1>3. \/ UNCHANGED <<estopTimeout, lastMessage, messageOff>>
      \/ estopTimeout' = time /\ lastMessage' = now /\ messageOff' = Clock!Off
  BY ReadingMeasures DEF Clock!ReadTCNT3, Clock!MessageTime
<1> HIDE DEF time
<1>4. ClockTypes'
  BY <1>0, <1>1, <1>2, <1>3 DEF ClockInv, ClockTypes
<1>5. ClockRight'
  BY <1>1 DEF ClockInv, ClockRight
<1>6. ReadSoFar'
  BY <1>1 DEF ReadSoFar
<1>7. MessageMeasured'
  BY <1>2, <1>3 DEF ClockInv, MessageMeasured, Measures
<1> QED
  BY <1>4, <1>5, <1>6, <1>7 DEF ClockInv

LEMMA ClockStep == ASSUME BeforeWrap, ClockInv, [Clock!Next]_(Clock!vars) PROVE ClockInv'
<1>1. CASE Clock!Next
  BY <1>1, TickStep, OverflowStep, StartStep, ByteStep, ReadStep DEF Clock!Next
<1>2. CASE UNCHANGED Clock!vars
  BY <1>2 DEF ClockInv, ClockTypes, ClockRight, ReadSoFar, ReadWhole, ReadTorn, ReadLate,
     Served, MessageMeasured, Measures, Clock!vars, Clock!hardware, Clock!reading, Clock!estop
<1> QED
  BY <1>1, <1>2

LEMMA ClockInvariance == BeforeWrap /\ Clock!Spec => []ClockInv
<1> SUFFICES ASSUME BeforeWrap PROVE Clock!Spec => []ClockInv
  OBVIOUS
<1> QED
  BY ClockInit, ClockStep, PTL DEF Clock!Spec

\* Overflows are counted by the quotient, of which a span has at most one more.
LEMMA OverflowsWithin ==
    ASSUME NEW n \in Nat \ {0}, NEW b \in Nat, NEW a \in 0 .. b
    PROVE  /\ b \div n - a \div n \in 0 .. (b - a) \div n + 1
           /\ (b - a) \div n \in Nat
<1> DEFINE p == b \div n
           q == a \div n
           c == b - a
           d == c \div n
<1>1. p \in Nat /\ b % n \in 0 .. n - 1 /\ b = n * p + (b % n)
  BY DivMod
<1>2. q \in Nat /\ a % n \in 0 .. n - 1 /\ a = n * q + (a % n)
  <2>1. a \in Nat
    OBVIOUS
  <2> QED
    BY <2>1, DivMod
<1>3. d \in Nat /\ c % n \in 0 .. n - 1 /\ c = n * d + (c % n)
  <2>1. c \in Nat
    OBVIOUS
  <2> HIDE DEF c
  <2> QED
    BY <2>1, DivMod
<1>4. c = b - a /\ c >= 0
  OBVIOUS
<1> HIDE DEF p, q, c, d
<1>5. n * (q - p) < n
  BY <1>1, <1>2, <1>4
<1>6. q - p < 1
  <2>1. CASE q - p >= 1
    <3>1. n * (q - p) >= n
      BY <2>1, <1>1, <1>2
    <3> QED
      BY <1>5, <3>1, <1>1, <1>2
  <2> QED
    BY <2>1, <1>1, <1>2
<1>7. n * (p - q - d - 1) < n
  BY <1>1, <1>2, <1>3, <1>4
<1>8. p - q - d - 1 < 1
  <2>1. CASE p - q - d - 1 >= 1
    <3>1. n * (p - q - d - 1) >= n
      BY <2>1, <1>1, <1>2, <1>3
    <3> QED
      BY <1>7, <3>1, <1>1, <1>2, <1>3
  <2> QED
    BY <2>1, <1>1, <1>2, <1>3
<1>9. p - q \in 0 .. d + 1
  BY <1>1, <1>2, <1>3, <1>6, <1>8
<1> QED
  BY <1>3, <1>9 DEF p, q, c, d

-----------------------------------------------------------------------------
\* The clock is never ahead but for a torn reading, and behind by no more than
\* drift and one period, however TCNT3, its interrupt and the bytes of
\* a reading interleave (main.c:98-108).
THEOREM ClockIsRight == BeforeWrap /\ Clock!Spec => Clock!ReadingIsRecent
<1> SUFFICES ASSUME BeforeWrap PROVE Clock!Spec => Clock!ReadingIsRecent
  OBVIOUS
<1>1. ASSUME ClockInv, Clock!ReadTCNT3
      PROVE  LET time == (temp + tcnt3) % Clock!Mod
             IN  /\ time <= now + Clock!Off
                 /\ time >= now - HwMod - Clock!Drift(now)
  <2> DEFINE o == now \div HwMod
             t == temp + tcnt3
             off == Clock!Off
  <2>0. t \in Nat /\ off \in Nat /\ now \in Nat /\ HwMod \in Nat \ {0}
    <3>1. W[Digits - 1] \in Nat
      <4>1. Digits - 1 \in 0 .. Digits
        BY ClockNumbers
      <4> QED
        BY <4>1, ClockNumbers
    <3> QED
      BY <1>1, <3>1, ReadingMeasures, ClockNumbers DEF ClockInv, ClockTypes
  <2>1. o \in Nat
    BY <2>0, DivMod
  <2>2. t \in now - o - (HwMod - 1) .. now - o + off
    BY <1>1, ReadingMeasures DEF Measures
  <2>3. (temp + tcnt3) % Clock!Mod = t
    BY <1>1, ReadingMeasures
  <2>4. Clock!Drift(now) = o + 1
    BY DEF Clock!Drift
  <2> HIDE DEF o, t, off
  <2>5. t <= now + off /\ t >= now - HwMod - (o + 1)
    BY <2>0, <2>1, <2>2
  <2> QED
    BY <2>3, <2>4, <2>5 DEF off
<1> QED
  BY <1>1, ClockInvariance, PTL DEF Clock!ReadingIsRecent, Clock!Spec

\* The vehicle freezes because of silence as long as the timeout, and not long
\* after, as exactly as the clock measures it (main.c:662).
THEOREM SilenceFreezesInTime == BeforeWrap /\ Clock!Spec => Clock!FreezesInTime
<1> SUFFICES ASSUME BeforeWrap PROVE Clock!Spec => Clock!FreezesInTime
  OBVIOUS
<1>1. ASSUME ClockInv, Clock!ReadTCNT3, reader = "loop"
      PROVE  IF freeze'
             THEN Clock!Silence > FreezeTicks - HwMod - Clock!Off
             ELSE Clock!Silence <= FreezeTicks + HwMod + Clock!Drift(Clock!Silence)
                                     + messageOff
  <2> DEFINE o == now \div HwMod
             m == lastMessage \div HwMod
             d == (now - lastMessage) \div HwMod
             t == temp + tcnt3
             off == Clock!Off
             last == W[Digits - 1]
  <2>0. /\ t \in Nat /\ off \in 0 .. last - 1 /\ now \in 0 .. MaxNow /\ MaxNow \in Nat
        /\ HwMod \in Nat \ {0} /\ FreezeTicks \in Nat /\ estopTimeout \in Nat
        /\ lastMessage \in 0 .. now /\ messageOff \in 0 .. last - 1
    BY <1>1, ReadingMeasures, ClockNumbers DEF ClockInv, ClockTypes
  <2>1. /\ last \in Nat \ {0} /\ W[Digits] \in Nat \ {0}
        /\ MaxNow + FreezeTicks + last <= W[Digits] /\ Clock!Mod = W[Digits]
    <3>1. Digits - 1 \in 0 .. Digits /\ Digits \in 0 .. Digits
      BY ClockNumbers
    <3> QED
      BY <3>1, ClockNumbers DEF BeforeWrap
  <2>2. o - m \in 0 .. d + 1 /\ o \in Nat /\ m \in Nat /\ d \in Nat
    <3>0. now \in Nat /\ lastMessage \in Nat
      BY <2>0
    <3>1. o \in Nat /\ m \in Nat
      BY <3>0, <2>0, DivMod
    <3> QED
      BY <2>0, <3>1, OverflowsWithin
  <2>3. t \in now - o - (HwMod - 1) .. now - o + off
    BY <1>1, ReadingMeasures DEF Measures
  <2>4. estopTimeout \in lastMessage - m - (HwMod - 1)
                           .. lastMessage - m + messageOff
    BY <1>1 DEF ClockInv, MessageMeasured, Measures
  <2>5. (temp + tcnt3) % Clock!Mod = t
    BY <1>1, ReadingMeasures
  <2>6. Clock!Silence = now - lastMessage /\ Clock!Drift(Clock!Silence) = d + 1
    BY DEF Clock!Silence, Clock!Drift
  <2> HIDE DEF o, m, d, t, off, last
  <2>7. (estopTimeout + FreezeTicks) % Clock!Mod = estopTimeout + FreezeTicks
    <3> DEFINE x == estopTimeout + FreezeTicks
               max == W[Digits]
    <3>1. x \in 0 .. max - 1
      BY <2>0, <2>1, <2>2, <2>4
    <3>2. max \in Nat \ {0} /\ Clock!Mod = max
      BY <2>1
    <3> HIDE DEF x, max
    <3>3. x % max = x
      BY <3>1, <3>2, SmallRemainder
    <3> QED
      BY <3>2, <3>3 DEF x
  <2>8. freeze' = (t > estopTimeout + FreezeTicks)
    BY <1>1, <2>5, <2>7 DEF Clock!ReadTCNT3, Clock!Due
  <2>9. CASE t > estopTimeout + FreezeTicks
    <3>1. now - lastMessage > FreezeTicks - HwMod - off
      BY <2>0, <2>1, <2>2, <2>3, <2>4, <2>9
    <3> QED
      BY <3>1, <2>6, <2>8, <2>9 DEF off
  <2>10. CASE ~(t > estopTimeout + FreezeTicks)
    <3>1. now - lastMessage <= FreezeTicks + HwMod + (d + 1) + messageOff
      BY <2>0, <2>1, <2>2, <2>3, <2>4, <2>10
    <3> QED
      BY <3>1, <2>6, <2>8, <2>10 DEF off
  <2> QED
    BY <2>9, <2>10
<1>2. ClockInv => Clock!FreezesWithin(Clock!Off, messageOff)
  BY <1>1 DEF Clock!FreezesWithin
<1> QED
  BY <1>2, ClockInvariance, PTL DEF Clock!FreezesInTime

=============================================================================
