------------------------- MODULE MotorControllerProofs -------------------------
(***************************************************************************)
(* The motor controller, for any commands, any watchdog and any width of   *)
(* the encoder counts.                                                     *)
(*                                                                         *)
(* Progress says what the first n of the twelve accesses of                *)
(* MotorControllerHBridgeSetVel leave behind when nothing but the timers   *)
(* of the PWM comes between them.  MotorInv states it of the command on    *)
(* its way, unless the watchdog struck within it (raced = "this"),         *)
(* and of the last command when none is on its way.                        *)
(***************************************************************************)
EXTENDS MotorController, SequenceTheorems, TLAPS

-----------------------------------------------------------------------------
(* The accesses.                                                           *)

Widths == 0 .. 254

Accesses ==
    [access : {"width"}, pin : Pins, width : 0 .. 254]
    \cup [access : {"load"}, pin : Pins]
    \cup [access : {"store"}, pin : Pins, on : BOOLEAN]

Ahead(x) == IF x >= 0 THEN 2 * x ELSE 0
Back(x)  == IF x >= 0 THEN 0 ELSE -2 * x
On(forward, reverse, x)  == IF x >= 0 THEN forward ELSE reverse
Off(forward, reverse, x) == IF x >= 0 THEN reverse ELSE forward

SideSpeeds == -127 .. 127

LEMMA AccessTypes ==
    ASSUME NEW pin \in Pins, NEW x \in 0 .. 254, NEW on \in BOOLEAN
    PROVE  /\ WriteWidth(pin, x) \in Accesses
           /\ Load(pin) \in Accesses
           /\ Store(pin, on) \in Accesses
  BY DEF WriteWidth, Load, Store, Accesses

LEMMA WidthTypes ==
    ASSUME NEW x \in SideSpeeds
    PROVE  Ahead(x) \in 0 .. 254 /\ Back(x) \in 0 .. 254
  BY DEF Ahead, Back, SideSpeeds

\* The six accesses of a side, one by one.
IsSide(s, f, r, x) ==
    /\ s \in Seq(Accesses) /\ Len(s) = 6
    /\ s[1] = WriteWidth(f, Ahead(x)) /\ s[2] = WriteWidth(r, Back(x))
    /\ s[3] = Load(Off(f, r, x)) /\ s[4] = Store(Off(f, r, x), FALSE)
    /\ s[5] = Load(On(f, r, x)) /\ s[6] = Store(On(f, r, x), TRUE)

LEMMA SixAccesses ==
    ASSUME NEW a1 \in Accesses, NEW a2 \in Accesses, NEW a3 \in Accesses,
           NEW a4 \in Accesses, NEW a5 \in Accesses, NEW a6 \in Accesses,
           NEW s, s = <<a1, a2>> \o <<a3, a4, a5, a6>>
    PROVE  /\ s \in Seq(Accesses) /\ Len(s) = 6
           /\ s[1] = a1 /\ s[2] = a2 /\ s[3] = a3
           /\ s[4] = a4 /\ s[5] = a5 /\ s[6] = a6
<1> DEFINE p == <<a1, a2>>
           q == <<a3, a4, a5, a6>>
<1>1. p \in Seq(Accesses) /\ Len(p) = 2 /\ p[1] = a1 /\ p[2] = a2
  OBVIOUS
<1>2. /\ q \in Seq(Accesses) /\ Len(q) = 4
      /\ q[1] = a3 /\ q[2] = a4 /\ q[3] = a5 /\ q[4] = a6
  OBVIOUS
<1>3. s = p \o q
  OBVIOUS
<1> HIDE DEF p, q
<1>4. /\ s \in Seq(Accesses) /\ Len(s) = 6
      /\ \A i \in 1 .. 6 : s[i] = IF i <= 2 THEN p[i] ELSE q[i - 2]
  BY <1>1, <1>2, <1>3, ConcatProperties
<1> QED
  BY <1>1, <1>2, <1>4

LEMMA SideAccesses ==
    ASSUME NEW f \in Pins, NEW r \in Pins, NEW x \in SideSpeeds
    PROVE  IsSide(SetSide(f, r, x), f, r, x)
<1> DEFINE a1 == WriteWidth(f, Ahead(x))
           a2 == WriteWidth(r, Back(x))
           a3 == Load(Off(f, r, x))
           a4 == Store(Off(f, r, x), FALSE)
           a5 == Load(On(f, r, x))
           a6 == Store(On(f, r, x), TRUE)
<1>1. SetSide(f, r, x) = <<a1, a2>> \o <<a3, a4, a5, a6>>
  BY DEF SetSide, WriteWidths, Connect, Ahead, Back, On, Off
<1>2. /\ a1 \in Accesses /\ a2 \in Accesses /\ a3 \in Accesses
      /\ a4 \in Accesses /\ a5 \in Accesses /\ a6 \in Accesses
  <2>1. Off(f, r, x) \in Pins /\ On(f, r, x) \in Pins
    BY DEF Off, On
  <2>2. Ahead(x) \in 0 .. 254 /\ Back(x) \in 0 .. 254
    BY WidthTypes
  <2>3. TRUE \in BOOLEAN /\ FALSE \in BOOLEAN
    OBVIOUS
  <2> QED
    BY <2>1, <2>2, <2>3, AccessTypes
<1> HIDE DEF a1, a2, a3, a4, a5, a6
<1> DEFINE s == SetSide(f, r, x)
<1>4. /\ s \in Seq(Accesses) /\ Len(s) = 6
      /\ s[1] = a1 /\ s[2] = a2 /\ s[3] = a3
      /\ s[4] = a4 /\ s[5] = a5 /\ s[6] = a6
  <2> HIDE DEF s
  <2>1. s = <<a1, a2>> \o <<a3, a4, a5, a6>>
    BY <1>1 DEF s
  <2> QED
    BY <1>2, <2>1, SixAccesses
<1> QED
  BY <1>4 DEF IsSide, a1, a2, a3, a4, a5, a6

LeftSpeed(vel, turn)  == Clamp(vel - turn)
RightSpeed(vel, turn) == Clamp(vel + turn)

LEMMA SideSpeedTypes ==
    ASSUME NEW vel \in Int, NEW turn \in Int
    PROVE  /\ LeftSpeed(vel, turn) \in SideSpeeds
           /\ RightSpeed(vel, turn) \in SideSpeeds
  BY DEF LeftSpeed, RightSpeed, Clamp, SideSpeeds

\* The twelve accesses, one by one.
IsCommand(s, vel, turn) ==
    LET l == LeftSpeed(vel, turn)
        r == RightSpeed(vel, turn)
    IN  /\ s \in Seq(Accesses) /\ Len(s) = 12
        /\ s[1] = WriteWidth("LF", Ahead(l)) /\ s[2] = WriteWidth("LR", Back(l))
        /\ s[3] = Load(Off("LF", "LR", l)) /\ s[4] = Store(Off("LF", "LR", l), FALSE)
        /\ s[5] = Load(On("LF", "LR", l)) /\ s[6] = Store(On("LF", "LR", l), TRUE)
        /\ s[7] = WriteWidth("RF", Ahead(r)) /\ s[8] = WriteWidth("RR", Back(r))
        /\ s[9] = Load(Off("RF", "RR", r)) /\ s[10] = Store(Off("RF", "RR", r), FALSE)
        /\ s[11] = Load(On("RF", "RR", r)) /\ s[12] = Store(On("RF", "RR", r), TRUE)

LEMMA CommandAccesses ==
    ASSUME NEW vel \in Int, NEW turn \in Int
    PROVE  IsCommand(SetVel(vel, turn), vel, turn)
<1> DEFINE l == LeftSpeed(vel, turn)
           r == RightSpeed(vel, turn)
           s == SetSide("LF", "LR", l)
           t == SetSide("RF", "RR", r)
<1>1. IsSide(s, "LF", "LR", l) /\ IsSide(t, "RF", "RR", r)
  BY SideSpeedTypes, SideAccesses DEF Pins
<1>2. SetVel(vel, turn) = s \o t
  BY DEF SetVel, LeftSpeed, RightSpeed
<1> HIDE DEF l, r, s, t
<1> DEFINE c == SetVel(vel, turn)
<1>3. c = s \o t
  BY <1>2
<1> HIDE DEF c
<1>4. /\ c \in Seq(Accesses) /\ Len(c) = 12
      /\ \A i \in 1 .. 12 : c[i] = IF i <= 6 THEN s[i] ELSE t[i - 6]
  <2>1. s \in Seq(Accesses) /\ Len(s) = 6 /\ t \in Seq(Accesses) /\ Len(t) = 6
    BY <1>1 DEF IsSide
  <2>2. /\ s \o t \in Seq(Accesses) /\ Len(s \o t) = Len(s) + Len(t)
        /\ \A i \in 1 .. Len(s) + Len(t) :
             (s \o t)[i] = IF i <= Len(s) THEN s[i] ELSE t[i - Len(s)]
    BY <2>1, ConcatProperties
  <2> QED
    BY <1>3, <2>1, <2>2
<1>5. /\ c[1] = s[1] /\ c[2] = s[2] /\ c[3] = s[3]
      /\ c[4] = s[4] /\ c[5] = s[5] /\ c[6] = s[6]
      /\ c[7] = t[1] /\ c[8] = t[2] /\ c[9] = t[3]
      /\ c[10] = t[4] /\ c[11] = t[5] /\ c[12] = t[6]
  BY <1>4
<1>6. IsCommand(c, vel, turn)
  BY <1>1, <1>4, <1>5 DEF IsCommand, IsSide, l, r
<1> QED
  BY <1>6 DEF c

-----------------------------------------------------------------------------
(* The effect of an access.                                                *)

LEMMA RegTypes == \A pin \in Pins : Reg(pin) \in Registers
  BY DEF Reg, Registers

LEMMA WidthEffect ==
    ASSUME NEW b \in Bridges, NEW pin \in Pins, NEW x \in Widths,
           NEW d, d = Do(b, WriteWidth(pin, x))
    PROVE  /\ d \in Bridges
           /\ d.width = [b.width EXCEPT ![pin] = x]
           /\ d.active = b.active /\ d.connected = b.connected /\ d.latch = b.latch
<1>1. d = [b EXCEPT !.width[pin] = x]
  BY DEF Do, WriteWidth
<1> QED
  BY <1>1 DEF Bridges, Widths

LEMMA LoadEffect ==
    ASSUME NEW b \in Bridges, NEW pin \in Pins, NEW d, d = Do(b, Load(pin))
    PROVE  /\ d \in Bridges
           /\ d.latch = b.connected[Reg(pin)]
           /\ d.active = b.active /\ d.connected = b.connected /\ d.width = b.width
<1>1. d = [b EXCEPT !.latch = b.connected[Reg(pin)]]
  BY DEF Do, Load
<1> QED
  BY <1>1, RegTypes DEF Bridges

LEMMA StoreEffect ==
    ASSUME NEW b \in Bridges, NEW pin \in Pins, NEW on \in BOOLEAN,
           NEW d, d = Do(b, Store(pin, on))
    PROVE  /\ d \in Bridges
           /\ d.connected = [b.connected EXCEPT ![Reg(pin)] =
                               IF on THEN b.latch \cup {pin} ELSE b.latch \ {pin}]
           /\ d.active = b.active /\ d.latch = b.latch /\ d.width = b.width
<1>1. d = [b EXCEPT !.connected[Reg(pin)] =
                      IF on THEN b.latch \cup {pin} ELSE b.latch \ {pin}]
  BY DEF Do, Store
<1> QED
  BY <1>1, RegTypes DEF Bridges

LEMMA DoType ==
    ASSUME NEW b \in Bridges, NEW a \in Accesses
    PROVE  Do(b, a) \in Bridges
<1>1. CASE a \in [access : {"width"}, pin : Pins, width : 0 .. 254]
  <2>1. a = WriteWidth(a.pin, a.width) /\ a.pin \in Pins /\ a.width \in 0 .. 254
    BY <1>1 DEF WriteWidth
  <2>2. Do(b, WriteWidth(a.pin, a.width)) \in Bridges
    BY <2>1, WidthEffect DEF Widths
  <2> QED
    BY <2>1, <2>2
<1>2. CASE a \in [access : {"load"}, pin : Pins]
  <2>1. a = Load(a.pin) /\ a.pin \in Pins
    BY <1>2 DEF Load
  <2> QED
    BY <2>1, LoadEffect
<1>3. CASE a \in [access : {"store"}, pin : Pins, on : BOOLEAN]
  <2>1. a = Store(a.pin, a.on) /\ a.pin \in Pins /\ a.on \in BOOLEAN
    BY <1>3 DEF Store
  <2> QED
    BY <2>1, StoreEffect
<1> QED
  BY <1>1, <1>2, <1>3 DEF Accesses

-----------------------------------------------------------------------------
(* A command on its way.                                                   *)

Connected(b, pin) == pin \in b.connected[Reg(pin)]

\* No side has both pins connected.
Apart(b) ==
    /\ ~(Connected(b, "LF") /\ Connected(b, "LR"))
    /\ ~(Connected(b, "RF") /\ Connected(b, "RR"))

\* The pins to disconnect and to connect, and the widths.
OffLeft(vel, turn)  == Off("LF", "LR", LeftSpeed(vel, turn))
OnLeft(vel, turn)   == On("LF", "LR", LeftSpeed(vel, turn))
OffRight(vel, turn) == Off("RF", "RR", RightSpeed(vel, turn))
OnRight(vel, turn)  == On("RF", "RR", RightSpeed(vel, turn))
Width(vel, turn, pin) ==
    CASE pin = "LF" -> Ahead(LeftSpeed(vel, turn))
      [] pin = "LR" -> Back(LeftSpeed(vel, turn))
      [] pin = "RF" -> Ahead(RightSpeed(vel, turn))
      [] pin = "RR" -> Back(RightSpeed(vel, turn))

LEMMA PinTypes ==
    ASSUME NEW vel \in Int, NEW turn \in Int
    PROVE  /\ OffLeft(vel, turn) \in {"LF", "LR"} /\ OnLeft(vel, turn) \in {"LF", "LR"}
           /\ OffLeft(vel, turn) # OnLeft(vel, turn)
           /\ OffRight(vel, turn) \in {"RF", "RR"} /\ OnRight(vel, turn) \in {"RF", "RR"}
           /\ OffRight(vel, turn) # OnRight(vel, turn)
           /\ \A pin \in Pins : Width(vel, turn, pin) \in 0 .. 254
<1>1. /\ Ahead(LeftSpeed(vel, turn)) \in 0 .. 254
      /\ Back(LeftSpeed(vel, turn)) \in 0 .. 254
      /\ Ahead(RightSpeed(vel, turn)) \in 0 .. 254
      /\ Back(RightSpeed(vel, turn)) \in 0 .. 254
  BY SideSpeedTypes, WidthTypes
<1> QED
  BY <1>1 DEF OffLeft, OnLeft, OffRight, OnRight, Off, On, Width, Pins

Progress(b, vel, turn, n) ==
    /\ n >= 1 => b.width["LF"] = Width(vel, turn, "LF")
    /\ n >= 2 => b.width["LR"] = Width(vel, turn, "LR")
    /\ n = 3 => b.latch = b.connected[Reg(OffLeft(vel, turn))]
    /\ n >= 4 => ~Connected(b, OffLeft(vel, turn))
    /\ n = 5 => b.latch = b.connected[Reg(OnLeft(vel, turn))]
    /\ n >= 7 => b.width["RF"] = Width(vel, turn, "RF")
    /\ n >= 8 => b.width["RR"] = Width(vel, turn, "RR")
    /\ n = 9 => b.latch = b.connected[Reg(OffRight(vel, turn))]
    /\ n >= 10 => ~Connected(b, OffRight(vel, turn))
    /\ n = 11 => b.latch = b.connected[Reg(OnRight(vel, turn))]

LEMMA WidthProgress ==
    ASSUME NEW b \in Bridges, NEW vel \in Int, NEW turn \in Int,
           NEW n \in {0, 1, 6, 7}, Progress(b, vel, turn, n), NEW pin \in Pins,
           \/ n = 0 /\ pin = "LF"
           \/ n = 1 /\ pin = "LR"
           \/ n = 6 /\ pin = "RF"
           \/ n = 7 /\ pin = "RR",
           NEW d, d = Do(b, WriteWidth(pin, Width(vel, turn, pin)))
    PROVE  d \in Bridges /\ Progress(d, vel, turn, n + 1) /\ (Apart(b) => Apart(d))
<1> DEFINE x == Width(vel, turn, pin)
<1>1. x \in Widths /\ d = Do(b, WriteWidth(pin, x))
  BY PinTypes DEF Widths
<1>2. /\ d \in Bridges /\ d.width = [b.width EXCEPT ![pin] = x]
      /\ d.connected = b.connected /\ d.latch = b.latch
  <2> HIDE DEF x
  <2> QED
    BY <1>1, WidthEffect
<1>3. b.width \in [Pins -> 0 .. 254]
  BY DEF Bridges
<1>4. Apart(b) => Apart(d)
  BY <1>2 DEF Apart, Connected
<1>5. Progress(d, vel, turn, n + 1)
  BY <1>2, <1>3 DEF Progress, Connected, Pins
<1> QED
  BY <1>2, <1>4, <1>5

LEMMA LoadProgress ==
    ASSUME NEW b \in Bridges, NEW vel \in Int, NEW turn \in Int,
           NEW n \in {2, 4, 8, 10}, Progress(b, vel, turn, n), NEW pin \in Pins,
           \/ n = 2 /\ pin = OffLeft(vel, turn)
           \/ n = 4 /\ pin = OnLeft(vel, turn)
           \/ n = 8 /\ pin = OffRight(vel, turn)
           \/ n = 10 /\ pin = OnRight(vel, turn),
           NEW d, d = Do(b, Load(pin))
    PROVE  d \in Bridges /\ Progress(d, vel, turn, n + 1) /\ (Apart(b) => Apart(d))
<1>1. /\ d \in Bridges /\ d.width = b.width
      /\ d.connected = b.connected /\ d.latch = b.connected[Reg(pin)]
  BY LoadEffect
<1>2. Apart(b) => Apart(d)
  BY <1>1 DEF Apart, Connected
<1>3. Progress(d, vel, turn, n + 1)
  BY <1>1 DEF Progress, Connected
<1> QED
  BY <1>1, <1>2, <1>3

LEMMA StoreProgress ==
    ASSUME NEW b \in Bridges, NEW vel \in Int, NEW turn \in Int,
           NEW n \in {3, 5, 9, 11}, Progress(b, vel, turn, n),
           NEW pin \in Pins, NEW on \in BOOLEAN,
           \/ n = 3 /\ pin = OffLeft(vel, turn) /\ on = FALSE
           \/ n = 5 /\ pin = OnLeft(vel, turn) /\ on = TRUE
           \/ n = 9 /\ pin = OffRight(vel, turn) /\ on = FALSE
           \/ n = 11 /\ pin = OnRight(vel, turn) /\ on = TRUE,
           NEW d, d = Do(b, Store(pin, on))
    PROVE  d \in Bridges /\ Progress(d, vel, turn, n + 1) /\ (Apart(b) => Apart(d))
<1>1. /\ d \in Bridges /\ d.width = b.width
      /\ d.connected = [b.connected EXCEPT ![Reg(pin)] =
                          IF on THEN b.latch \cup {pin} ELSE b.latch \ {pin}]
  BY StoreEffect
<1>2. b.latch = b.connected[Reg(pin)]
  BY DEF Progress
<1>3. \A q \in Pins : Connected(d, q) <=> IF q = pin THEN on ELSE Connected(b, q)
  BY <1>1, <1>2, RegTypes DEF Connected, Bridges
<1>4. /\ Connected(d, "LF") <=> IF "LF" = pin THEN on ELSE Connected(b, "LF")
      /\ Connected(d, "LR") <=> IF "LR" = pin THEN on ELSE Connected(b, "LR")
      /\ Connected(d, "RF") <=> IF "RF" = pin THEN on ELSE Connected(b, "RF")
      /\ Connected(d, "RR") <=> IF "RR" = pin THEN on ELSE Connected(b, "RR")
  BY <1>3 DEF Pins
<1>5. /\ n >= 4 => ~Connected(b, OffLeft(vel, turn))
      /\ n >= 10 => ~Connected(b, OffRight(vel, turn))
  BY DEF Progress
<1>6. Apart(b) => Apart(d)
  BY <1>4, <1>5, PinTypes DEF Apart
<1>7. /\ n + 1 >= 4 => ~Connected(d, OffLeft(vel, turn))
      /\ n + 1 >= 10 => ~Connected(d, OffRight(vel, turn))
  BY <1>4, <1>5, PinTypes
<1>8. Progress(d, vel, turn, n + 1)
  BY <1>1, <1>7 DEF Progress
<1> QED
  BY <1>1, <1>6, <1>8

LEMMA ProgressStep ==
    ASSUME NEW b \in Bridges, NEW vel \in Int, NEW turn \in Int, NEW n \in 0 .. 11,
           Progress(b, vel, turn, n),
           NEW s, IsCommand(s, vel, turn), NEW d, d = Do(b, s[n + 1])
    PROVE  d \in Bridges /\ Progress(d, vel, turn, n + 1) /\ (Apart(b) => Apart(d))
<1>1. /\ s[1] = WriteWidth("LF", Width(vel, turn, "LF"))
      /\ s[2] = WriteWidth("LR", Width(vel, turn, "LR"))
      /\ s[3] = Load(OffLeft(vel, turn)) /\ s[4] = Store(OffLeft(vel, turn), FALSE)
      /\ s[5] = Load(OnLeft(vel, turn)) /\ s[6] = Store(OnLeft(vel, turn), TRUE)
      /\ s[7] = WriteWidth("RF", Width(vel, turn, "RF"))
      /\ s[8] = WriteWidth("RR", Width(vel, turn, "RR"))
      /\ s[9] = Load(OffRight(vel, turn)) /\ s[10] = Store(OffRight(vel, turn), FALSE)
      /\ s[11] = Load(OnRight(vel, turn)) /\ s[12] = Store(OnRight(vel, turn), TRUE)
  BY DEF IsCommand, Width, OffLeft, OnLeft, OffRight, OnRight
<1>2. /\ OffLeft(vel, turn) \in Pins /\ OnLeft(vel, turn) \in Pins
      /\ OffRight(vel, turn) \in Pins /\ OnRight(vel, turn) \in Pins
      /\ {"LF", "LR", "RF", "RR"} \subseteq Pins
  BY PinTypes DEF Pins
<1>3. CASE n = 0
  <2>1. d = Do(b, WriteWidth("LF", Width(vel, turn, "LF")))
    BY <1>1, <1>3
  <2> QED
    BY <1>2, <1>3, <2>1, WidthProgress
<1>4. CASE n = 1
  <2>1. d = Do(b, WriteWidth("LR", Width(vel, turn, "LR")))
    BY <1>1, <1>4
  <2> QED
    BY <1>2, <1>4, <2>1, WidthProgress
<1>5. CASE n = 2
  <2>1. d = Do(b, Load(OffLeft(vel, turn)))
    BY <1>1, <1>5
  <2> QED
    BY <1>2, <1>5, <2>1, LoadProgress
<1>6. CASE n = 3
  <2>1. d = Do(b, Store(OffLeft(vel, turn), FALSE))
    <3>1. s[n + 1] = s[4]
      BY <1>6
    <3> QED
      BY <1>1, <3>1, Zenon
  <2> QED
    BY <1>2, <1>6, <2>1, StoreProgress
<1>7. CASE n = 4
  <2>1. d = Do(b, Load(OnLeft(vel, turn)))
    BY <1>1, <1>7
  <2> QED
    BY <1>2, <1>7, <2>1, LoadProgress
<1>8. CASE n = 5
  <2>1. d = Do(b, Store(OnLeft(vel, turn), TRUE))
    <3>1. s[n + 1] = s[6]
      BY <1>8
    <3> QED
      BY <1>1, <3>1, Zenon
  <2> QED
    BY <1>2, <1>8, <2>1, StoreProgress
<1>9. CASE n = 6
  <2>1. d = Do(b, WriteWidth("RF", Width(vel, turn, "RF")))
    BY <1>1, <1>9
  <2> QED
    BY <1>2, <1>9, <2>1, WidthProgress
<1>10. CASE n = 7
  <2>1. d = Do(b, WriteWidth("RR", Width(vel, turn, "RR")))
    BY <1>1, <1>10
  <2> QED
    BY <1>2, <1>10, <2>1, WidthProgress
<1>11. CASE n = 8
  <2>1. d = Do(b, Load(OffRight(vel, turn)))
    BY <1>1, <1>11
  <2> QED
    BY <1>2, <1>11, <2>1, LoadProgress
<1>12. CASE n = 9
  <2>1. d = Do(b, Store(OffRight(vel, turn), FALSE))
    <3>1. s[n + 1] = s[10]
      BY <1>12
    <3> QED
      BY <1>1, <3>1, Zenon
  <2> QED
    BY <1>2, <1>12, <2>1, StoreProgress
<1>13. CASE n = 10
  <2>1. d = Do(b, Load(OnRight(vel, turn)))
    BY <1>1, <1>13
  <2> QED
    BY <1>2, <1>13, <2>1, LoadProgress
<1>14. CASE n = 11
  <2>1. d = Do(b, Store(OnRight(vel, turn), TRUE))
    <3>1. s[n + 1] = s[12]
      BY <1>14
    <3> QED
      BY <1>1, <3>1, Zenon
  <2> QED
    BY <1>2, <1>14, <2>1, StoreProgress
<1> QED
  BY <1>3, <1>4, <1>5, <1>6, <1>7, <1>8, <1>9, <1>10, <1>11, <1>12, <1>13, <1>14

-----------------------------------------------------------------------------
(* A command carried out by the interrupt, all at once.                    *)

\* f holds the bridge after each of the first n accesses.
IsRun(f, b, s, n) == f = [i \in 0 .. n |-> IF i = 0 THEN b ELSE Do(f[i - 1], s[i])]

LEMMA RunExtends ==
    ASSUME NEW b, NEW s, NEW n \in Nat, NEW f, IsRun(f, b, s, n)
    PROVE  \E g : IsRun(g, b, s, n + 1)
<1> DEFINE g == [i \in 0 .. n + 1 |-> IF i = n + 1 THEN Do(f[n], s[n + 1]) ELSE f[i]]
<1>1. \A i \in 0 .. n : g[i] = f[i]
  OBVIOUS
<1>2. \A i \in 0 .. n + 1 : g[i] = IF i = 0 THEN b ELSE Do(g[i - 1], s[i])
  <2> TAKE i \in 0 .. n + 1
  <2>1. CASE i = n + 1
    <3>1. n \in 0 .. n /\ i - 1 = n /\ i # 0 /\ g[i] = Do(f[n], s[n + 1])
      BY <2>1
    <3> HIDE DEF g
    <3>2. g[n] = f[n]
      BY <1>1, <3>1
    <3> QED
      BY <2>1, <3>1, <3>2
  <2>2. CASE i # n + 1
    <3>1. i \in 0 .. n /\ (i # 0 => i - 1 \in 0 .. n)
      BY <2>2
    <3>2. f[i] = IF i = 0 THEN b ELSE Do(f[i - 1], s[i])
      BY <3>1 DEF IsRun
    <3> HIDE DEF g
    <3> QED
      BY <1>1, <3>1, <3>2
  <2> QED
    BY <2>1, <2>2
<1>3. g = [i \in 0 .. n + 1 |-> g[i]]
  OBVIOUS
<1> HIDE DEF g
<1>4. IsRun(g, b, s, n + 1)
  BY <1>2, <1>3, Zenon DEF IsRun
<1> QED
  BY <1>4

LEMMA RunExists ==
    ASSUME NEW b, NEW s
    PROVE  \E f : IsRun(f, b, s, 12)
<1> DEFINE E(n) == \E f : IsRun(f, b, s, n)
<1>1. E(0)
  <2>1. IsRun([i \in 0 .. 0 |-> b], b, s, 0)
    BY DEF IsRun
  <2> QED
    BY <2>1
<1>2. \A n \in Nat : E(n) => E(n + 1)
  BY RunExtends
<1> HIDE DEF E
<1>3. E(1) /\ E(2) /\ E(3) /\ E(4)
  BY <1>1, <1>2
<1>4. E(5) /\ E(6) /\ E(7) /\ E(8)
  BY <1>2, <1>3
<1>5. E(9) /\ E(10) /\ E(11) /\ E(12)
  BY <1>2, <1>4
<1> QED
  BY <1>5 DEF E

\* At its end the widths are those of the command.
LEMMA SettledWidths ==
    ASSUME NEW b \in Bridges, NEW vel \in Int, NEW turn \in Int, Progress(b, vel, turn, 12)
    PROVE  b.width = [pin \in Pins |-> Width(vel, turn, pin)]
<1>1. b.width \in [Pins -> 0 .. 254]
  BY DEF Bridges
<1>2. /\ b.width["LF"] = Width(vel, turn, "LF") /\ b.width["LR"] = Width(vel, turn, "LR")
      /\ b.width["RF"] = Width(vel, turn, "RF") /\ b.width["RR"] = Width(vel, turn, "RR")
  BY DEF Progress
<1>3. \A pin \in Pins : b.width[pin] = Width(vel, turn, pin)
  BY <1>2 DEF Pins
<1> QED
  BY <1>1, <1>3

LEMMA SettledApart ==
    ASSUME NEW b \in Bridges, NEW vel \in Int, NEW turn \in Int, Progress(b, vel, turn, 12)
    PROVE  Apart(b)
  BY PinTypes DEF Progress, Apart

LEMMA DoAllCommand ==
    ASSUME NEW b \in Bridges, NEW vel \in Int, NEW turn \in Int
    PROVE  /\ DoAll(b, SetVel(vel, turn)) \in Bridges
           /\ Progress(DoAll(b, SetVel(vel, turn)), vel, turn, 12)
<1> DEFINE s == SetVel(vel, turn)
           f == CHOOSE g : IsRun(g, b, s, 12)
<1>1. IsCommand(s, vel, turn)
  BY CommandAccesses
<1>2. IsRun(f, b, s, 12)
  BY RunExists
<1>3. DoAll(b, s) = [f[12] EXCEPT !.latch = b.latch]
  <2>1. Len(s) = 12
    BY <1>1 DEF IsCommand
  <2> HIDE DEF s
  <2> QED
    BY <2>1 DEF DoAll, IsRun
<1> HIDE DEF s, f
<1> DEFINE P(n) == f[n] \in Bridges /\ Progress(f[n], vel, turn, n)
<1>4. P(0)
  <2>1. f[0] = b
    BY <1>2 DEF IsRun
  <2> QED
    BY <2>1 DEF Progress
<1>5. \A n \in 0 .. 11 : P(n) => P(n + 1)
  <2> TAKE n \in 0 .. 11
  <2> HAVE P(n)
  <2>1. f[n + 1] = Do(f[n], s[n + 1])
    <3>1. n + 1 \in 0 .. 12 /\ n + 1 # 0 /\ (n + 1) - 1 = n
      OBVIOUS
    <3>2. \A i \in 0 .. 12 : f[i] = IF i = 0 THEN b ELSE Do(f[i - 1], s[i])
      BY <1>2 DEF IsRun
    <3> QED
      BY <3>1, <3>2
  <2> QED
    BY <1>1, <2>1, ProgressStep
<1> HIDE DEF P
<1>6. P(1) /\ P(2) /\ P(3) /\ P(4)
  BY <1>4, <1>5
<1>7. P(5) /\ P(6) /\ P(7) /\ P(8)
  BY <1>5, <1>6
<1>8. P(9) /\ P(10) /\ P(11) /\ P(12)
  BY <1>5, <1>7
<1> DEFINE d == DoAll(b, s)
<1>9. /\ d \in Bridges
      /\ d.width = f[12].width /\ d.connected = f[12].connected
  <2>1. f[12] \in Bridges
    BY <1>8 DEF P
  <2> QED
    BY <1>3, <2>1 DEF Bridges
<1>10. Progress(f[12], vel, turn, 12)
  BY <1>8 DEF P
<1> HIDE DEF d
<1>11. Progress(d, vel, turn, 12)
  BY <1>9, <1>10 DEF Progress, Connected
<1> QED
  BY <1>9, <1>11 DEF d, s

-----------------------------------------------------------------------------
(* The invariant of the motors.                                            *)

Callers == {"storeV", "filterW", "storeW", "call", "drive", "reset"}
Others  == {"idle", "copy", "clear", "respond"}

MotorTypes ==
    /\ main \in Callers \cup Others
    /\ cmd \in Int \X Int /\ filtered \in Int /\ todo \in Seq(Accesses)
    /\ v \in Int /\ w \in Int /\ bridge \in Bridges
    /\ n2OVF \in 0 .. Watchdog - 1 /\ quiet \in 0 .. Watchdog
    /\ raced \in {"none", "this", "earlier"}
    /\ main = "drive" => todo # <<>>

\* The watchdog has counted every overflow since the last command.
WatchdogCounts == quiet < Watchdog => n2OVF = quiet

\* What is left to do is the rest of the command to carry out v and w.
OnTheWay ==
    raced # "this" /\ main = "drive" =>
        /\ Len(todo) \in 1 .. 12
        /\ \A i \in 1 .. Len(todo) : todo[i] = SetVel(v, w)[12 - Len(todo) + i]
        /\ Progress(bridge, v, w, 12 - Len(todo))

Settled ==
    raced # "this" /\ main \in Others \cup {"reset"} => Progress(bridge, v, w, 12)

EarlierInCall == raced = "earlier" => main \in Callers

Separate == raced = "none" => Apart(bridge)

MotorInv ==
    /\ MotorTypes /\ WatchdogCounts /\ MotorsStop
    /\ OnTheWay /\ Settled /\ EarlierInCall /\ Separate

LEMMA Outside == ASSUME MotorTypes PROVE InSetVelocity <=> main \in Callers
  BY DEF InSetVelocity, Callers

LEMMA FilterType ==
    ASSUME NEW new \in Int, NEW old \in Int
    PROVE  /\ DeadBand(new) \in Int
           /\ Filtered(new, old) \subseteq Int
<1>1. \A tenths \in Int : CutOff(tenths) \in Int
  BY DEF CutOff
<1>2. 3 * new + 7 * old \in Int
  OBVIOUS
<1>3. CutOff(3 * new + 7 * old) \in Int
  BY <1>1, <1>2
<1> HIDE DEF CutOff
<1> QED
  BY <1>3 DEF DeadBand, Filtered

LEMMA MotorInit == Init => MotorInv
<1> SUFFICES ASSUME Init PROVE MotorInv
  OBVIOUS
<1>1. Watchdog \in Nat \ {0}
  BY MotorAssumption DEF MotorAssumption
<1>2. bridge \in Bridges
  BY DEF Init, Bridges, Pins, Registers, Reg
<1>3. /\ bridge.width = [p \in Pins |-> 0]
      /\ Connected(bridge, "LF") /\ ~Connected(bridge, "LR")
      /\ Connected(bridge, "RF") /\ ~Connected(bridge, "RR")
  BY DEF Init, Connected, Pins, Registers, Reg
<1>4. LeftSpeed(0, 0) = 0 /\ RightSpeed(0, 0) = 0
  BY DEF LeftSpeed, RightSpeed, Clamp
<1>5. /\ OffLeft(0, 0) = "LR" /\ OffRight(0, 0) = "RR"
      /\ \A pin \in Pins : Width(0, 0, pin) = 0
  BY <1>4 DEF OffLeft, OffRight, Off, Width, Ahead, Back, Pins
<1>6. Progress(bridge, 0, 0, 12)
  BY <1>3, <1>5 DEF Progress, Pins
<1>7. MotorTypes
  BY <1>1, <1>2 DEF Init, MotorTypes, Others
<1>8. WatchdogCounts /\ MotorsStop /\ OnTheWay /\ Settled /\ EarlierInCall /\ Separate
  BY <1>1, <1>3, <1>6
  DEF Init, WatchdogCounts, MotorsStop, Stopped, OnTheWay, Settled, EarlierInCall,
      Separate, Apart
<1> QED
  BY <1>7, <1>8 DEF MotorInv

\* Steps that leave the motors and the watchdog alone.
Elsewhere ==
    /\ UNCHANGED <<cmd, filtered, todo, v, w, bridge, n2OVF, quiet, raced>>
    /\ main' = main \/ {main, main'} \subseteq Others

LEMMA ElsewhereStep == ASSUME MotorInv, Elsewhere PROVE MotorInv'
<1> USE DEF MotorInv, Elsewhere
<1>1. /\ cmd' = cmd /\ filtered' = filtered /\ todo' = todo /\ v' = v /\ w' = w
      /\ bridge' = bridge /\ n2OVF' = n2OVF /\ quiet' = quiet /\ raced' = raced
  OBVIOUS
<1>2. MotorTypes'
  BY <1>1 DEF MotorTypes, Others
<1>3. WatchdogCounts' /\ MotorsStop'
  BY <1>1 DEF WatchdogCounts, MotorsStop, Stopped, Others
<1>4. OnTheWay'
  BY <1>1 DEF OnTheWay, Others
<1>5. Settled' /\ EarlierInCall' /\ Separate'
  BY <1>1 DEF Settled, EarlierInCall, Separate, Callers, Others
<1> QED
  BY <1>2, <1>3, <1>4, <1>5

LEMMA SetVelocityStep ==
    ASSUME MotorInv, NEW c \in Commands, main = "idle", SetVelocity(c)
    PROVE  MotorInv'
<1> USE DEF MotorInv
<1>1. /\ main' = "storeV" /\ todo' = todo /\ v' = v /\ w' = w /\ bridge' = bridge
      /\ n2OVF' = n2OVF /\ quiet' = quiet
      /\ raced' = IF raced = "this" THEN "earlier" ELSE raced
  BY DEF SetVelocity, motors
<1>2. cmd' \in Int \X Int /\ filtered' \in Int
  <2>1. c[1] \in Int /\ c[2] \in Int
    BY MotorAssumption DEF MotorAssumption, Speeds
  <2>2. cmd' = <<DeadBand(c[1]), DeadBand(c[2])>> /\ filtered' \in Filtered(cmd'[1], v)
    BY DEF SetVelocity
  <2>3. cmd' \in Int \X Int
    BY <2>1, <2>2, FilterType DEF MotorTypes
  <2>4. cmd'[1] \in Int /\ v \in Int
    BY <2>3 DEF MotorTypes
  <2> QED
    BY <2>2, <2>3, <2>4, FilterType
<1>3. MotorTypes'
  BY <1>1, <1>2 DEF MotorTypes, Callers
<1>4. WatchdogCounts' /\ MotorsStop'
  BY <1>1 DEF WatchdogCounts, MotorsStop, Stopped
<1>5. OnTheWay' /\ Settled' /\ EarlierInCall' /\ Separate'
  BY <1>1 DEF OnTheWay, Settled, EarlierInCall, Separate, Callers, Others
<1> QED
  BY <1>3, <1>4, <1>5

\* From storeV to call: the filtered velocities are computed and stored.
LEMMA FilterStep ==
    ASSUME MotorInv, StoreV \/ FilterW \/ StoreW
    PROVE  MotorInv'
<1> USE DEF MotorInv
<1>1. /\ main \in {"storeV", "filterW", "storeW"} /\ main' \in {"filterW", "storeW", "call"}
      /\ cmd' = cmd /\ todo' = todo /\ bridge' = bridge
      /\ n2OVF' = n2OVF /\ quiet' = quiet /\ raced' = raced
  BY DEF StoreV, FilterW, StoreW, command, motors, safety
<1>2. v' \in Int /\ w' \in Int /\ filtered' \in Int
  <2>1. CASE StoreV
    BY <2>1 DEF StoreV, MotorTypes, command
  <2>2. CASE FilterW
    <3>1. cmd[2] \in Int /\ w \in Int
      BY DEF MotorTypes
    <3>2. filtered' \in Filtered(cmd[2], w)
      BY <2>2 DEF FilterW
    <3> QED
      BY <2>2, <3>1, <3>2, FilterType DEF FilterW, MotorTypes, motors
  <2>3. CASE StoreW
    BY <2>3 DEF StoreW, MotorTypes, command
  <2> QED
    BY <2>1, <2>2, <2>3
<1>3. MotorTypes'
  BY <1>1, <1>2 DEF MotorTypes, Callers
<1>4. WatchdogCounts' /\ MotorsStop'
  BY <1>1 DEF WatchdogCounts, MotorsStop, Stopped
<1>5. OnTheWay' /\ Settled' /\ EarlierInCall' /\ Separate'
  BY <1>1 DEF OnTheWay, Settled, EarlierInCall, Separate, Callers, Others
<1> QED
  BY <1>3, <1>4, <1>5

LEMMA CallStep == ASSUME MotorInv, CallSetVel PROVE MotorInv'
<1> USE DEF MotorInv
<1>1. /\ main = "call" /\ main' = "drive" /\ todo' = SetVel(v, w)
      /\ cmd' = cmd /\ filtered' = filtered /\ v' = v /\ w' = w /\ bridge' = bridge
      /\ n2OVF' = n2OVF /\ quiet' = quiet /\ raced' = raced
  BY DEF CallSetVel, SetFiltered, motors, safety
<1>2. IsCommand(SetVel(v, w), v, w)
  BY CommandAccesses DEF MotorTypes
<1>3. todo' \in Seq(Accesses) /\ Len(todo') = 12 /\ todo' # <<>>
  BY <1>1, <1>2, EmptySeq DEF IsCommand
<1>4. MotorTypes'
  BY <1>1, <1>3 DEF MotorTypes, Callers
<1>5. WatchdogCounts' /\ MotorsStop'
  BY <1>1 DEF WatchdogCounts, MotorsStop
<1>6. OnTheWay'
  <2>1. \A i \in 1 .. 12 : todo'[i] = SetVel(v, w)[12 - 12 + i]
    BY <1>1
  <2>2. Progress(bridge, v, w, 12 - 12)
    BY DEF Progress
  <2> QED
    BY <1>1, <1>3, <2>1, <2>2 DEF OnTheWay
<1>7. Settled' /\ EarlierInCall' /\ Separate'
  BY <1>1 DEF Settled, EarlierInCall, Separate, Callers, Others
<1> QED
  BY <1>4, <1>5, <1>6, <1>7

LEMMA DriveStep == ASSUME MotorInv, Drive PROVE MotorInv'
<1> USE DEF MotorInv
<1>1. /\ main = "drive" /\ main' = (IF todo' = <<>> THEN "reset" ELSE "drive")
      /\ bridge' = Do(bridge, Head(todo)) /\ todo' = Tail(todo)
      /\ cmd' = cmd /\ filtered' = filtered /\ v' = v /\ w' = w
      /\ n2OVF' = n2OVF /\ quiet' = quiet /\ raced' = raced
  BY DEF Drive, safety
<1>2. todo \in Seq(Accesses) /\ todo # <<>> /\ bridge \in Bridges
  BY <1>1 DEF MotorTypes
<1>3. /\ Head(todo) \in Accesses /\ Head(todo) = todo[1]
      /\ todo' \in Seq(Accesses) /\ Len(todo') = Len(todo) - 1
      /\ Len(todo) \in Nat /\ \A i \in 1 .. Len(todo') : todo'[i] = todo[i + 1]
  BY <1>1, <1>2, HeadTailProperties, LenProperties
<1>4. bridge' \in Bridges
  BY <1>1, <1>2, <1>3, DoType
<1>5. MotorTypes'
  BY <1>1, <1>3, <1>4 DEF MotorTypes, Callers
<1>6. WatchdogCounts' /\ MotorsStop' /\ EarlierInCall'
  BY <1>1 DEF WatchdogCounts, MotorsStop, EarlierInCall, Callers
<1>7. CASE raced = "this"
  BY <1>1, <1>5, <1>6, <1>7 DEF OnTheWay, Settled, Separate
<1>8. CASE raced # "this"
  <2> DEFINE n == 12 - Len(todo)
             s == SetVel(v, w)
  <2>1. /\ n \in 0 .. 11 /\ Progress(bridge, v, w, n)
        /\ \A i \in 1 .. Len(todo) : todo[i] = s[n + i]
    <3>1. /\ Len(todo) \in 1 .. 12
          /\ \A i \in 1 .. Len(todo) : todo[i] = SetVel(v, w)[12 - Len(todo) + i]
          /\ Progress(bridge, v, w, 12 - Len(todo))
      BY <1>1, <1>8 DEF OnTheWay
    <3>2. 12 - Len(todo) \in 0 .. 11
      <4>1. PICK k \in 1 .. 12 : k = Len(todo)
        BY <3>1
      <4>2. 12 - k \in 0 .. 11
        OBVIOUS
      <4> QED
        BY <4>1, <4>2
    <3> QED
      BY <3>1, <3>2
  <2>2. IsCommand(s, v, w) /\ v \in Int /\ w \in Int
    BY CommandAccesses DEF MotorTypes
  <2> HIDE DEF s
  <2>3. bridge' = Do(bridge, s[n + 1])
    BY <1>1, <1>3, <2>1
  <2>4. 12 - Len(todo') = n + 1
    BY <1>3
  <2> HIDE DEF n
  <2>5. Progress(bridge', v, w, n + 1) /\ (Apart(bridge) => Apart(bridge'))
    BY <1>2, <2>1, <2>2, <2>3, ProgressStep
  <2>6. OnTheWay'
    <3>1. main' = "drive" => Len(todo') \in 1 .. 12
      <4>1. main' = "drive" => todo' # <<>>
        BY <1>1
      <4>2. todo' # <<>> => Len(todo') # 0
        BY <1>3, EmptySeq
      <4>3. PICK k \in Nat : k = Len(todo')
        BY <1>3, LenProperties
      <4>4. n \in 0 .. 11
        BY <2>1
      <4>5. 12 - k = n + 1
        BY <2>4, <4>3
      <4>6. k <= 12
        BY <4>4, <4>5
      <4>7. main' = "drive" => k # 0
        BY <4>1, <4>2, <4>3
      <4>8. main' = "drive" => k \in 1 .. 12
        BY <4>6, <4>7
      <4> QED
        BY <4>3, <4>8
    <3>2. \A i \in 1 .. Len(todo') : todo'[i] = s[(n + 1) + i]
      <4> TAKE i \in 1 .. Len(todo')
      <4>1. i + 1 \in 1 .. Len(todo) /\ n + (i + 1) = (n + 1) + i
        BY <1>3, <2>1
      <4>2. todo'[i] = todo[i + 1]
        BY <1>3
      <4>3. todo[i + 1] = s[n + (i + 1)]
        BY <2>1, <4>1
      <4> QED
        BY <4>1, <4>2, <4>3
    <3>3. s = SetVel(v', w') /\ v' = v /\ w' = w
      BY <1>1 DEF s
    <3> QED
      BY <2>4, <2>5, <3>1, <3>2, <3>3 DEF OnTheWay
  <2>7. Settled'
    <3>1. main' = "reset" => n + 1 = 12
      <4>1. main' = "reset" => Len(todo') = 0
        BY <1>1, EmptySeq
      <4> QED
        BY <2>4, <4>1
    <3>2. main' \in {"drive", "reset"}
      BY <1>1
    <3> QED
      BY <1>1, <2>5, <3>1, <3>2 DEF Settled, Others
  <2>8. Separate'
    BY <1>1, <2>5 DEF Separate
  <2> QED
    BY <1>5, <1>6, <2>6, <2>7, <2>8
<1> QED
  BY <1>7, <1>8

LEMMA ResetStep == ASSUME MotorInv, ResetMotorCmdTimeout PROVE MotorInv'
<1> USE DEF MotorInv
<1>1. /\ main = "reset" /\ main' = "idle" /\ cmd' = <<0, 0>> /\ filtered' = 0
      /\ todo' = todo /\ v' = v /\ w' = w /\ bridge' = bridge
      /\ n2OVF' = 0 /\ quiet' = 0
      /\ raced' = IF raced = "earlier" THEN "none" ELSE raced
  BY DEF ResetMotorCmdTimeout, motors
<1>2. Watchdog \in Nat \ {0}
  BY MotorAssumption DEF MotorAssumption
<1>3. MotorTypes'
  BY <1>1, <1>2 DEF MotorTypes, Others
<1>4. WatchdogCounts' /\ MotorsStop' /\ EarlierInCall' /\ OnTheWay'
  BY <1>1, <1>2 DEF WatchdogCounts, MotorsStop, EarlierInCall, OnTheWay, MotorTypes
<1>5. Settled' /\ Separate'
  <2>1. raced' # "this" => Progress(bridge, v, w, 12)
    BY <1>1 DEF Settled
  <2>2. Progress(bridge, v, w, 12) => Apart(bridge)
    BY SettledApart DEF MotorTypes
  <2> QED
    BY <1>1, <2>1, <2>2 DEF Settled, Separate
<1> QED
  BY <1>3, <1>4, <1>5

LEMMA OverflowStep == ASSUME MotorInv, T2Overflow PROVE MotorInv'
<1> USE DEF MotorInv
<1>1. /\ main' = main /\ cmd' = cmd /\ filtered' = filtered /\ todo' = todo
      /\ quiet' = IF quiet < Watchdog THEN quiet + 1 ELSE quiet
  BY DEF T2Overflow, command
<1>2. Watchdog \in Nat \ {0} /\ n2OVF \in 0 .. Watchdog - 1 /\ quiet \in 0 .. Watchdog
  BY MotorAssumption DEF MotorAssumption, MotorTypes
<1>3. CASE n2OVF + 1 = Watchdog
  <2>1. /\ v' = 0 /\ w' = 0 /\ bridge' = DoAll(bridge, SetVel(0, 0)) /\ n2OVF' = 0
        /\ raced' = IF InSetVelocity THEN "this" ELSE "none"
    BY <1>3 DEF T2Overflow, Expires, StopMotors
  <2>2. bridge' \in Bridges /\ Progress(bridge', 0, 0, 12)
    BY <2>1, DoAllCommand DEF MotorTypes
  <2>3. MotorTypes'
    BY <1>1, <1>2, <2>1, <2>2 DEF MotorTypes
  <2>4. Stopped'
    <3>1. bridge'.width = [pin \in Pins |-> Width(0, 0, pin)]
      BY <2>2, SettledWidths
    <3>2. LeftSpeed(0, 0) = 0 /\ RightSpeed(0, 0) = 0
      BY DEF LeftSpeed, RightSpeed, Clamp
    <3>3. \A pin \in Pins : Width(0, 0, pin) = 0
      BY <3>2 DEF Width, Ahead, Back, Pins
    <3> QED
      BY <3>1, <3>3 DEF Stopped
  <2>5. quiet' = Watchdog
    BY <1>1, <1>2, <1>3 DEF WatchdogCounts
  <2>6. WatchdogCounts' /\ MotorsStop'
    BY <1>2, <2>4, <2>5 DEF WatchdogCounts, MotorsStop
  <2>7. CASE main \in Callers
    <3>1. raced' = "this"
      BY <2>1, <2>7, Outside
    <3> QED
      BY <2>3, <2>6, <3>1 DEF OnTheWay, Settled, EarlierInCall, Separate
  <2>8. CASE main \notin Callers
    <3>1. raced' = "none"
      BY <2>1, <2>8, Outside
    <3>2. Apart(bridge')
      BY <2>2, SettledApart
    <3>3. main' # "drive"
      BY <1>1, <2>8 DEF Callers
    <3> QED
      BY <2>1, <2>2, <2>3, <2>6, <3>1, <3>2, <3>3
      DEF OnTheWay, Settled, EarlierInCall, Separate
  <2> QED
    BY <2>7, <2>8
<1>4. CASE n2OVF + 1 # Watchdog
  <2>1. /\ n2OVF' = n2OVF + 1 /\ v' = v /\ w' = w /\ bridge' = bridge /\ raced' = raced
    BY <1>4 DEF T2Overflow, Expires, motors
  <2>2. MotorTypes'
    BY <1>1, <1>2, <1>4, <2>1 DEF MotorTypes
  <2>3. WatchdogCounts'
    BY <1>1, <1>2, <2>1 DEF WatchdogCounts
  <2>4. quiet' >= Watchdog => quiet >= Watchdog
    BY <1>1, <1>2, <1>4 DEF WatchdogCounts
  <2>5. MotorsStop'
    BY <1>1, <2>1, <2>4 DEF MotorsStop, Stopped
  <2>6. OnTheWay'
    BY <1>1, <2>1 DEF OnTheWay
  <2>7. Settled' /\ EarlierInCall' /\ Separate'
    BY <1>1, <2>1 DEF Settled, EarlierInCall, Separate
  <2> QED
    BY <2>2, <2>3, <2>5, <2>6, <2>7
<1> QED
  BY <1>3, <1>4

LEMMA BottomStep ==
    ASSUME MotorInv, NEW r \in Registers, PwmBottom(r)
    PROVE  MotorInv'
<1> USE DEF MotorInv
<1>1. /\ main' = main /\ cmd' = cmd /\ filtered' = filtered /\ todo' = todo
      /\ v' = v /\ w' = w /\ n2OVF' = n2OVF /\ quiet' = quiet /\ raced' = raced
  BY DEF PwmBottom, command, safety
<1>2. /\ bridge' \in Bridges /\ bridge'.width = bridge.width
      /\ bridge'.connected = bridge.connected /\ bridge'.latch = bridge.latch
  <2>1. bridge \in Bridges
    BY DEF MotorTypes
  <2>2. bridge' = [bridge EXCEPT !.active =
                     [p \in Pins |-> IF Reg(p) = r THEN bridge.width[p] ELSE @[p]]]
    BY DEF PwmBottom
  <2> QED
    BY <2>1, <2>2 DEF Bridges
<1>3. MotorTypes'
  BY <1>1, <1>2 DEF MotorTypes
<1>4. WatchdogCounts' /\ MotorsStop'
  BY <1>1, <1>2 DEF WatchdogCounts, MotorsStop, Stopped
<1>5. OnTheWay' /\ Settled' /\ EarlierInCall' /\ Separate'
  <2>1. \A n \in Int : Progress(bridge, v, w, n) => Progress(bridge', v, w, n)
    BY <1>2 DEF Progress, Connected
  <2>2. Apart(bridge) => Apart(bridge')
    BY <1>2 DEF Apart, Connected
  <2>3. OnTheWay'
    <3>1. Len(todo) \in Nat
      BY LenProperties DEF MotorTypes
    <3> QED
      BY <1>1, <2>1, <3>1 DEF OnTheWay
  <2>4. Settled' /\ EarlierInCall' /\ Separate'
    BY <1>1, <2>1, <2>2 DEF Settled, EarlierInCall, Separate
  <2> QED
    BY <2>3, <2>4
<1> QED
  BY <1>3, <1>4, <1>5

LEMMA MotorStep == ASSUME MotorInv, [Next]_vars PROVE MotorInv'
<1>1. CASE \E c \in Commands : RcManual(c) \/ BusVelocity(c)
  BY <1>1, SetVelocityStep DEF RcManual, BusVelocity
<1>2. CASE StoreV \/ FilterW \/ StoreW
  BY <1>2, FilterStep
<1>3. CASE CallSetVel
  BY <1>3, CallStep
<1>4. CASE Drive
  BY <1>4, DriveStep
<1>5. CASE ResetMotorCmdTimeout
  BY <1>5, ResetStep
<1>6. CASE T2Overflow
  BY <1>6, OverflowStep
<1>7. CASE \E r \in Registers : PwmBottom(r)
  BY <1>7, BottomStep
<1>8. CASE RcAutonomous \/ Encoder \/ UNCHANGED vars
  <2>1. Elsewhere
    BY <1>8
    DEF RcAutonomous, Encoder, EncoderTick, EncodersRequest, CopyCounts,
        ResetEncoderCounts, EncodersResponse, vars, command, motors, safety,
        Elsewhere, Others
  <2> QED
    BY <2>1, ElsewhereStep
<1> QED
  BY <1>1, <1>2, <1>3, <1>4, <1>5, <1>6, <1>7, <1>8 DEF Next, Velocity

LEMMA MotorInvariance == Spec => []MotorInv
  BY MotorInit, MotorStep, PTL DEF Spec

-----------------------------------------------------------------------------
(* The encoders.  First, numbers that wrap around.                         *)

LEMMA DivMod ==
    ASSUME NEW a \in Nat, NEW n \in Nat \ {0}
    PROVE  /\ a \div n \in Nat /\ a % n \in 0 .. n - 1
           /\ a = n * (a \div n) + (a % n)
<1>1. a \div n \in Nat /\ a % n \in 0 .. n - 1
  OBVIOUS
<1>2. a = n * (a \div n) + (a % n)
  OBVIOUS
<1> QED
  BY <1>1, <1>2

LEMMA SmallMultiple ==
    ASSUME NEW n \in Nat \ {0}, NEW x \in Int, n * x < n, n * x > -n
    PROVE  x = 0
<1>1. CASE x >= 1
  <2>1. n * x >= n
    BY <1>1
  <2> QED
    BY <2>1
<1>2. CASE x <= -1
  <2>1. n * x <= -n
    BY <1>2
  <2> QED
    BY <2>1
<1> QED
  BY <1>1, <1>2

LEMMA ModUnique ==
    ASSUME NEW n \in Nat \ {0}, NEW a \in Nat, NEW q \in Int, NEW r \in 0 .. n - 1,
           a = n * q + r
    PROVE  a % n = r
<1>1. a = n * (a \div n) + (a % n) /\ a \div n \in Nat /\ a % n \in 0 .. n - 1
  BY DivMod
<1>2. n * (q - a \div n) = (a % n) - r
  BY <1>1
<1>3. q - a \div n = 0
  BY <1>1, <1>2, SmallMultiple
<1> QED
  BY <1>1, <1>2, <1>3

LEMMA ModShift ==
    ASSUME NEW n \in Nat \ {0}, NEW a \in Nat, NEW b \in Nat, NEW q \in Int,
           a = b + n * q
    PROVE  a % n = b % n
<1> DEFINE r == b % n
           p == b \div n
<1>1. b = n * p + r /\ p \in Nat /\ r \in 0 .. n - 1
  BY DivMod
<1> HIDE DEF r, p
<1>2. a = n * (q + p) + r /\ q + p \in Int
  BY <1>1
<1>3. a % n = r
  BY <1>1, <1>2, ModUnique
<1> QED
  BY <1>3 DEF r

LEMMA ModSucc ==
    ASSUME NEW n \in Nat \ {0}, NEW k \in Nat
    PROVE  ((k % n) + 1) % n = (k + 1) % n
<1> DEFINE r == k % n
           q == k \div n
<1>1. k = n * q + r /\ q \in Nat /\ r \in 0 .. n - 1
  BY DivMod
<1> HIDE DEF r, q
<1>2. k + 1 = (r + 1) + n * q /\ r + 1 \in Nat /\ k + 1 \in Nat /\ q \in Int
  BY <1>1
<1>3. (k + 1) % n = (r + 1) % n
  BY <1>2, ModShift
<1> QED
  BY <1>3 DEF r

LEMMA ModSmall ==
    ASSUME NEW n \in Nat \ {0}, NEW r \in 0 .. n - 1
    PROVE  r % n = r
<1> DEFINE q == r \div n
           s == r % n
<1>0. r \in Nat
  OBVIOUS
<1>1. r = n * q + s /\ q \in Nat /\ s \in 0 .. n - 1
  BY <1>0, DivMod
<1> HIDE DEF q, s
<1>2. n * q < n /\ n * q > -n
  BY <1>1
<1>3. q = 0
  BY <1>1, <1>2, SmallMultiple
<1>4. r = s
  BY <1>1, <1>3
<1> QED
  BY <1>4 DEF s

\* Nothing is counted while the count is copied, cleared and reported.
EncoderInv ==
    /\ masked \in BOOLEAN /\ (masked <=> main \in {"copy", "clear", "respond"})
    /\ encCount \in 0 .. EncMod - 1 /\ counts \in 0 .. EncMod - 1
    /\ told \in 0 .. EncMod - 1 /\ ticks \in Nat
    /\ main # "respond" => (told + encCount) % EncMod = ticks % EncMod
    /\ main = "clear" => counts = encCount
    /\ main = "respond" =>
         encCount = 0 /\ (told + counts) % EncMod = ticks % EncMod

LEMMA EncoderInit == Init => EncoderInv
<1> SUFFICES ASSUME Init PROVE EncoderInv
  OBVIOUS
<1>1. masked \in BOOLEAN
  BY Zenon DEF Init
<1> QED
  BY <1>1, MotorAssumption DEF Init, EncoderInv, MotorAssumption

LEMMA EncoderStep == ASSUME EncoderInv, [Next]_vars PROVE EncoderInv'
<1> USE DEF EncoderInv
<1>1. EncMod \in Nat \ {0}
  BY MotorAssumption DEF MotorAssumption
<1>2. CASE EncoderTick
  <2>1. /\ main' = main /\ masked' = masked /\ counts' = counts /\ told' = told
        /\ ticks' = ticks + 1 /\ encCount' = (encCount + 1) % EncMod /\ ~masked
    BY <1>2 DEF EncoderTick
  <2>2. main \notin {"copy", "clear", "respond"}
    BY <2>1
  <2>3. (told + encCount) % EncMod = ticks % EncMod
    BY <2>2
  <2>4. ((told + encCount) + 1) % EncMod = (ticks + 1) % EncMod
    <3>1. told + encCount \in Nat /\ ticks \in Nat
      BY <1>1
    <3> QED
      BY <1>1, <2>3, <3>1, ModSucc
  <2>5. encCount' \in 0 .. EncMod - 1
    <3>1. encCount + 1 \in Nat
      BY <1>1
    <3> QED
      BY <1>1, <2>1, <3>1, DivMod
  <2>6. (told + encCount') % EncMod = (ticks + 1) % EncMod
    <3> DEFINE q == (encCount + 1) \div EncMod
               r == (encCount + 1) % EncMod
               x == (told + encCount) + 1
    <3>1. encCount + 1 \in Nat /\ told \in Nat
      BY <1>1
    <3>2. encCount + 1 = EncMod * q + r /\ q \in Nat /\ r \in 0 .. EncMod - 1
      BY <1>1, <3>1, DivMod
    <3>3. x \in Nat /\ x = told + (encCount + 1)
      BY <1>1
    <3>4. encCount' = r /\ x % EncMod = (ticks + 1) % EncMod
      BY <2>1, <2>4
    <3> HIDE DEF q, r, x
    <3>5. x = (told + r) + EncMod * q /\ told + r \in Nat /\ q \in Int
      BY <1>1, <3>1, <3>2, <3>3
    <3>6. x % EncMod = (told + r) % EncMod
      BY <1>1, <3>3, <3>5, ModShift
    <3> QED
      BY <3>4, <3>6
  <2> QED
    BY <2>1, <2>2, <2>5, <2>6
<1>3. CASE EncodersRequest
  <2>1. masked' = TRUE /\ masked' \in BOOLEAN
    BY <1>3, Zenon DEF EncodersRequest, Mask
  <2> QED
    BY <1>3, <2>1 DEF EncodersRequest
<1>4. CASE CopyCounts
  BY <1>4 DEF CopyCounts
<1>5. CASE ResetEncoderCounts
  <2>1. /\ main = "clear" /\ main' = "respond" /\ encCount' = 0
        /\ masked' = masked /\ counts' = counts /\ told' = told /\ ticks' = ticks
    BY <1>5 DEF ResetEncoderCounts
  <2>2. (told + counts) % EncMod = ticks % EncMod
    BY <2>1
  <2> QED
    BY <1>1, <2>1, <2>2
<1>6. CASE EncodersResponse
  <2>1. /\ main = "respond" /\ main' = "idle" /\ masked' = FALSE
        /\ told' = (told + counts) % EncMod /\ counts' = 0
        /\ encCount' = encCount /\ ticks' = ticks
    BY <1>6 DEF EncodersResponse
  <2>2. masked' \in BOOLEAN
    BY <2>1, Zenon
  <2>3. encCount = 0 /\ told' = ticks % EncMod
    BY <2>1
  <2>4. told' \in 0 .. EncMod - 1
    BY <1>1, <2>3, DivMod
  <2>5. (told' + encCount') % EncMod = ticks % EncMod
    <3>1. encCount' = 0
      BY <2>1, <2>3
    <3>2. PICK k \in 0 .. EncMod - 1 : k = told'
      BY <2>4
    <3>3. k \in Nat /\ k + 0 = k
      BY <1>1
    <3>4. k % EncMod = k
      BY <1>1, <3>2, ModSmall
    <3> QED
      BY <2>3, <3>1, <3>2, <3>3, <3>4
  <2> QED
    BY <1>1, <2>1, <2>2, <2>3, <2>4, <2>5
<1>7. CASE Velocity \/ T2Overflow \/ (\E r \in Registers : PwmBottom(r)) \/ UNCHANGED vars
  <2>1. /\ masked' = masked /\ encCount' = encCount /\ counts' = counts
        /\ ticks' = ticks /\ told' = told
    BY <1>7
    DEF Velocity, RcManual, BusVelocity, SetVelocity, RcAutonomous, StoreV, FilterW,
        StoreW, CallSetVel, Drive, ResetMotorCmdTimeout, T2Overflow, PwmBottom,
        vars, encoders
  <2>2. main' = main \/ {main, main'} \cap {"copy", "clear", "respond"} = {}
    BY <1>7
    DEF Velocity, RcManual, BusVelocity, SetVelocity, RcAutonomous, StoreV, FilterW,
        StoreW, CallSetVel, Drive, ResetMotorCmdTimeout, T2Overflow, PwmBottom,
        vars
  <2> QED
    BY <2>1, <2>2
<1> QED
  BY <1>2, <1>3, <1>4, <1>5, <1>6, <1>7 DEF Next, Encoder

-----------------------------------------------------------------------------
\* Without a command for Watchdog overflows of timer 2 the motors stand, and
\* stay so, wherever in SetVelocity the watchdog struck (main.c:87-106,
\* 279-300).
THEOREM WatchdogStopsMotors == Spec => []MotorsStop
<1>1. MotorInv => MotorsStop
  BY DEF MotorInv
<1> QED
  BY <1>1, MotorInvariance, PTL

\* No command connects both pins of a side, and no watchdog between two of its
\* accesses leaves both connected once a later command has run to its end
\* (MotorControllerHBridge.c:57-91, 143-189).
THEOREM NoBridgeIsShorted == Spec => []NoShootThrough
<1>1. MotorInv => NoShootThrough
  BY DEF MotorInv, Separate, Apart, Connected, NoShootThrough, Driven
<1> QED
  BY <1>1, MotorInvariance, PTL

\* When no call of SetVelocity is on its way, and the watchdog did not strike
\* in the last, the pulse widths are those of the filtered velocities
\* (main.c:95-106, 288-297).
THEOREM BothSidesFollow == Spec => []WidthsFollowFilter
<1>1. MotorInv => WidthsFollowFilter
  <2> SUFFICES ASSUME MotorInv, ~InSetVelocity, raced = "none"
               PROVE  bridge.width = WidthsOf(v, w)
    BY DEF WidthsFollowFilter
  <2>1. bridge \in Bridges /\ v \in Int /\ w \in Int /\ main \in Others
    BY Outside DEF MotorInv, MotorTypes
  <2>2. Progress(bridge, v, w, 12)
    BY <2>1 DEF MotorInv, Settled
  <2> DEFINE d == DoAll(bridge, SetVel(v, w))
  <2>3. d \in Bridges /\ Progress(d, v, w, 12)
    BY <2>1, DoAllCommand
  <2>4. WidthsOf(v, w) = d.width
    BY DEF WidthsOf
  <2> HIDE DEF d
  <2>5. bridge.width = [pin \in Pins |-> Width(v, w, pin)]
    BY <2>1, <2>2, SettledWidths
  <2>6. d.width = [pin \in Pins |-> Width(v, w, pin)]
    BY <2>1, <2>3, SettledWidths
  <2> QED
    BY <2>4, <2>5, <2>6
<1> QED
  BY <1>1, MotorInvariance, PTL

\* No tick of an encoder is lost or told twice, for every width of the counts
\* (main.c:427-440, 468-484).
THEOREM NoTickIsLost == Spec => []EncodersAddUp
<1>1. EncoderInv => EncodersAddUp
  BY DEF EncoderInv, EncodersAddUp
<1> QED
  BY <1>1, EncoderInit, EncoderStep, PTL DEF Spec

=============================================================================
