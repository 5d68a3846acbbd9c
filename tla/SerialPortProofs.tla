-------------------------- MODULE SerialPortProofs --------------------------
(***************************************************************************)
(* For every size of the buffers and of their indices, and whether or not  *)
(* the callers leave room, a serial port keeps its types and never stalls. *)
(* NoStall is inductive as it stands, relative to the types.               *)
(*                                                                         *)
(* When the callers leave room, and an index has more values than a buffer *)
(* has entries, each buffer is a queue although the indices wrap around:   *)
(* the invariant Window says where every byte is that was put and not yet  *)
(* taken.  That the line is released follows from it.                      *)
(***************************************************************************)
EXTENDS SerialPort, Integers, SequenceTheorems, TLAPS

\* Every operation on a buffer gives a buffer again.
LEMMA InitBuffer == CBUF_Init \in Buffers
  BY PortAssumption DEF PortAssumption, CBUF_Init, Buffers, Bytes, Entries

LEMMA BufferOperations ==
    ASSUME NEW b \in Buffers, NEW x \in Bytes
    PROVE  /\ StoreEntry(b, x) \in Buffers
           /\ StorePutIdx(b) \in Buffers
           /\ StoreGetIdx(b) \in Buffers
           /\ CBUF_Push(b, x) \in Buffers
           /\ ReadEntry(b) \in Bytes
<1> USE PortAssumption DEF PortAssumption
<1>1. \A i \in Nat : Masked(i) \in Entries
  BY DEF Masked, Entries
<1>2. \A i \in Nat : Bump(i) \in 0 .. IndexMod - 1
  BY DEF Bump
<1>3. \A c \in Buffers : StoreEntry(c, x) \in Buffers
  BY <1>1 DEF StoreEntry, Buffers
<1>4. \A c \in Buffers : StorePutIdx(c) \in Buffers /\ StoreGetIdx(c) \in Buffers
  BY <1>2 DEF StorePutIdx, StoreGetIdx, Buffers
<1>5. ReadEntry(b) \in Bytes
  BY <1>1 DEF ReadEntry, Buffers
<1> QED
  BY <1>3, <1>4, <1>5 DEF CBUF_Push

\* Storing an entry does not change how many entries a buffer holds.
LEMMA StoreEntryKeepsLength ==
    ASSUME NEW b \in Buffers, NEW x \in Bytes
    PROVE  CBUF_Len(StoreEntry(b, x)) = CBUF_Len(b)
  BY DEF StoreEntry, CBUF_Len, Buffers

LEMMA TypeInit == Init => TypeOK
<1> SUFFICES ASSUME Init PROVE TypeOK
  OBVIOUS
<1>1. {udrie, driver, txc} \subseteq BOOLEAN
  BY Zenon DEF Init
<1>2. {putbuf, getbuf} \subseteq Buffers
  BY InitBuffer DEF Init
<1> QED
  BY <1>1, <1>2, PortAssumption DEF PortAssumption, Init, TypeOK, Bytes

LEMMA TypeStep ==
    ASSUME TypeOK, [Next]_vars
    PROVE  TypeOK'
<1> USE PortAssumption DEF PortAssumption, TypeOK
<1>1. CASE PutEntry
  <2>1. pushed + 1 \in Bytes
    BY <1>1 DEF PutEntry, Bytes
  <2>2. putbuf' \in Buffers
    BY <1>1, <2>1, BufferOperations DEF PutEntry
  <2> QED
    BY <1>1, <2>1, <2>2 DEF PutEntry, rxVars, uart
<1>2. CASE PutIndex
  <2>1. putbuf' \in Buffers
    BY <1>2, BufferOperations DEF PutIndex, Bytes
  <2> QED
    BY <1>2, <2>1 DEF PutIndex, rxVars, uart
<1>3. CASE PutEnable
  BY <1>3 DEF PutEnable, EnableUdre, txVars, rxVars, uart
<1>4. CASE GetEntry
  <2>1. ret' \in Bytes
    BY <1>4, BufferOperations DEF GetEntry, Bytes
  <2> QED
    BY <1>4, <2>1 DEF GetEntry, txVars, uart
<1>5. CASE GetIndex
  <2>1. getbuf' \in Buffers
    BY <1>5, BufferOperations DEF GetIndex, Bytes
  <2> QED
    BY <1>5, <2>1 DEF GetIndex, txVars, uart
<1>6. CASE USART_RX
  <2>1. arrived + 1 \in Bytes
    BY <1>6 DEF USART_RX, Bytes
  <2>2. getbuf' \in Buffers
    BY <1>6, <2>1, BufferOperations DEF USART_RX
  <2> QED
    BY <1>6, <2>1, <2>2 DEF USART_RX, txVars, uart
<1>7. CASE USART_UDRE
  <2>1. putbuf' \in Buffers /\ udr' \in Bytes /\ lastSent' \in Bytes
    BY <1>7, BufferOperations DEF USART_UDRE, Bytes
  <2>2. driver' \in BOOLEAN /\ udrie' \in BOOLEAN /\ popped' \in Nat
    <3>1. driver' \in BOOLEAN
      BY <1>7, Zenon DEF USART_UDRE, DriverOn
    <3>2. udrie' \in BOOLEAN
      BY <1>7, Zenon DEF USART_UDRE
    <3> QED
      BY <1>7, <3>1, <3>2 DEF USART_UDRE
  <2> QED
    BY <1>7, <2>1, <2>2 DEF USART_UDRE, rxVars
<1>8. CASE USART_TX
  <2>1. driver' \in BOOLEAN
    BY <1>8, Zenon DEF USART_TX
  <2> QED
    BY <1>8, <2>1 DEF USART_TX, rxVars
<1>9. CASE StartByte
  BY <1>9 DEF StartByte, rxVars, Bytes
<1>10. CASE EndByte
  <2>1. txc' \in BOOLEAN
    BY <1>10, Zenon DEF EndByte
  <2> QED
    BY <1>10, <2>1 DEF EndByte, rxVars, Bytes
<1>11. CASE UNCHANGED vars
  BY <1>11 DEF vars, txVars, rxVars, uart
<1> QED
  BY <1>1, <1>2, <1>3, <1>4, <1>5, <1>6, <1>7, <1>8, <1>9, <1>10, <1>11
  DEF Next, MainLoop

-----------------------------------------------------------------------------
LEMMA NoStallInit == Init => NoStall
  BY PortAssumption
  DEF PortAssumption, Init, NoStall, CBUF_IsEmpty, CBUF_Len, CBUF_Init

\* The interrupt disables itself only in the step that finds the buffer empty,
\* and a byte put after that step is announced by PutEnable.
LEMMA NoStallStep ==
    ASSUME TypeOK, NoStall, [Next]_vars
    PROVE  NoStall'
<1> USE DEF NoStall
<1>1. CASE PutEntry
  <2>1. CBUF_Len(putbuf') = CBUF_Len(putbuf)
    <3>1. pushed + 1 \in Bytes
      BY <1>1, PortAssumption DEF PutEntry, TypeOK, Bytes, PortAssumption
    <3> QED
      BY <1>1, <3>1, StoreEntryKeepsLength DEF PutEntry, TypeOK
  <2> QED
    BY <1>1, <2>1 DEF PutEntry, CBUF_IsEmpty
<1>2. CASE PutIndex
  BY <1>2 DEF PutIndex
<1>3. CASE PutEnable
  BY <1>3 DEF PutEnable, EnableUdre
<1>4. CASE GetEntry
  BY <1>4 DEF GetEntry, txVars, CBUF_IsEmpty, CBUF_Len
<1>5. CASE GetIndex
  BY <1>5 DEF GetIndex, txVars, CBUF_IsEmpty, CBUF_Len
<1>6. CASE USART_RX
  BY <1>6 DEF USART_RX, txVars, CBUF_IsEmpty, CBUF_Len
<1>7. CASE USART_UDRE
  <2>1. CASE ~CBUF_IsEmpty(putbuf)
    BY <1>7, <2>1 DEF USART_UDRE, UdrePending
  <2>2. CASE CBUF_IsEmpty(putbuf)
    BY <1>7, <2>2 DEF USART_UDRE, CBUF_IsEmpty, CBUF_Len
  <2> QED
    BY <2>1, <2>2
<1>8. CASE USART_TX
  BY <1>8 DEF USART_TX, CBUF_IsEmpty, CBUF_Len
<1>9. CASE StartByte
  BY <1>9 DEF StartByte, CBUF_IsEmpty, CBUF_Len
<1>10. CASE EndByte
  BY <1>10 DEF EndByte, CBUF_IsEmpty, CBUF_Len
<1>11. CASE UNCHANGED vars
  BY <1>11 DEF vars, txVars, CBUF_IsEmpty, CBUF_Len
<1> QED
  BY <1>1, <1>2, <1>3, <1>4, <1>5, <1>6, <1>7, <1>8, <1>9, <1>10, <1>11
  DEF Next, MainLoop

-----------------------------------------------------------------------------
(* Indices that wrap around.                                               *)

LEMMA DivMod ==
    ASSUME NEW a \in Nat, NEW n \in Nat \ {0}
    PROVE  /\ a \div n \in Nat /\ a % n \in 0 .. n - 1
           /\ a = n * (a \div n) + (a % n)
<1>1. a \div n \in Nat /\ a % n \in 0 .. n - 1
  OBVIOUS
<1>2. a = n * (a \div n) + (a % n)
  OBVIOUS
<1> QED
  BY <1>1, <1>2

LEMMA SmallMultiple ==
    ASSUME NEW n \in Nat \ {0}, NEW x \in Int, n * x < n, n * x > -n
    PROVE  x = 0
<1>1. CASE x >= 1
  <2>1. n * x >= n
    BY <1>1
  <2> QED
    BY <2>1
<1>2. CASE x <= -1
  <2>1. n * x <= -n
    BY <1>2
  <2> QED
    BY <2>1
<1> QED
  BY <1>1, <1>2

LEMMA ModUnique ==
    ASSUME NEW n \in Nat \ {0}, NEW a \in Nat, NEW q \in Int, NEW r \in 0 .. n - 1,
           a = n * q + r
    PROVE  a % n = r
<1>1. a = n * (a \div n) + (a % n) /\ a \div n \in Nat /\ a % n \in 0 .. n - 1
  BY DivMod
<1>2. n * (q - a \div n) = (a % n) - r
  BY <1>1
<1>3. q - a \div n = 0
  BY <1>1, <1>2, SmallMultiple
<1> QED
  BY <1>1, <1>2, <1>3

LEMMA ModShift ==
    ASSUME NEW n \in Nat \ {0}, NEW a \in Nat, NEW b \in Nat, NEW q \in Int,
           a = b + n * q
    PROVE  a % n = b % n
<1> DEFINE r == b % n
           p == b \div n
<1>1. b = n * p + r /\ p \in Nat /\ r \in 0 .. n - 1
  BY DivMod
<1> HIDE DEF r, p
<1>2. a = n * (q + p) + r /\ q + p \in Int
  BY <1>1
<1>3. a % n = r
  BY <1>1, <1>2, ModUnique
<1> QED
  BY <1>3 DEF r

\* Bump: the index of the next byte.
LEMMA ModSucc ==
    ASSUME NEW n \in Nat \ {0}, NEW k \in Nat
    PROVE  ((k % n) + 1) % n = (k + 1) % n
<1> DEFINE r == k % n
           q == k \div n
<1>1. k = n * q + r /\ q \in Nat /\ r \in 0 .. n - 1
  BY DivMod
<1> HIDE DEF r, q
<1>2. k + 1 = (r + 1) + n * q /\ r + 1 \in Nat /\ k + 1 \in Nat /\ q \in Int
  BY <1>1
<1>3. (k + 1) % n = (r + 1) % n
  BY <1>2, ModShift
<1> QED
  BY <1>3 DEF r

\* Masked: wrapping at IndexMod does not show in a slot.
LEMMA ModMod ==
    ASSUME NEW k \in Nat, NEW n \in Nat \ {0}, NEW s \in Nat \ {0}, n % s = 0
    PROVE  (k % n) % s = k % s
<1> DEFINE r == k % n
           q == k \div n
           d == n \div s
           c == d * q
<1>1. k = n * q + r /\ q \in Nat /\ r \in Nat
  BY DivMod
<1>2. n = s * d /\ d \in Nat
  BY DivMod
<1> HIDE DEF r, q, d
<1>3. n * q = s * c /\ c \in Int
  BY <1>1, <1>2
<1>4. c \in Int /\ r \in Nat /\ k = r + s * c
  BY <1>1, <1>3
<1> HIDE DEF c
<1>5. k % s = r % s
  BY <1>4, ModShift
<1> QED
  BY <1>5 DEF r

\* CBUF_Len: the difference of two wrapped counts.
LEMMA ModDistance ==
    ASSUME NEW n \in Nat \ {0}, NEW p \in Nat, NEW g \in Nat, g <= p, p - g < n
    PROVE  ((p % n) + n - (g % n)) % n = p - g
<1> DEFINE rp == p % n
           rg == g % n
           qp == p \div n
           qg == g \div n
<1>1. p = n * qp + rp /\ qp \in Nat /\ rp \in 0 .. n - 1
  BY DivMod
<1>2. g = n * qg + rg /\ qg \in Nat /\ rg \in 0 .. n - 1
  BY DivMod
<1> HIDE DEF rp, rg, qp, qg
<1>3. rp + n - rg = n * (1 + qg - qp) + (p - g)
  BY <1>1, <1>2
<1>4. rp + n - rg \in Nat /\ 1 + qg - qp \in Int /\ p - g \in 0 .. n - 1
  BY <1>1, <1>2
<1>5. (rp + n - rg) % n = p - g
  BY <1>3, <1>4, ModUnique
<1> QED
  BY <1>5 DEF rp, rg

\* The bytes of a window have slots of their own.
LEMMA ModApart ==
    ASSUME NEW n \in Nat \ {0}, NEW a \in Nat, NEW b \in Nat, a < b, b - a < n
    PROVE  a % n # b % n
<1> SUFFICES ASSUME a % n = b % n
             PROVE  FALSE
  OBVIOUS
<1>1. a = n * (a \div n) + (a % n) /\ a \div n \in Nat
  BY DivMod
<1>2. b = n * (b \div n) + (b % n) /\ b \div n \in Nat
  BY DivMod
<1>3. n * ((b \div n) - (a \div n)) = b - a
  BY <1>1, <1>2
<1>4. (b \div n) - (a \div n) = 0
  BY <1>1, <1>2, <1>3, SmallMultiple
<1> QED
  BY <1>3, <1>4

-----------------------------------------------------------------------------
(* A buffer as a window of the bytes g + 1 .. p, the entries of which are  *)
(* stored up to the byte number top.                                       *)

Window(b, g, p, top) ==
    /\ g <= p /\ p <= top /\ top - g <= Size
    /\ b.m_putIdx = p % IndexMod /\ b.m_getIdx = g % IndexMod
    /\ \A k \in g .. top - 1 : b.m_entry[k % Size] = k + 1

LEMMA WindowLen ==
    ASSUME NEW b, NEW g \in Nat, NEW p \in Nat, NEW top \in Nat,
           Window(b, g, p, top), Size < IndexMod
    PROVE  CBUF_Len(b) = p - g
<1>1. g <= p /\ p - g < IndexMod /\ IndexMod \in Nat \ {0}
  BY PortAssumption DEF Window, PortAssumption
<1>2. ((p % IndexMod) + IndexMod - (g % IndexMod)) % IndexMod = p - g
  BY <1>1, ModDistance
<1> QED
  BY <1>2 DEF Window, CBUF_Len

LEMMA Slot ==
    ASSUME NEW k \in Nat
    PROVE  Masked(k % IndexMod) = k % Size /\ k % Size \in Entries
<1>1. Size \in Nat \ {0} /\ IndexMod \in Nat \ {0} /\ IndexMod % Size = 0
  BY PortAssumption DEF PortAssumption
<1>2. (k % IndexMod) % Size = k % Size
  BY <1>1, ModMod
<1>3. k % Size \in 0 .. Size - 1
  BY <1>1, DivMod
<1> QED
  BY <1>2, <1>3 DEF Masked, Entries

LEMMA WindowStoreEntry ==
    ASSUME NEW b \in Buffers, NEW g \in Nat, NEW p \in Nat,
           Window(b, g, p, p), p - g < Size
    PROVE  Window(StoreEntry(b, p + 1), g, p, p + 1)
<1> DEFINE c == StoreEntry(b, p + 1)
<1>1. /\ b.m_putIdx = p % IndexMod /\ b.m_getIdx = g % IndexMod /\ g <= p
      /\ \A k \in g .. p - 1 : b.m_entry[k % Size] = k + 1
  BY DEF Window
<1>2. /\ c.m_putIdx = b.m_putIdx /\ c.m_getIdx = b.m_getIdx
      /\ c.m_entry = [b.m_entry EXCEPT ![p % Size] = p + 1]
  BY <1>1, Slot DEF StoreEntry, Buffers
<1>3. b.m_entry \in [Entries -> Bytes]
  BY DEF Buffers
<1> HIDE DEF c
<1>4. ASSUME NEW k \in g .. p
      PROVE  c.m_entry[k % Size] = k + 1
  <2>1. k \in Nat /\ k % Size \in Entries /\ p % Size \in Entries
    BY <1>1, Slot
  <2>2. CASE k = p
    BY <1>2, <1>3, <2>1, <2>2
  <2>3. CASE k # p
    <3>1. k \in g .. p - 1 /\ k < p /\ p - k < Size
      BY <1>1, <2>3, PortAssumption DEF PortAssumption
    <3>2. k % Size # p % Size
      BY <2>1, <3>1, ModApart, PortAssumption DEF PortAssumption
    <3> QED
      BY <1>1, <1>2, <1>3, <2>1, <3>1, <3>2
  <2> QED
    BY <2>2, <2>3
<1>5. g <= p /\ p <= p + 1 /\ (p + 1) - g <= Size
  BY <1>1, PortAssumption DEF PortAssumption
<1>6. (p + 1) - 1 = p
  OBVIOUS
<1> QED
  BY <1>1, <1>2, <1>4, <1>5, <1>6 DEF Window, c

LEMMA WindowStorePutIdx ==
    ASSUME NEW b \in Buffers, NEW g \in Nat, NEW p \in Nat, Window(b, g, p, p + 1)
    PROVE  Window(StorePutIdx(b), g, p + 1, p + 1)
<1>1. Bump(p % IndexMod) = (p + 1) % IndexMod
  BY ModSucc, PortAssumption DEF PortAssumption, Bump
<1>2. /\ StorePutIdx(b).m_putIdx = Bump(b.m_putIdx)
      /\ StorePutIdx(b).m_getIdx = b.m_getIdx
      /\ StorePutIdx(b).m_entry = b.m_entry
  BY DEF StorePutIdx, Buffers
<1> QED
  BY <1>1, <1>2 DEF Window

LEMMA WindowReadEntry ==
    ASSUME NEW b, NEW g \in Nat, NEW p \in Nat, NEW top \in Nat,
           Window(b, g, p, top), g < p
    PROVE  ReadEntry(b) = g + 1
<1>1. g \in g .. top - 1
  BY DEF Window
<1> QED
  BY <1>1, Slot DEF Window, ReadEntry

LEMMA WindowStoreGetIdx ==
    ASSUME NEW b \in Buffers, NEW g \in Nat, NEW p \in Nat, NEW top \in Nat,
           Window(b, g, p, top), g < p
    PROVE  Window(StoreGetIdx(b), g + 1, p, top)
<1>1. Bump(g % IndexMod) = (g + 1) % IndexMod
  BY ModSucc, PortAssumption DEF PortAssumption, Bump
<1>2. /\ StoreGetIdx(b).m_getIdx = Bump(b.m_getIdx)
      /\ StoreGetIdx(b).m_putIdx = b.m_putIdx
      /\ StoreGetIdx(b).m_entry = b.m_entry
  BY DEF StoreGetIdx, Buffers
<1>3. g + 1 <= p /\ p <= top /\ top - (g + 1) <= Size
  BY PortAssumption DEF Window, PortAssumption
<1>4. \A k \in g + 1 .. top - 1 : k \in g .. top - 1
  OBVIOUS
<1> QED
  BY <1>1, <1>2, <1>3, <1>4 DEF Window

\* What the window holds, as a queue.
Numbers(g, p) == [i \in 1 .. p - g |-> g + i]

LEMMA WindowContents ==
    ASSUME NEW b, NEW g \in Nat, NEW p \in Nat, NEW top \in Nat,
           Window(b, g, p, top), Size < IndexMod
    PROVE  Contents(b) = Numbers(g, p)
<1>1. CBUF_Len(b) = p - g
  BY WindowLen
<1>2. ASSUME NEW i \in 1 .. p - g
      PROVE  b.m_entry[Masked(b.m_getIdx + i - 1)] = g + i
  <2> DEFINE k == g + i - 1
             r == g % IndexMod
             q == g \div IndexMod
  <2>1. k \in Nat /\ k \in g .. top - 1 /\ k + 1 = g + i /\ i - 1 \in Nat
    <3>1. g <= p /\ p <= top
      BY DEF Window
    <3> QED
      BY <3>1
  <2>2. g = IndexMod * q + r /\ q \in Nat /\ r \in Nat
    <3>1. IndexMod \in Nat \ {0}
      BY PortAssumption DEF PortAssumption
    <3>2. /\ g \div IndexMod \in Nat /\ g % IndexMod \in 0 .. IndexMod - 1
          /\ g = IndexMod * (g \div IndexMod) + (g % IndexMod)
      BY <3>1, DivMod
    <3> QED
      BY <3>1, <3>2
  <2>3. k = (r + i - 1) + IndexMod * q /\ r + i - 1 \in Nat
    BY <2>2, PortAssumption DEF PortAssumption
  <2>4. IndexMod \in Nat \ {0} /\ Size \in Nat \ {0} /\ IndexMod % Size = 0
    BY PortAssumption DEF PortAssumption
  <2>5. b.m_getIdx = r
    BY DEF Window
  <2>6. b.m_entry[k % Size] = k + 1
    BY <2>1 DEF Window
  <2> HIDE DEF k, r, q
  <2> DEFINE j == r + i - 1
  <2>7. j \in Nat /\ k \in Nat /\ q \in Int /\ k = j + IndexMod * q
    BY <2>1, <2>2, <2>3
  <2> HIDE DEF j
  <2>8. k % IndexMod = j % IndexMod
    BY <2>4, <2>7, ModShift
  <2>9. (k % IndexMod) % Size = k % Size /\ (j % IndexMod) % Size = j % Size
    BY <2>1, <2>4, <2>7, ModMod
  <2>10. b.m_entry[j % Size] = g + i
    BY <2>1, <2>6, <2>8, <2>9
  <2> QED
    BY <2>5, <2>10 DEF Masked, j
<1> QED
  BY <1>1, <1>2 DEF Contents, Numbers

LEMMA NumbersPut ==
    ASSUME NEW g \in Nat, NEW p \in Nat, g <= p
    PROVE  Numbers(g, p + 1) = Append(Numbers(g, p), p + 1)
  BY DEF Numbers

LEMMA NumbersTake ==
    ASSUME NEW g \in Nat, NEW p \in Nat, g < p
    PROVE  /\ Numbers(g, p) # <<>> /\ Head(Numbers(g, p)) = g + 1
           /\ Tail(Numbers(g, p)) = Numbers(g + 1, p)
<1> DEFINE s == Numbers(g, p)
           t == Numbers(g + 1, p)
<1>1. s \in Seq(Nat) /\ Len(s) = p - g /\ \A i \in 1 .. p - g : s[i] = g + i
  BY DEF Numbers
<1>2. /\ t \in Seq(Nat) /\ Len(t) = p - g - 1
      /\ \A i \in 1 .. p - g - 1 : t[i] = g + 1 + i
  BY DEF Numbers
<1> HIDE DEF s, t
<1>3. s # <<>> /\ Head(s) = g + 1
  BY <1>1
<1>4. Tail(s) \in Seq(Nat) /\ Len(Tail(s)) = p - g - 1
  BY <1>1
<1>5. \A i \in 1 .. p - g - 1 : Tail(s)[i] = t[i]
  BY <1>1, <1>2
<1>6. Tail(s) = t
  BY <1>2, <1>4, <1>5, SeqEqual
<1> QED
  BY <1>3, <1>6 DEF s, t

-----------------------------------------------------------------------------
(* The invariant of a port whose callers leave room.                       *)

\* Between its two stores PutEntry has stored one byte more.
TxWindow ==
    /\ Window(putbuf, popped, pushed, IF main = "putIndex" THEN pushed + 1 ELSE pushed)
    /\ lastSent = popped

\* The bytes are taken in order: the last one is also how many were taken.
RxWindow ==
    /\ Window(getbuf, lastGot, arrived, arrived)
    /\ main = "getIndex" => lastGot < arrived /\ ret = lastGot + 1

\* Whatever keeps the driver on is still to be followed by a TX interrupt.
DriverNotLeft ==
    driver => ~CBUF_IsEmpty(putbuf) \/ udr # 0 \/ shift # 0 \/ txc

\* What CBUF.h asks of its users: room for what they push, and a size smaller than
\* the index ("an 8 bit index supports a circular buffer upto 128 entries",
\* CBUF.h:18-20), as in rs485.c, uart1.c and uart2.c, but not in uart0.c and uart3.c.
RoomAssumption == Paced /\ Size < IndexMod

FifoInv == TypeOK /\ TxWindow /\ RxWindow /\ DriverNotLeft

LEMMA FifoInit == Init => FifoInv
<1> SUFFICES ASSUME Init PROVE FifoInv
  OBVIOUS
<1>1. Size \in Nat \ {0} /\ IndexMod \in Nat \ {0}
  BY PortAssumption DEF PortAssumption
<1>2. 0 % IndexMod = 0
  BY <1>1
<1>3. Window(CBUF_Init, 0, 0, 0)
  BY <1>1, <1>2 DEF Window, CBUF_Init
<1> QED
  BY <1>3, TypeInit DEF Init, FifoInv, TxWindow, RxWindow, DriverNotLeft

\* What a step does to the bytes to send, and to their window.
LEMMA TxStep ==
    ASSUME RoomAssumption, FifoInv, [Next]_vars
    PROVE  /\ TxWindow'
           /\ \/ pushed' = pushed /\ popped' = popped
              \/ pushed' = pushed + 1 /\ popped' = popped
              \/ pushed' = pushed /\ popped' = popped + 1 /\ popped < pushed
<1> USE DEF FifoInv
<1>1. /\ putbuf \in Buffers /\ pushed \in Nat /\ popped \in Nat
      /\ lastSent = popped /\ popped <= pushed
      /\ Window(putbuf, popped, pushed,
                IF main = "putIndex" THEN pushed + 1 ELSE pushed)
  BY DEF TypeOK, TxWindow, Window
<1>2. CASE PutEntry
  <2>1. Window(putbuf, popped, pushed, pushed) /\ pushed - popped < Size
    BY <1>1, <1>2 DEF PutEntry, Room, RoomAssumption
  <2>2. Window(putbuf', popped, pushed, pushed + 1)
    BY <1>1, <1>2, <2>1, WindowStoreEntry DEF PutEntry
  <2> QED
    BY <1>1, <1>2, <2>2 DEF PutEntry, TxWindow
<1>3. CASE PutIndex
  <2>1. Window(putbuf', popped, pushed + 1, pushed + 1)
    BY <1>1, <1>3, WindowStorePutIdx DEF PutIndex
  <2> QED
    BY <1>1, <1>3, <2>1 DEF PutIndex, TxWindow
<1>4. CASE PutEnable
  BY <1>1, <1>4 DEF PutEnable, TxWindow
<1>5. CASE GetEntry
  BY <1>1, <1>5 DEF GetEntry, txVars, TxWindow
<1>6. CASE GetIndex
  BY <1>1, <1>6 DEF GetIndex, txVars, TxWindow
<1>7. CASE USART_RX
  BY <1>1, <1>7 DEF USART_RX, txVars, TxWindow
<1>8. CASE USART_UDRE
  <2> DEFINE top == IF main = "putIndex" THEN pushed + 1 ELSE pushed
  <2>1. CASE ~CBUF_IsEmpty(putbuf)
    <3>1. top \in Nat /\ Window(putbuf, popped, pushed, top)
      BY <1>1
    <3>2. main' = main /\ pushed' = pushed
      BY <1>8 DEF USART_UDRE
    <3> HIDE DEF top
    <3>3. CBUF_Len(putbuf) = pushed - popped
      BY <1>1, <3>1, WindowLen DEF RoomAssumption
    <3>4. popped < pushed
      BY <1>1, <2>1, <3>3 DEF CBUF_IsEmpty
    <3>5. ReadEntry(putbuf) = popped + 1
      BY <1>1, <3>1, <3>4, WindowReadEntry
    <3>6. Window(StoreGetIdx(putbuf), popped + 1, pushed, top)
      BY <1>1, <3>1, <3>4, WindowStoreGetIdx
    <3>7. /\ putbuf' = StoreGetIdx(putbuf) /\ popped' = popped + 1
          /\ lastSent' = ReadEntry(putbuf)
      BY <1>8, <2>1 DEF USART_UDRE
    <3> QED
      BY <3>2, <3>4, <3>5, <3>6, <3>7 DEF TxWindow, top
  <2>2. CASE CBUF_IsEmpty(putbuf)
    BY <1>1, <1>8, <2>2 DEF USART_UDRE, TxWindow
  <2> QED
    BY <2>1, <2>2
<1>9. CASE USART_TX
  BY <1>1, <1>9 DEF USART_TX, TxWindow
<1>10. CASE StartByte
  BY <1>1, <1>10 DEF StartByte, TxWindow
<1>11. CASE EndByte
  BY <1>1, <1>11 DEF EndByte, TxWindow
<1>12. CASE UNCHANGED vars
  BY <1>1, <1>12 DEF vars, txVars, TxWindow
<1> QED
  BY <1>2, <1>3, <1>4, <1>5, <1>6, <1>7, <1>8, <1>9, <1>10, <1>11, <1>12
  DEF Next, MainLoop

\* The same for the bytes received.
LEMMA RxStep ==
    ASSUME RoomAssumption, FifoInv, [Next]_vars
    PROVE  /\ RxWindow'
           /\ \/ arrived' = arrived /\ lastGot' = lastGot
              \/ arrived' = arrived + 1 /\ lastGot' = lastGot
              \/ arrived' = arrived /\ lastGot' = lastGot + 1 /\ lastGot < arrived
<1> USE DEF FifoInv
<1>1. /\ getbuf \in Buffers /\ arrived \in Nat /\ lastGot \in Nat
      /\ lastGot <= arrived /\ Window(getbuf, lastGot, arrived, arrived)
      /\ CBUF_Len(getbuf) = arrived - lastGot
  <2>1. /\ getbuf \in Buffers /\ arrived \in Nat /\ lastGot \in Nat
        /\ lastGot <= arrived /\ Window(getbuf, lastGot, arrived, arrived)
    BY DEF TypeOK, Bytes, RxWindow, Window
  <2> QED
    BY <2>1, WindowLen DEF RoomAssumption
<1>2. /\ main = "getIndex" => lastGot < arrived /\ ret = lastGot + 1
      /\ PortAssumption
  BY PortAssumption DEF RxWindow
<1>3. CASE PutEntry
  BY <1>1, <1>2, <1>3 DEF PutEntry, rxVars, RxWindow
<1>4. CASE PutIndex
  BY <1>1, <1>2, <1>4 DEF PutIndex, rxVars, RxWindow
<1>5. CASE PutEnable
  BY <1>1, <1>2, <1>5 DEF PutEnable, rxVars, RxWindow
<1>6. CASE GetEntry
  <2>1. lastGot < arrived
    BY <1>1, <1>6 DEF GetEntry, CBUF_IsEmpty
  <2>2. ReadEntry(getbuf) = lastGot + 1
    BY <1>1, <2>1, WindowReadEntry
  <2> QED
    BY <1>1, <1>6, <2>1, <2>2 DEF GetEntry, RxWindow
<1>7. CASE GetIndex
  <2>1. lastGot < arrived /\ ret = lastGot + 1
    BY <1>2, <1>7 DEF GetIndex
  <2>2. Window(StoreGetIdx(getbuf), lastGot + 1, arrived, arrived)
    BY <1>1, <2>1, WindowStoreGetIdx
  <2> QED
    BY <1>7, <2>1, <2>2 DEF GetIndex, RxWindow
<1>8. CASE USART_RX
  <2>1. arrived - lastGot < Size
    BY <1>1, <1>8 DEF USART_RX, Room, RoomAssumption
  <2>2. arrived + 1 \in Bytes
    BY <1>1, <1>8, PortAssumption DEF USART_RX, Bytes, PortAssumption
  <2>3. Window(StoreEntry(getbuf, arrived + 1), lastGot, arrived, arrived + 1)
    BY <1>1, <2>1, WindowStoreEntry
  <2>4. StoreEntry(getbuf, arrived + 1) \in Buffers
    BY <1>1, <2>2, BufferOperations
  <2>5. Window(CBUF_Push(getbuf, arrived + 1), lastGot, arrived + 1, arrived + 1)
    BY <1>1, <2>3, <2>4, WindowStorePutIdx DEF CBUF_Push
  <2>6. /\ getbuf' = CBUF_Push(getbuf, arrived + 1) /\ arrived' = arrived + 1
        /\ main' = main /\ ret' = ret /\ lastGot' = lastGot
    BY <1>8 DEF USART_RX
  <2> QED
    BY <1>1, <1>2, <2>5, <2>6 DEF RxWindow
<1>9. CASE USART_UDRE
  BY <1>1, <1>2, <1>9 DEF USART_UDRE, rxVars, RxWindow
<1>10. CASE USART_TX
  BY <1>1, <1>2, <1>10 DEF USART_TX, rxVars, RxWindow
<1>11. CASE StartByte
  BY <1>1, <1>2, <1>11 DEF StartByte, rxVars, RxWindow
<1>12. CASE EndByte
  BY <1>1, <1>2, <1>12 DEF EndByte, rxVars, RxWindow
<1>13. CASE UNCHANGED vars
  BY <1>1, <1>2, <1>13 DEF vars, rxVars, RxWindow
<1> QED
  BY <1>3, <1>4, <1>5, <1>6, <1>7, <1>8, <1>9, <1>10, <1>11, <1>12, <1>13
  DEF Next, MainLoop

\* The driver is switched on for a byte that is on its way to the shift
\* register, and the end of the last byte raises TXC.
LEMMA DriverStep ==
    ASSUME RoomAssumption, FifoInv, [Next]_vars
    PROVE  DriverNotLeft'
<1> USE DEF FifoInv
<1>1. /\ CBUF_IsEmpty(putbuf) <=> pushed = popped
      /\ CBUF_IsEmpty(putbuf)' <=> pushed' = popped'
  <2> DEFINE top == IF main = "putIndex" THEN pushed + 1 ELSE pushed
  <2>1. /\ top \in Nat /\ pushed \in Nat /\ popped \in Nat
        /\ Window(putbuf, popped, pushed, top)
    BY DEF TypeOK, TxWindow
  <2>2. /\ top' \in Nat /\ pushed' \in Nat /\ popped' \in Nat
        /\ Window(putbuf', popped', pushed', top')
    <3>1. TypeOK' /\ TxWindow'
      BY TypeStep, TxStep
    <3> QED
      BY <3>1 DEF TypeOK, TxWindow
  <2> HIDE DEF top
  <2>3. CBUF_Len(putbuf) = pushed - popped
    BY <2>1, WindowLen DEF RoomAssumption
  <2>4. CBUF_Len(putbuf') = pushed' - popped'
    BY <2>2, WindowLen DEF RoomAssumption
  <2> QED
    BY <2>1, <2>2, <2>3, <2>4 DEF CBUF_IsEmpty, CBUF_Len
<1>2. /\ driver => pushed # popped \/ udr # 0 \/ shift # 0 \/ txc
      /\ pushed \in Nat /\ popped \in Nat /\ popped <= pushed
  BY <1>1 DEF DriverNotLeft, TypeOK, TxWindow, Window
<1> SUFFICES ASSUME driver'
             PROVE  pushed' # popped' \/ udr' # 0 \/ shift' # 0 \/ txc'
  BY <1>1 DEF DriverNotLeft
<1>3. CASE PutEntry
  BY <1>2, <1>3 DEF PutEntry, uart
<1>4. CASE PutIndex
  BY <1>2, <1>4 DEF PutIndex, uart
<1>5. CASE PutEnable
  BY <1>2, <1>5 DEF PutEnable, uart
<1>6. CASE GetEntry
  BY <1>2, <1>6 DEF GetEntry, txVars, uart
<1>7. CASE GetIndex
  BY <1>2, <1>7 DEF GetIndex, txVars, uart
<1>8. CASE USART_RX
  BY <1>2, <1>8 DEF USART_RX, txVars, uart
<1>9. CASE USART_UDRE
  <2>1. CASE ~CBUF_IsEmpty(putbuf)
    <3>1. udr' = lastSent' /\ popped' = popped + 1
      BY <1>9, <2>1 DEF USART_UDRE
    <3>2. lastSent' = popped'
      BY TxStep DEF TxWindow
    <3> QED
      BY <1>2, <3>1, <3>2
  <2>2. CASE CBUF_IsEmpty(putbuf)
    BY <1>2, <1>9, <2>2 DEF USART_UDRE
  <2> QED
    BY <2>1, <2>2
<1>10. CASE USART_TX
  BY <1>1, <1>10 DEF USART_TX, DriverNeeded
<1>11. CASE StartByte
  BY <1>2, <1>11 DEF StartByte
<1>12. CASE EndByte
  BY <1>2, <1>12 DEF EndByte
<1>13. CASE UNCHANGED vars
  BY <1>2, <1>13 DEF vars, txVars, uart
<1> QED
  BY <1>3, <1>4, <1>5, <1>6, <1>7, <1>8, <1>9, <1>10, <1>11, <1>12, <1>13
  DEF Next, MainLoop

LEMMA FifoStep ==
    ASSUME RoomAssumption, FifoInv, [Next]_vars
    PROVE  FifoInv'
  BY TypeStep, TxStep, RxStep, DriverStep DEF FifoInv

\* A step of the counts is a step of the queue they stand for.
LEMMA TxQueueStep ==
    ASSUME RoomAssumption, FifoInv, [Next]_vars
    PROVE  [TxQueue!Next]_(TxQueue!vars)
<1> DEFINE top == IF main = "putIndex" THEN pushed + 1 ELSE pushed
<1>1. /\ top \in Nat /\ pushed \in Nat /\ popped \in Nat /\ popped <= pushed
      /\ Window(putbuf, popped, pushed, top) /\ lastSent = popped
  BY DEF FifoInv, TypeOK, TxWindow, Window
<1>2. /\ top' \in Nat /\ pushed' \in Nat /\ popped' \in Nat
      /\ Window(putbuf', popped', pushed', top') /\ lastSent' = popped'
  <2>1. TypeOK' /\ TxWindow'
    BY FifoStep DEF FifoInv
  <2> QED
    BY <2>1 DEF TypeOK, TxWindow
<1> HIDE DEF top
<1>3. Contents(putbuf) = Numbers(popped, pushed)
  BY <1>1, WindowContents DEF RoomAssumption
<1>4. Contents(putbuf') = Numbers(popped', pushed')
  BY <1>2, WindowContents DEF RoomAssumption
<1>5. Contents(putbuf)' = Contents(putbuf')
  BY DEF Contents, CBUF_Len, Masked
<1>6. CASE pushed' = pushed /\ popped' = popped
  BY <1>1, <1>2, <1>3, <1>4, <1>5, <1>6 DEF TxQueue!vars
<1>7. CASE pushed' = pushed + 1 /\ popped' = popped
  BY <1>1, <1>2, <1>3, <1>4, <1>5, <1>7, NumbersPut DEF TxQueue!Next, TxQueue!Put
<1>8. CASE pushed' = pushed /\ popped' = popped + 1 /\ popped < pushed
  BY <1>1, <1>2, <1>3, <1>4, <1>5, <1>8, NumbersTake DEF TxQueue!Next, TxQueue!Take
<1> QED
  BY <1>6, <1>7, <1>8, TxStep

LEMMA RxQueueStep ==
    ASSUME RoomAssumption, FifoInv, [Next]_vars
    PROVE  [RxQueue!Next]_(RxQueue!vars)
<1>1. /\ arrived \in Nat /\ lastGot \in Nat /\ lastGot <= arrived
      /\ Window(getbuf, lastGot, arrived, arrived)
  BY DEF FifoInv, TypeOK, Bytes, RxWindow, Window
<1>2. /\ arrived' \in Nat /\ lastGot' \in Nat
      /\ Window(getbuf', lastGot', arrived', arrived')
  <2>1. TypeOK' /\ RxWindow'
    BY FifoStep DEF FifoInv
  <2> QED
    BY <2>1 DEF TypeOK, Bytes, RxWindow
<1>3. Contents(getbuf) = Numbers(lastGot, arrived)
  BY <1>1, WindowContents DEF RoomAssumption
<1>4. Contents(getbuf') = Numbers(lastGot', arrived')
  BY <1>2, WindowContents DEF RoomAssumption
<1>5. Contents(getbuf)' = Contents(getbuf')
  BY DEF Contents, CBUF_Len, Masked
<1>6. CASE arrived' = arrived /\ lastGot' = lastGot
  BY <1>1, <1>2, <1>3, <1>4, <1>5, <1>6 DEF RxQueue!vars
<1>7. CASE arrived' = arrived + 1 /\ lastGot' = lastGot
  BY <1>1, <1>2, <1>3, <1>4, <1>5, <1>7, NumbersPut DEF RxQueue!Next, RxQueue!Put
<1>8. CASE arrived' = arrived /\ lastGot' = lastGot + 1 /\ lastGot < arrived
  BY <1>1, <1>2, <1>3, <1>4, <1>5, <1>8, NumbersTake DEF RxQueue!Next, RxQueue!Take
<1> QED
  BY <1>6, <1>7, <1>8, RxStep

LEMMA QueuesInit == Init => TxQueue!Init /\ RxQueue!Init
<1> SUFFICES ASSUME Init PROVE TxQueue!Init /\ RxQueue!Init
  OBVIOUS
<1>1. CBUF_Len(CBUF_Init) = 0
  BY PortAssumption DEF PortAssumption, CBUF_Len, CBUF_Init
<1>2. Contents(CBUF_Init) = <<>>
  BY <1>1 DEF Contents
<1> QED
  BY <1>2 DEF Init, TxQueue!Init, RxQueue!Init

-----------------------------------------------------------------------------
\* Every variable keeps its type (rs485.c:16-115).
THEOREM TypeCorrect == Spec => []TypeOK
  BY TypeInit, TypeStep, PTL DEF Spec

\* No order of the two stores of CBUF_Push, the enabling of the interrupt and
\* the interrupt that disables itself leaves bytes in the buffer with the
\* interrupt off, overrun buffers included (rs485.c:37-49, 104-115).
THEOREM NeverStalls == Spec => []NoStall
  BY TypeInit, TypeStep, NoStallInit, NoStallStep, PTL DEF Spec

\* When the callers leave room, the bytes the main loop puts reach the UART
\* complete and in order, for every size of the buffer and every number of
\* times its indices wrap: the transmit buffer is a queue (rs485.c:37-49,
\* 104-115, CBUF.h:15-17).
THEOREM Sending ==
    ASSUME RoomAssumption
    PROVE  Spec => SendsInOrder
<1>1. FifoInv /\ [Next]_vars => FifoInv'
  BY FifoStep
<1>2. FifoInv /\ [Next]_vars => [TxQueue!Next]_(TxQueue!vars)
  BY TxQueueStep
<1>3. Init => FifoInv /\ TxQueue!Init
  BY FifoInit, QueuesInit
<1> QED
  BY <1>1, <1>2, <1>3, PTL DEF Spec, SendsInOrder, TxQueue!Spec

\* So are the bytes the interrupt receives for the main loop, which reads an
\* entry and stores the index in two steps (rs485.c:30-35, 86-102).
THEOREM Receiving ==
    ASSUME RoomAssumption
    PROVE  Spec => ReceivesInOrder
<1>1. FifoInv /\ [Next]_vars => FifoInv'
  BY FifoStep
<1>2. FifoInv /\ [Next]_vars => [RxQueue!Next]_(RxQueue!vars)
  BY RxQueueStep
<1>3. Init => FifoInv /\ RxQueue!Init
  BY FifoInit, QueuesInit
<1> QED
  BY <1>1, <1>2, <1>3, PTL DEF Spec, ReceivesInOrder, RxQueue!Spec

\* Once all is sent the driver is off and the bus free for the answer
\* (rs485.c:51-59).  With room: a buffer that overruns may look empty while
\* the driver is on.
THEOREM LineIsReleased ==
    ASSUME RoomAssumption
    PROVE  Spec => []LineReleased
<1>1. FifoInv /\ [Next]_vars => FifoInv'
  BY FifoStep
<1>2. FifoInv => LineReleased
  BY DEF FifoInv, DriverNotLeft, LineReleased
<1> QED
  BY <1>1, <1>2, FifoInit, PTL DEF Spec

=============================================================================
