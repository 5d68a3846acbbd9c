------------------------ MODULE CircularBufferProofs ------------------------
(***************************************************************************)
(* Proofs about CircularBuffer for every number of buffers.  The reader's  *)
(* buffer is never filled (SlotExclusion): the inductive invariant says    *)
(* where the counters can be while a buffer is read or filled.             *)
(***************************************************************************)
EXTENDS CircularBuffer, SequenceTheorems, TLAPS

IndexType ==
    /\ writeCntr \in Slots /\ readCntr \in Slots /\ readSlot \in Slots
    /\ latestCntr \in Slots \cup {None}
    /\ writing \in BOOLEAN
    /\ writer \in {"idle", "filling"}
    /\ reader \in {"idle", "waitNext", "waitLatest", "reading"}
    /\ remaining \in 0 .. NumBuffers - 1
    /\ usesLatest \in BOOLEAN

PacketType ==
    /\ dataBufferFresh \in [Slots -> BOOLEAN]
    /\ contents \in [Slots -> 0 .. MaxPackets]
    /\ produced \in 0 .. MaxPackets
    /\ lastRead \in 0 .. MaxPackets

\* The reader's pointer is to dataBuffers[readCntr], where no writer is.
ReaderAlone ==
    /\ reading => /\ readSlot = readCntr
                  /\ writer = "filling" => readCntr # writeCntr
    /\ reader = "waitLatest" => usesLatest
    /\ usesLatest => NumBuffers >= 3

\* The write counter is one or, after a jump, two ahead of the latest packet,
\* and there is no second jump before the next packet.
NearLatest ==
    latestCntr # None =>
        \/ writeCntr = Succ(latestCntr)
        \/ /\ writeCntr = Succ(Succ(latestCntr))
           /\ reading => readCntr # writeCntr

IInv == IndexType /\ ReaderAlone /\ NearLatest

LEMMA SuccType == ASSUME NEW i \in Slots
                  PROVE  /\ Succ(i) \in Slots /\ Succ(i) # i
                         /\ NumBuffers >= 3 => Succ(Succ(i)) # i
  BY BufferAssumption DEF BufferAssumption, Slots, Succ

LEMMA InitIInv == Init => IInv
<1> SUFFICES ASSUME Init PROVE IInv
  OBVIOUS
<1>1. 0 \in Slots /\ 0 \in 0 .. NumBuffers - 1
  BY BufferAssumption DEF BufferAssumption, Slots
<1>2. IndexType
  <2>1. usesLatest \in BOOLEAN
    BY Zenon DEF Init
  <2> QED
    BY <1>1, <2>1 DEF Init, IndexType
<1>3. ReaderAlone /\ NearLatest
  BY DEF Init, ReaderAlone, NearLatest, reading
<1> QED
  BY <1>2, <1>3 DEF IInv

LEMMA IInvStep ==
    ASSUME ~EmptyWhileReading, IInv, [Next]_vars
    PROVE  IInv'
<1> USE BufferAssumption, SuccType
<1> USE DEF BufferAssumption, IInv, IndexType, ReaderAlone, NearLatest, ring,
            reading
<1>n. None \notin Slots
  BY DEF None, Slots
<1>u. usesLatest' = usesLatest
  BY DEF Next, vars
<1>1. CASE GetWritePtr
  BY <1>u, <1>1 DEF GetWritePtr, WritePosition
<1>2. CASE DoneWriting
  BY <1>u, <1>2, <1>n DEF DoneWriting, MarkLatest
<1>3. CASE DoneWritingNothing \/ DoneWritingTooMuch
  BY <1>u, <1>3 DEF DoneWritingNothing, DoneWritingTooMuch
<1>4. CASE EmptyBuffer
  BY <1>u, <1>4 DEF EmptyBuffer
<1>5. CASE GetReadPtr \/ WakeNext
  BY <1>u, <1>5 DEF GetReadPtr, WakeNext, NextAvailable, StartReading, Become
<1>6. CASE GetReadPtrLatest \/ WakeLatest
  BY <1>u, <1>6 DEF GetReadPtrLatest, WakeLatest, LatestAvailable, StartReading, Become
<1>7. CASE Timeout
  BY <1>u, <1>7 DEF Timeout, Become
<1>8. CASE DoneReading
  <2>1. remaining' \in 0 .. NumBuffers - 1
    BY <1>u, <1>8 DEF DoneReading, Slots
  <2> QED
    BY <1>u, <1>8, <2>1 DEF DoneReading, ReadPosition
<1>9. CASE UNCHANGED vars
  BY <1>u, <1>9 DEF vars
<1> QED
  BY <1>1, <1>2, <1>3, <1>4, <1>5, <1>6, <1>7, <1>8, <1>9
  DEF Next, Writer, Reader

\* The invariant holds as long as EmptyBuffer does not run under a reader.
THEOREM Invariance ==
    ASSUME ~EmptyWhileReading
    PROVE  Spec => []IInv
<1>1. IInv /\ [Next]_vars => IInv'
  BY IInvStep
<1> QED
  BY InitIInv, <1>1, PTL DEF Spec

\* The writer never fills the buffer the reader has a pointer to.
THEOREM Exclusion ==
    ASSUME ~EmptyWhileReading
    PROVE  Spec => []SlotExclusion
<1>1. IInv => SlotExclusion
  BY DEF IInv, ReaderAlone, SlotExclusion
<1> QED
  BY Invariance, <1>1, PTL

-----------------------------------------------------------------------------
(* The ring implements the lossy queue: first the queue that the buffers   *)
(* hold for a user who calls GetReadPtr only.                              *)

Unlatched == INSTANCE LossyQueue WITH
                 Capacity <- NumBuffers - 1, queue <- Unread, held <- reading

\* Buffers counted from a: they stay on the ring, below the end they differ
\* from it, and the next start or end changes the count by one.
LEMMA RingArithmetic ==
    ASSUME NEW a \in Slots, NEW b \in Slots
    PROVE  /\ Distance(a, b) \in 0 .. NumBuffers - 1
           /\ Distance(a, a) = 0
           /\ Distance(a, b) = 0 => a = b
           /\ Succ(b) = a <=> Distance(a, b) = NumBuffers - 1
           /\ Succ(b) # a => Distance(a, Succ(b)) = Distance(a, b) + 1
           /\ a # b => Distance(Succ(a), b) = Distance(a, b) - 1
           /\ Slot(a, 0) = a
           /\ Slot(a, Distance(a, b)) = b
  BY BufferAssumption DEF BufferAssumption, Slots, Succ, Distance, Slot

LEMMA SlotType ==
    ASSUME NEW a \in Slots, NEW b \in Slots, NEW i \in 1 .. Distance(a, b)
    PROVE  /\ Slot(a, i - 1) \in Slots
           /\ Slot(a, i - 1) # b
           /\ a # b => Slot(Succ(a), i - 1) = Slot(a, i)
  BY BufferAssumption DEF BufferAssumption, Slots, Succ, Distance, Slot

\* The start of the unread packets moves together with the reader, their end
\* with the writer.
LEMMA QueueArithmetic ==
    ASSUME NEW r \in Slots, NEW w \in Slots
    PROVE  /\ r # w /\ Distance(Succ(r), w) + 1 < NumBuffers - 1
                => /\ r # Succ(w)
                   /\ Distance(Succ(r), Succ(w)) = Distance(Succ(r), w) + 1
           /\ Distance(r, w) < NumBuffers - 1
                => Distance(r, Succ(w)) = Distance(r, w) + 1
           /\ r # w /\ ~(Distance(Succ(r), w) + 1 < NumBuffers - 1)
                => r = Succ(w)
           /\ ~(Distance(r, w) < NumBuffers - 1) => Distance(r, Succ(w)) = 0
  BY BufferAssumption DEF BufferAssumption, Slots, Succ, Distance

QIInv == IInv /\ PacketType

LEMMA PacketTypeStep ==
    ASSUME IndexType, PacketType, [Next]_vars
    PROVE  PacketType'
<1> USE BufferAssumption
<1> USE DEF BufferAssumption, IndexType, PacketType, ring
<1>0. 0 \in 0 .. MaxPackets
  OBVIOUS
<1>1. CASE GetWritePtr
  BY <1>0, <1>1 DEF GetWritePtr
<1>2. CASE DoneWriting
  <2>1. produced + 1 \in 0 .. MaxPackets
    BY <1>2 DEF DoneWriting
  <2> QED
    BY <1>2, <2>1 DEF DoneWriting
<1>3. CASE DoneWritingNothing \/ DoneWritingTooMuch
  BY <1>3 DEF DoneWritingNothing, DoneWritingTooMuch
<1>4. CASE EmptyBuffer
  BY <1>4 DEF EmptyBuffer
<1>5. CASE GetReadPtr \/ WakeNext
  BY <1>5 DEF GetReadPtr, WakeNext, StartReading, Become
<1>6. CASE GetReadPtrLatest \/ WakeLatest
  BY <1>6 DEF GetReadPtrLatest, WakeLatest, LatestAvailable, StartReading, Become
<1>7. CASE Timeout \/ DoneReading
  BY <1>7 DEF Timeout, Become, DoneReading
<1>8. CASE UNCHANGED vars
  BY <1>8 DEF vars
<1> QED
  BY <1>1, <1>2, <1>3, <1>4, <1>5, <1>6, <1>7, <1>8 DEF Next, Writer, Reader

\* The unread packets are a sequence of numbers, one per unread buffer.
UnreadFacts ==
    /\ FirstUnread \in Slots
    /\ UnreadCount \in 0 .. NumBuffers - 1
    /\ Unread \in Seq(Nat)
    /\ Len(Unread) = UnreadCount
    /\ \A i \in 1 .. UnreadCount :
          Unread[i] = contents[Slot(FirstUnread, i - 1)]

LEMMA UnreadType == IndexType /\ PacketType => UnreadFacts
<1> SUFFICES ASSUME IndexType, PacketType PROVE UnreadFacts
  OBVIOUS
<1>1. FirstUnread \in Slots
  BY SuccType DEF IndexType, FirstUnread
<1>2. UnreadCount \in 0 .. NumBuffers - 1
  BY <1>1, RingArithmetic DEF IndexType, UnreadCount
<1>3. ASSUME NEW i \in 1 .. UnreadCount
      PROVE  contents[Slot(FirstUnread, i - 1)] \in Nat
  BY <1>1, <1>3, SlotType, BufferAssumption
  DEF BufferAssumption, IndexType, PacketType, UnreadCount
<1> QED
  BY <1>1, <1>2, <1>3, BufferAssumption
  DEF BufferAssumption, Unread, UnreadFacts

\* Packets that stay where they are stay in the queue.
LEMMA UnreadSame ==
    ASSUME UnreadCount' = UnreadCount,
           \A i \in 1 .. UnreadCount :
              contents'[Slot(FirstUnread', i - 1)] = contents[Slot(FirstUnread, i - 1)]
    PROVE  Unread' = Unread
  BY DEF Unread

\* Preparing a buffer for writing, with or without a jump, takes nothing away.
LEMMA GetWritePtrKeeps ==
    ASSUME QIInv, GetWritePtr
    PROVE  Unread' = Unread
<1> USE DEF QIInv, IInv, IndexType, PacketType, FirstUnread, UnreadCount, reading
<1>1. CASE reading /\ readCntr = writeCntr
  <2>1. /\ writeCntr' = Succ(writeCntr) /\ readCntr' = writeCntr
        /\ reader' = "reading" /\ Succ(writeCntr) # writeCntr
    BY <1>1, SuccType DEF GetWritePtr, WritePosition
  <2>2. UnreadCount = Distance(writeCntr, writeCntr)
    BY <1>1
  <2>3. UnreadCount' = Distance(Succ(writeCntr), Succ(writeCntr))
    BY <2>1
  <2>4. UnreadCount = 0 /\ UnreadCount' = 0
    BY <2>2, <2>3, RingArithmetic, SuccType
  <2> QED
    BY <2>4, UnreadSame
<1>2. CASE ~(reading /\ readCntr = writeCntr)
  <2>1. /\ writeCntr' = writeCntr /\ readCntr' = readCntr /\ reader' = reader
        /\ \A s \in Slots : s # writeCntr => contents'[s] = contents[s]
    BY <1>2 DEF GetWritePtr, WritePosition
  <2>2. FirstUnread' = FirstUnread /\ UnreadCount' = UnreadCount
    BY <2>1
  <2>3. FirstUnread \in Slots
    BY UnreadType DEF UnreadFacts
  <2> QED
    BY <2>1, <2>2, <2>3, UnreadSame, SlotType
<1> QED
  BY <1>1, <1>2

\* Writing a packet is a Put: it is appended, or it closes the ring and hides
\* all packets.
LEMMA DoneWritingPuts ==
    ASSUME QIInv, DoneWriting, UNCHANGED usesLatest
    PROVE  Unlatched!Put
<1>1. /\ IndexType /\ PacketType /\ IndexType' /\ PacketType'
  BY SuccType, PacketTypeStep DEF QIInv, IInv, IndexType, DoneWriting, Next,
     Writer, ring, MarkLatest
<1>2. /\ writeCntr' = Succ(writeCntr) /\ readCntr' = readCntr
      /\ reader' = reader /\ produced' = produced + 1
      /\ \A s \in Slots : s # writeCntr => contents'[s] = contents[s]
      /\ contents'[writeCntr] = produced + 1
  BY <1>1 DEF DoneWriting, IndexType, PacketType
<1>3. reading => readCntr # writeCntr
  BY DEF QIInv, IInv, ReaderAlone, DoneWriting
<1>4. UnreadFacts /\ UnreadFacts'
  BY <1>1, UnreadType, PTL
<1>5. CASE Unlatched!Occupied < NumBuffers - 1
  <2>1. FirstUnread' = FirstUnread /\ UnreadCount' = UnreadCount + 1
    <3>1. CASE reading
      BY <1>1, <1>2, <1>3, <1>4, <1>5, <3>1, QueueArithmetic
      DEF Unlatched!Occupied, FirstUnread, UnreadCount, UnreadFacts, reading, IndexType
    <3>2. CASE ~reading
      BY <1>1, <1>2, <1>4, <1>5, <3>2, QueueArithmetic
      DEF Unlatched!Occupied, FirstUnread, UnreadCount, UnreadFacts, reading, IndexType
    <3> QED
      BY <3>1, <3>2
  <2> DEFINE longer == Append(Unread, produced + 1)
  <2>2. /\ longer \in Seq(Nat) /\ Len(longer) = UnreadCount + 1
        /\ \A i \in 1 .. UnreadCount : longer[i] = Unread[i]
        /\ longer[UnreadCount + 1] = produced + 1
    BY <1>1, <1>4, AppendProperties DEF PacketType, UnreadFacts
  <2>3. ASSUME NEW i \in 1 .. UnreadCount + 1
        PROVE  Unread'[i] = longer[i]
    <3>1. Unread'[i] = contents'[Slot(FirstUnread, i - 1)]
      BY <1>4, <2>1 DEF UnreadFacts
    <3>2. CASE i \in 1 .. UnreadCount
      <4>1. Slot(FirstUnread, i - 1) \in Slots \ {writeCntr}
        BY <1>1, <1>4, <3>2, SlotType DEF UnreadFacts, UnreadCount, IndexType
      <4> QED
        BY <1>2, <1>4, <2>2, <3>1, <3>2, <4>1 DEF UnreadFacts
    <3>3. CASE i = UnreadCount + 1
      <4>1. i - 1 = UnreadCount
        BY <1>4, <3>3 DEF UnreadFacts
      <4>2. Slot(FirstUnread, i - 1) = writeCntr
        BY <1>1, <1>4, <4>1, RingArithmetic DEF UnreadFacts, UnreadCount, IndexType
      <4> QED
        BY <1>2, <2>2, <3>1, <3>3, <4>2
    <3> QED
      BY <1>4, <3>2, <3>3 DEF UnreadFacts
  <2>4. Unread' = longer
    <3> HIDE DEF longer
    <3> QED
      BY <1>4, <2>1, <2>2, <2>3, SeqEqual DEF UnreadFacts
  <2> QED
    BY <1>2, <1>5, <2>4 DEF Unlatched!Put, DoneWriting, reading
<1>6. CASE ~(Unlatched!Occupied < NumBuffers - 1)
  <2>1. UnreadCount' = 0
    <3>1. CASE reading
      BY <1>1, <1>2, <1>3, <1>4, <1>6, <3>1, QueueArithmetic, RingArithmetic
      DEF Unlatched!Occupied, FirstUnread, UnreadCount, UnreadFacts, reading, IndexType
    <3>2. CASE ~reading
      BY <1>1, <1>2, <1>4, <1>6, <3>2, QueueArithmetic
      DEF Unlatched!Occupied, FirstUnread, UnreadCount, UnreadFacts, reading, IndexType
    <3> QED
      BY <3>1, <3>2
  <2>2. Unread' = <<>>
    BY <1>4, <2>1, SeqEqual, EmptySeq DEF UnreadFacts
  <2> QED
    BY <1>2, <1>6, <2>2 DEF Unlatched!Put, DoneWriting, reading
<1> QED
  BY <1>5, <1>6

\* Being given the next buffer is a Take: its packet is the head of the queue.
LEMMA StartReadingTakes ==
    ASSUME QIInv, PacketType', ~reading, readCntr # writeCntr,
           StartReading(readCntr), IndexType'
    PROVE  Unlatched!Take
<1>0. IndexType /\ PacketType
  BY DEF QIInv, IInv
<1>1. IndexType /\ PacketType /\ UnreadFacts /\ UnreadFacts'
  BY <1>0, UnreadType, PTL
<1>2. /\ readCntr' = readCntr /\ writeCntr' = writeCntr /\ reader' = "reading"
      /\ contents' = contents /\ lastRead' = contents[readCntr]
      /\ produced' = produced
  BY DEF StartReading
<1>3. /\ FirstUnread = readCntr /\ FirstUnread' = Succ(readCntr)
      /\ UnreadCount = Distance(readCntr, writeCntr)
      /\ UnreadCount' = Distance(Succ(readCntr), writeCntr)
  BY <1>2 DEF FirstUnread, UnreadCount, reading
<1>4. UnreadCount > 0 /\ UnreadCount' = UnreadCount - 1
  <2>1. readCntr \in Slots /\ writeCntr \in Slots
    BY <1>0 DEF IndexType
  <2>2. /\ Distance(readCntr, writeCntr) # 0
        /\ Distance(Succ(readCntr), writeCntr) = Distance(readCntr, writeCntr) - 1
    BY <2>1, RingArithmetic
  <2> QED
    BY <1>1, <1>3, <2>2 DEF UnreadFacts
<1>5. /\ Unread # <<>> /\ Head(Unread) = Unread[1]
      /\ Tail(Unread) \in Seq(Nat) /\ Len(Tail(Unread)) = UnreadCount - 1
      /\ \A i \in 1 .. UnreadCount - 1 : Tail(Unread)[i] = Unread[i + 1]
  BY <1>1, <1>4, HeadTailProperties DEF UnreadFacts
<1>6. Head(Unread) = contents[readCntr]
  <2>1. Unread[1] = contents[Slot(readCntr, 0)]
    BY <1>1, <1>3, <1>4 DEF UnreadFacts
  <2> QED
    BY <1>1, <1>5, <2>1, RingArithmetic DEF IndexType
<1>7. Unread' = Tail(Unread)
  <2>1. ASSUME NEW i \in 1 .. UnreadCount - 1
        PROVE  Unread'[i] = Tail(Unread)[i]
    <3>1. /\ Unread'[i] = contents[Slot(Succ(readCntr), i - 1)]
      BY <1>1, <1>2, <1>3, <1>4 DEF UnreadFacts
    <3>2. i \in 1 .. UnreadCount /\ i + 1 \in 1 .. UnreadCount /\ (i + 1) - 1 = i
      BY <1>1 DEF UnreadFacts
    <3>3. Unread[i + 1] = contents[Slot(readCntr, i)]
      BY <1>1, <1>3, <3>2 DEF UnreadFacts
    <3>4. Slot(Succ(readCntr), i - 1) = Slot(readCntr, i)
      BY <1>1, <1>3, <3>2, SlotType DEF IndexType
    <3> QED
      BY <1>5, <3>1, <3>3, <3>4
  <2> QED
    BY <1>1, <1>4, <1>5, <2>1, SeqEqual DEF UnreadFacts
<1> QED
  BY <1>2, <1>5, <1>6, <1>7 DEF Unlatched!Take, reading

\* Every other step keeps the queue, releases the packet held or clears it.
LEMMA UnlatchedStep ==
    ASSUME ~EmptyWhileReading, ~usesLatest, QIInv, [Next]_vars
    PROVE  [Unlatched!Next]_(Unlatched!vars)
<1>0. IndexType /\ PacketType /\ IndexType' /\ PacketType'
  BY IInvStep, PacketTypeStep DEF QIInv, IInv
<1> USE DEF ring, Unlatched!vars
<1>1. CASE GetWritePtr
  <2>1. Unread' = Unread
    BY <1>1, GetWritePtrKeeps
  <2> QED
    BY <1>1, <2>1 DEF GetWritePtr, reading
<1>2. CASE DoneWriting
  BY <1>2, DoneWritingPuts DEF Unlatched!Next, Next, vars
<1>3. CASE DoneWritingNothing \/ DoneWritingTooMuch \/ Timeout \/ UNCHANGED vars
  BY <1>3 DEF DoneWritingNothing, DoneWritingTooMuch, Timeout, Become, vars,
     Unread, UnreadCount, FirstUnread, reading
<1>4. CASE EmptyBuffer
  <2>1. /\ ~reading /\ reader' = reader /\ readCntr' = writeCntr
        /\ writeCntr' = writeCntr /\ produced' = produced /\ lastRead' = lastRead
    BY <1>4 DEF EmptyBuffer
  <2>2. UnreadCount' = Distance(writeCntr, writeCntr)
    BY <2>1 DEF UnreadCount, FirstUnread, reading
  <2>3. UnreadFacts'
    BY <1>0, UnreadType, PTL
  <2>4. Unread' = <<>>
    BY <1>0, <2>2, <2>3, RingArithmetic, SeqEqual, EmptySeq
    DEF IndexType, UnreadFacts
  <2> QED
    BY <2>1, <2>4 DEF Unlatched!Next, Unlatched!Clear, reading
<1>5. CASE GetReadPtr \/ WakeNext \/ GetReadPtrLatest \/ WakeLatest
  <2>1. CASE readCntr # writeCntr /\ ~reading /\ StartReading(readCntr)
    BY <1>0, <2>1, StartReadingTakes DEF Unlatched!Next
  <2>2. CASE ~reading /\ \E s \in {"idle", "waitNext"} : Become(s)
    BY <2>2 DEF Become, Unread, UnreadCount, FirstUnread, reading
  <2> QED
    BY <1>5, <2>1, <2>2 DEF GetReadPtr, WakeNext, GetReadPtrLatest, WakeLatest,
       NextAvailable, QIInv, IInv, ReaderAlone, reading
<1>6. CASE DoneReading
  <2>1. reading /\ reader' = "idle" /\ readCntr' = ReadPosition
        /\ writeCntr' = writeCntr /\ contents' = contents
        /\ produced' = produced /\ lastRead' = lastRead
    BY <1>6 DEF DoneReading
  <2>2. FirstUnread' = FirstUnread
    BY <2>1 DEF FirstUnread, ReadPosition, reading
  <2>3. Unread' = Unread
    BY <2>1, <2>2 DEF Unread, UnreadCount
  <2> QED
    BY <2>1, <2>3 DEF Unlatched!Next, Unlatched!Release, reading
<1> QED
  BY <1>1, <1>2, <1>3, <1>4, <1>5, <1>6 DEF Next, Writer, Reader

\* With GetReadPtrLatest there is no queue, and without it that is the queue.
LEMMA QueueStep ==
    ASSUME ~EmptyWhileReading, QIInv, [Next]_vars
    PROVE  [Queue!Next]_(Queue!vars)
<1>1. usesLatest' = usesLatest
  BY DEF Next, vars
<1>2. CASE usesLatest
  BY <1>1, <1>2 DEF Queue!vars
<1>3. CASE ~usesLatest
  <2>1. [Unlatched!Next]_(Unlatched!vars)
    BY <1>3, UnlatchedStep
  <2>2. /\ Queue!Occupied = Unlatched!Occupied
        /\ (IF usesLatest THEN <<>> ELSE Unread) = Unread
        /\ (IF usesLatest THEN <<>> ELSE Unread)' = Unread'
        /\ (IF usesLatest THEN 0 ELSE produced) = produced
        /\ (IF usesLatest THEN 0 ELSE produced)' = produced'
        /\ (IF usesLatest THEN 0 ELSE lastRead) = lastRead
        /\ (IF usesLatest THEN 0 ELSE lastRead)' = lastRead'
    BY <1>1, <1>3 DEF Queue!Occupied, Unlatched!Occupied
  <2>3. /\ (~usesLatest /\ reading) = reading
        /\ (~usesLatest /\ reading)' = reading'
    BY <1>1, <1>3 DEF reading
  <2> HIDE DEF reading
  <2> QED
    BY <2>1, <2>2, <2>3
    DEF Queue!Next, Queue!Put, Queue!Take, Queue!Release, Queue!Clear, Queue!vars,
        Unlatched!Next, Unlatched!Put, Unlatched!Take, Unlatched!Release,
        Unlatched!Clear, Unlatched!vars
<1> QED
  BY <1>2, <1>3

LEMMA QueueInit == Init => PacketType /\ Queue!Init
<1> SUFFICES ASSUME Init PROVE PacketType /\ Queue!Init
  OBVIOUS
<1>1. 0 \in Slots /\ 0 \in 0 .. MaxPackets
  BY BufferAssumption DEF BufferAssumption, Slots
<1>2. PacketType
  BY <1>1 DEF Init, PacketType
<1>3. UnreadFacts
  BY <1>2, InitIInv, UnreadType DEF IInv
<1>4. UnreadCount = Distance(0, 0)
  BY DEF Init, UnreadCount, FirstUnread, reading
<1>5. Unread = <<>>
  BY <1>1, <1>3, <1>4, RingArithmetic, SeqEqual, EmptySeq DEF UnreadFacts
<1> QED
  BY <1>2, <1>5 DEF Init, Queue!Init, reading

\* For every number of buffers and packets: a reader that follows the order and
\* does not have the buffer emptied under it sees a lossy queue.
THEOREM Implementation ==
    ASSUME ~EmptyWhileReading
    PROVE  Spec => ImplementsQueue
<1>1. QIInv /\ [Next]_vars => QIInv'
  BY IInvStep, PacketTypeStep DEF QIInv, IInv
<1>2. QIInv /\ [Next]_vars => [Queue!Next]_(Queue!vars)
  BY QueueStep
<1>3. Init => QIInv /\ Queue!Init
  BY InitIInv, QueueInit DEF QIInv
<1> QED
  BY <1>1, <1>2, <1>3, PTL DEF Spec, ImplementsQueue, Queue!Spec

\* Every variable always has its type.
THEOREM TypeCorrect ==
    ASSUME ~EmptyWhileReading
    PROVE  Spec => []TypeOK
<1>1. QIInv /\ [Next]_vars => QIInv'
  BY IInvStep, PacketTypeStep DEF QIInv, IInv
<1>2. Init => QIInv
  BY InitIInv, QueueInit DEF QIInv
<1>3. QIInv => TypeOK
  BY DEF QIInv, IInv, IndexType, PacketType, TypeOK
<1> QED
  BY <1>1, <1>2, <1>3, PTL DEF Spec

-----------------------------------------------------------------------------
(* The order of the packets.                                               *)

\* What is in the queue stays in order and after the last packet taken.
LEMMA OrderedStep ==
    ASSUME Unlatched!Ordered, [Unlatched!Next]_(Unlatched!vars)
    PROVE  Unlatched!Ordered'
<1>1. CASE Unlatched!Put /\ Unlatched!Occupied < NumBuffers - 1
  BY <1>1 DEF Unlatched!Put, Unlatched!Ordered
<1>2. CASE Unlatched!Put /\ ~(Unlatched!Occupied < NumBuffers - 1)
  BY <1>2 DEF Unlatched!Put, Unlatched!Ordered
<1>3. CASE Unlatched!Take
  <2>1. /\ Len(Unread) \in Nat /\ Len(Unread) > 0
        /\ Len(Unread') = Len(Unread) - 1 /\ Unread' \in Seq(Nat)
        /\ \A i \in 1 .. Len(Unread') : Unread'[i] = Unread[i + 1]
    BY <1>3 DEF Unlatched!Take, Unlatched!Ordered
  <2>2. lastRead' = Unread[1] /\ produced' = produced /\ reading' = TRUE
    BY <1>3 DEF Unlatched!Take, Unlatched!Ordered
  <2>3. /\ produced \in Nat /\ lastRead \in Nat
        /\ \A i \in 1 .. Len(Unread) : Unread[i] \in lastRead + 1 .. produced
    BY DEF Unlatched!Ordered
  <2>4. lastRead' \in lastRead + 1 .. produced
    BY <2>1, <2>2, <2>3
  <2>5. ASSUME NEW i \in 1 .. Len(Unread')
        PROVE  Unread'[i] \in lastRead' + 1 .. produced'
    <3>1. /\ 1 \in 1 .. Len(Unread) /\ i + 1 \in 1 .. Len(Unread) /\ 1 < i + 1
          /\ Unread'[i] = Unread[i + 1]
      BY <2>1
    <3>2. Unread[1] < Unread[i + 1]
      BY <3>1 DEF Unlatched!Ordered
    <3>3. Unread'[i] \in lastRead + 1 .. produced
      BY <2>3, <3>1
    <3>4. lastRead' < Unread'[i]
      BY <2>2, <3>1, <3>2
    <3> QED
      BY <2>2, <2>3, <2>4, <3>3, <3>4
  <2>6. ASSUME NEW i \in 1 .. Len(Unread'), NEW j \in 1 .. Len(Unread'), i < j
        PROVE  Unread'[i] < Unread'[j]
    <3>1. /\ i + 1 \in 1 .. Len(Unread) /\ j + 1 \in 1 .. Len(Unread)
          /\ i + 1 < j + 1
          /\ Unread'[i] = Unread[i + 1] /\ Unread'[j] = Unread[j + 1]
      BY <2>1, <2>6
    <3>2. Unread[i + 1] < Unread[j + 1]
      BY <3>1 DEF Unlatched!Ordered
    <3> QED
      BY <3>1, <3>2
  <2>7. lastRead' \in 0 .. produced' /\ produced' \in Nat
    BY <2>2, <2>3, <2>4
  <2> QED
    BY <2>1, <2>2, <2>5, <2>6, <2>7 DEF Unlatched!Ordered
<1>4. CASE Unlatched!Release
  BY <1>4 DEF Unlatched!Release, Unlatched!Ordered
<1>5. CASE Unlatched!Clear
  BY <1>5 DEF Unlatched!Clear, Unlatched!Ordered
<1>6. CASE UNCHANGED (Unlatched!vars)
  BY <1>6 DEF Unlatched!vars, Unlatched!Ordered
<1> QED
  BY <1>1, <1>2, <1>3, <1>4, <1>5, <1>6 DEF Unlatched!Next

LEMMA OrderedInit ==
    ASSUME Unlatched!Init
    PROVE  Unlatched!Ordered
<1>1. Unread \in Seq(Nat) /\ Len(Unread) = 0
  BY DEF Unlatched!Init
<1>2. 1 .. Len(Unread) = {}
  BY <1>1
<1>3. ~reading /\ produced = 0 /\ lastRead = 0
  BY DEF Unlatched!Init
<1>4. reading \in BOOLEAN
  BY DEF reading
<1> QED
  BY <1>1, <1>2, <1>3, <1>4 DEF Unlatched!Ordered

LEMMA TakenNext ==
    ASSUME Unlatched!Ordered, [Unlatched!Next]_(Unlatched!vars), ~reading, reading'
    PROVE  lastRead' > lastRead
<1>1. Unlatched!Take
  BY DEF Unlatched!Next, Unlatched!Put, Unlatched!Release, Unlatched!Clear, Unlatched!vars
<1>2. Len(Unread) > 0 /\ lastRead' = Unread[1]
  BY <1>1 DEF Unlatched!Take, Unlatched!Ordered
<1> QED
  BY <1>2 DEF Unlatched!Ordered

\* A lossy queue hands out packets in the order they were put in, each at most
\* once (CircularBuffer.cc:236-238).
THEOREM QueueInOrder == Unlatched!Spec => Unlatched!TakenInOrder
<1>1. Unlatched!Ordered /\ [Unlatched!Next]_(Unlatched!vars)
        => [~reading /\ reading' => lastRead' > lastRead]_(Unlatched!vars)
  BY TakenNext
<1> QED
  BY <1>1, OrderedInit, OrderedStep, PTL DEF Unlatched!Spec, Unlatched!TakenInOrder

\* Hence packets are returned complete, in the order of writing, none twice.
THEOREM ReadInOrder ==
    ASSUME ~EmptyWhileReading
    PROVE  Spec => InOrder
<1> DEFINE OInv == QIInv /\ (~usesLatest => Unlatched!Ordered)
<1>1. Init => OInv
  <2> SUFFICES ASSUME Init, ~usesLatest PROVE Unlatched!Ordered
    BY InitIInv, QueueInit DEF QIInv
  <2>1. Unlatched!Init
    BY QueueInit DEF Queue!Init, Unlatched!Init, reading
  <2> QED
    BY <2>1, OrderedInit
<1>2. OInv /\ [Next]_vars => OInv'
  <2> SUFFICES ASSUME OInv, [Next]_vars PROVE OInv'
    OBVIOUS
  <2>1. QIInv' /\ usesLatest' = usesLatest
    BY IInvStep, PacketTypeStep DEF QIInv, IInv, Next, vars
  <2>2. ~usesLatest => Unlatched!Ordered'
    BY UnlatchedStep, OrderedStep
  <2> QED
    BY <2>1, <2>2
<1>3. OInv /\ [Next]_vars => [~usesLatest /\ ~reading /\ reading' => lastRead' > lastRead]_vars
  <2> SUFFICES ASSUME OInv, [Next]_vars, ~usesLatest, ~reading, reading'
               PROVE  lastRead' > lastRead
    BY DEF vars
  <2>1. [Unlatched!Next]_(Unlatched!vars)
    BY UnlatchedStep
  <2> QED
    BY <2>1, TakenNext
<1> QED
  BY <1>1, <1>2, <1>3, PTL DEF Spec, InOrder

=============================================================================
