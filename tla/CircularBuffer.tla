--------------------------- MODULE CircularBuffer ---------------------------
(***************************************************************************)
(* The ring of packet buffers between a device thread and the user's       *)
(* thread: drivers/SerialDevice/CircularBuffer.cc, with the one writer of  *)
(* DeviceInterface::UpdateFunction and the one reader of                   *)
(* HokuyoCircular::GetValues.                                              *)
(*                                                                         *)
(* Every method holds dataMutex from its first to its last line, so that a *)
(* method is one action; only the wait for data, which releases the mutex, *)
(* splits GetReadPtr and GetReadPtrLatest in two.  Between the methods the *)
(* writer fills, and the reader copies, the buffer it was given a pointer  *)
(* to, without any lock: SlotExclusion says that this is safe.             *)
(*                                                                         *)
(* A packet is its number in the order of writing; 0 is the contents of a  *)
(* buffer that holds no complete packet.                                   *)
(***************************************************************************)
EXTENDS Integers, Sequences

CONSTANTS
    NumBuffers,
    EmptyWhileReading, \* whether EmptyBuffer may run while a buffer is read
    MaxPackets         \* bound: packets written in a behaviour

ASSUME BufferAssumption ==
    /\ NumBuffers \in Nat /\ NumBuffers >= 2
    /\ EmptyWhileReading \in BOOLEAN
    /\ MaxPackets \in Nat

Slots == 0 .. NumBuffers - 1
None  == -1

VARIABLES
    writeCntr, readCntr, latestCntr,
    dataBufferFresh,
    writing,
    contents,      \* the packet in each of dataBuffers
    writer,        \* the device thread: "idle" or filling dataBuffers[writeCntr]
    reader,        \* the user: "idle", in a wait, or "reading"
    readSlot,      \* the buffer the reader has a pointer to
    produced,      \* history: number of packets written
    lastRead,      \* history: the last packet the reader was given
    remaining,     \* the last *numPacketsRemaining
    usesLatest     \* whether this user calls GetReadPtrLatest; never changes

ring == <<writeCntr, readCntr, latestCntr, dataBufferFresh, contents>>
vars == <<ring, writing, writer, reader, readSlot, produced, lastRead, remaining,
          usesLatest>>

reading == reader = "reading"

\* Indexes run around the ring.
Succ(i)        == IF i = NumBuffers - 1 THEN 0 ELSE i + 1
Distance(a, b) == IF a <= b THEN b - a ELSE b - a + NumBuffers
Slot(a, i)     == IF a + i < NumBuffers THEN a + i ELSE a + i - NumBuffers

Init ==
    /\ writeCntr = 0 /\ readCntr = 0 /\ latestCntr = None
    /\ dataBufferFresh = [s \in Slots |-> FALSE]
    /\ contents = [s \in Slots |-> 0]
    /\ writing = FALSE
    /\ writer = "idle" /\ reader = "idle" /\ readSlot = 0
    /\ produced = 0 /\ lastRead = 0 /\ remaining = 0
    /\ usesLatest \in BOOLEAN /\ (usesLatest => NumBuffers >= 3)

-----------------------------------------------------------------------------
(* The writer.                                                             *)

\* A slip: the writer does not look at what is being read.
WritePositionAny == writeCntr

\* The buffer to fill next: not the one that is being read.
WritePosition ==
    IF writeCntr = readCntr /\ reading THEN Succ(writeCntr) ELSE writeCntr

GetWritePtr ==
    /\ ~writing /\ writer = "idle"
    /\ writeCntr' = WritePosition
    /\ contents' = [contents EXCEPT ![writeCntr'] = 0]  \* about to be filled
    /\ writing' = TRUE /\ writer' = "filling"
    /\ UNCHANGED <<readCntr, latestCntr, dataBufferFresh, reader, readSlot,
                   produced, lastRead, remaining>>

MarkLatest == latestCntr' = writeCntr

DoneWriting ==
    /\ writer = "filling"
    /\ produced < MaxPackets
    /\ contents' = [contents EXCEPT ![writeCntr] = produced + 1]
    /\ dataBufferFresh' = [dataBufferFresh EXCEPT ![writeCntr] = TRUE]
    /\ MarkLatest
    /\ writeCntr' = Succ(writeCntr)
    /\ produced' = produced + 1
    /\ writing' = FALSE /\ writer' = "idle"
    /\ UNCHANGED <<readCntr, reader, readSlot, lastRead, remaining>>

\* The device gave no data.
DoneWritingNothing ==
    /\ writer = "filling"
    /\ dataBufferFresh' = [dataBufferFresh EXCEPT ![writeCntr] = FALSE]
    /\ writing' = FALSE /\ writer' = "idle"
    /\ UNCHANGED <<writeCntr, readCntr, latestCntr, contents, reader, readSlot,
                   produced, lastRead, remaining>>

\* More data than fits: DoneWriting fails and leaves the buffer with a writer
\* that has gone away, so that GetWritePtr fails from now on.
DoneWritingTooMuch ==
    /\ writer = "filling"
    /\ writer' = "idle"
    /\ UNCHANGED <<ring, writing, reader, readSlot, produced, lastRead, remaining>>

\* The device thread drops what is unread when the scan settings change.
EmptyBuffer ==
    /\ writer = "filling"
    /\ reading => EmptyWhileReading
    /\ readCntr' = writeCntr
    /\ dataBufferFresh' =
         [s \in Slots |-> /\ dataBufferFresh[s]
                          /\ Distance(readCntr, s) >= Distance(readCntr, writeCntr)]
    /\ UNCHANGED <<writeCntr, latestCntr, contents, writing, writer, reader,
                   readSlot, produced, lastRead, remaining>>

-----------------------------------------------------------------------------
(* The reader.                                                             *)

StartReading(s) ==
    /\ reader' = "reading"
    /\ readCntr' = s /\ readSlot' = s
    /\ lastRead' = contents[s]
    /\ dataBufferFresh' = [dataBufferFresh EXCEPT ![readCntr] = FALSE]
    /\ UNCHANGED <<writeCntr, latestCntr, contents, writing, writer, produced,
                   remaining>>

Become(state) ==
    /\ reader' = state
    /\ UNCHANGED <<ring, writing, writer, readSlot, produced, lastRead, remaining>>

NextAvailable   == readCntr # writeCntr
LatestAvailable == latestCntr # None /\ dataBufferFresh[latestCntr]

GetReadPtr ==
    /\ reader = "idle"
    /\ IF NextAvailable THEN StartReading(readCntr) ELSE Become("waitNext")

GetReadPtrLatest ==
    /\ reader = "idle" /\ usesLatest
    /\ IF LatestAvailable THEN StartReading(latestCntr) ELSE Become("waitLatest")

\* The wait ends with a signal, of which several packets may have been
\* written, or with a spurious wake-up; the condition is looked at once.
WakeNext ==
    /\ reader = "waitNext"
    /\ IF NextAvailable /\ dataBufferFresh[readCntr]
       THEN StartReading(readCntr) ELSE Become("idle")

WakeLatest ==
    /\ reader = "waitLatest"
    /\ IF LatestAvailable THEN StartReading(latestCntr) ELSE Become("idle")

Timeout == reader \in {"waitNext", "waitLatest"} /\ Become("idle")

\* A slip: the read counter moves on even if the writer has come around.
ReadPositionPast == Succ(readCntr)

ReadPosition == IF readCntr # writeCntr THEN Succ(readCntr) ELSE readCntr

DoneReading ==
    /\ reading
    /\ reader' = "idle"
    /\ remaining' = IF writeCntr > readCntr THEN writeCntr - readCntr - 1
                    ELSE writeCntr - readCntr - 1 + NumBuffers
    /\ readCntr' = ReadPosition
    /\ UNCHANGED <<writeCntr, latestCntr, dataBufferFresh, contents, writing,
                   writer, readSlot, produced, lastRead>>

Writer == \/ GetWritePtr \/ DoneWriting \/ DoneWritingNothing
          \/ DoneWritingTooMuch \/ EmptyBuffer
Reader == \/ GetReadPtr \/ GetReadPtrLatest \/ WakeNext \/ WakeLatest
          \/ Timeout \/ DoneReading
Next == (Writer \/ Reader) /\ UNCHANGED usesLatest
Spec == Init /\ [][Next]_vars

-----------------------------------------------------------------------------
(* Properties.                                                             *)

\* Every variable has its type.
TypeOK ==
    /\ {writeCntr, readCntr, readSlot} \subseteq Slots
    /\ latestCntr \in Slots \cup {None}
    /\ dataBufferFresh \in [Slots -> BOOLEAN]
    /\ contents \in [Slots -> 0 .. MaxPackets]
    /\ writing \in BOOLEAN
    /\ writer \in {"idle", "filling"}
    /\ reader \in {"idle", "waitNext", "waitLatest", "reading"}
    /\ produced \in 0 .. MaxPackets
    /\ lastRead \in 0 .. MaxPackets
    /\ remaining \in 0 .. NumBuffers - 1
    /\ usesLatest \in BOOLEAN

\* The writer never fills the buffer the reader has a pointer to, although
\* both use it without the mutex: "if the user is actually reading from the
\* buffer, we can't write to it, so jump over" (CircularBuffer.cc:122).
SlotExclusion == reading /\ writer = "filling" => readSlot # writeCntr

\* Packets come out of GetReadPtr complete, each at most once and in the order
\* of writing, however far the writer runs ahead or around
\* (CircularBuffer.cc:236-238), unless the user calls GetReadPtrLatest as well.
InOrder == [][~usesLatest /\ ~reading /\ reading' => lastRead' > lastRead]_vars

\* The unread packets, as the reader will get them.
FirstUnread == IF reading /\ readCntr # writeCntr THEN Succ(readCntr) ELSE readCntr
UnreadCount == Distance(FirstUnread, writeCntr)
Unread == [i \in 1 .. UnreadCount |-> contents[Slot(FirstUnread, i - 1)]]

\* To the user of GetReadPtr alone the ring is a queue; there is none to speak
\* of for the user of GetReadPtrLatest.
Queue == INSTANCE LossyQueue WITH
             Capacity <- NumBuffers - 1,
             queue    <- IF usesLatest THEN <<>> ELSE Unread,
             held     <- ~usesLatest /\ reading,
             produced <- IF usesLatest THEN 0 ELSE produced,
             lastRead <- IF usesLatest THEN 0 ELSE lastRead

\* The ring is a lossy queue of NumBuffers - 1 packets: it loses nothing until
\* that many are unread or held, and then all of them at once.
ImplementsQueue == Queue!Spec

=============================================================================
