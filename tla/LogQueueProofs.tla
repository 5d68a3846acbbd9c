--------------------------- MODULE LogQueueProofs ---------------------------
(***************************************************************************)
(* The log of a device, for every length of the queue, every number of     *)
(* entries and failures: the files stay aligned, no entry is freed while   *)
(* it is used, and closing loses at most one.                              *)
(*                                                                         *)
(* The entries are pushed in the order of their numbers and leave the      *)
(* queue at its head, so the queue holds the newest ones and 1 .. Taken    *)
(* have left it.  IInv follows an entry from there: in the logger's hands, *)
(* done, freed or dropped (Accounted), and in the files.                   *)
(***************************************************************************)
EXTENDS LogQueue, TLAPS, SequenceTheorems, FiniteSetTheorems

Holding == {"popped", "put", "line", "written", "failed"}
Idling  == {"top", "pop", "waiting", "signalled", "flush", "error"}

Taken == pushed - Len(queue)

TypeOK ==
    /\ pushed \in Nat /\ queue \in Seq(Nat)
    /\ pc \in Holding \cup Idling \cup {"exited"}
    /\ records \in Seq(Nat) /\ times \in Seq(Nat)
    /\ closer \in {"none", "empty", "idle", "join", "closed"}

\* The queue holds the newest entries, in order.
QueueNewest ==
    /\ Taken \in Nat
    /\ \A i \in 1 .. Len(queue) : queue[i] = Taken + i

\* The logger has an entry exactly while it works on one; the thread that has
\* exited may have kept its last.
EntryHeld ==
    /\ entry \in 0 .. Taken
    /\ pc \in Holding => entry # 0
    /\ pc \in Idling => entry = 0

GivenBack == done \cup freed \subseteq (1 .. Taken) \ {entry}
Accounted == 1 .. Taken \subseteq {entry} \cup overflowed \cup done \cup freed

RecordsOrdered ==
    /\ \A i, j \in 1 .. Len(records) : i < j => records[i] < records[j]
    /\ \A i \in 1 .. Len(records) :
         records[i] <= Taken /\ (pc \in {"popped", "put"} => records[i] < entry)

\* While the stream of times is good, only the entry between its record and its
\* line is missing in the times.
TimesFollow ==
    /\ Len(times) <= Len(records)
    /\ \A i \in 1 .. Len(times) : times[i] = records[i]
    /\ streamOk /\ pc = "line" =>
         Len(records) = Len(times) + 1 /\ records[Len(records)] = entry
    /\ streamOk /\ pc \notin {"line", "exited"} => Len(records) = Len(times)

Emptied == closer \in {"idle", "join", "closed"} => queue = <<>>

IInv ==
    /\ TypeOK /\ QueueNewest /\ EntryHeld /\ GivenBack /\ Accounted
    /\ RecordsOrdered /\ TimesFollow /\ Emptied


-----------------------------------------------------------------------------
\* An entry that is dropped or taken is the next one to leave the queue.
LEMMA HeadLeaves ==
    ASSUME TypeOK, QueueNewest, queue # <<>>
    PROVE  /\ Head(queue) = Taken + 1
           /\ Tail(queue) \in Seq(Nat) /\ Len(Tail(queue)) = Len(queue) - 1
           /\ \A i \in 1 .. Len(Tail(queue)) : Tail(queue)[i] = Taken + 1 + i
<1>1. /\ Tail(queue) \in Seq(Nat) /\ Len(Tail(queue)) = Len(queue) - 1
      /\ \A i \in 1 .. Len(Tail(queue)) : Tail(queue)[i] = queue[i + 1]
  BY HeadTailProperties DEF TypeOK
<1>2. Len(queue) \in Nat /\ Len(queue) >= 1
  BY EmptySeq, LenProperties DEF TypeOK
<1>3. Head(queue) = queue[1]
  BY DEF TypeOK
<1> QED
  BY <1>1, <1>2, <1>3 DEF QueueNewest, Taken, TypeOK

\* A push drops the head of a full queue.
LEMMA PushQueue ==
    ASSUME TypeOK, QueueNewest, Push
    PROVE  /\ pushed' \in Nat /\ queue' \in Seq(Nat) /\ QueueNewest'
           /\ \/ Taken' = Taken /\ overflowed' = overflowed
              \/ Taken' = Taken + 1 /\ overflowed' = overflowed \cup {Taken + 1}
<1> DEFINE full == Len(queue) >= MaxLength
           rest == IF full THEN Tail(queue) ELSE queue
<1>1. /\ pushed' = pushed + 1
      /\ queue' = Append(rest, pushed + 1)
      /\ overflowed' = overflowed \cup (IF full THEN {Head(queue)} ELSE {})
  BY DEF Push
<1>2. Len(queue) \in Nat /\ (full => queue # <<>>)
  BY LogAssumption, LenProperties, EmptySeq DEF TypeOK, LogAssumption
<1>3. /\ rest \in Seq(Nat) /\ Len(rest) = IF full THEN Len(queue) - 1 ELSE Len(queue)
      /\ \A i \in 1 .. Len(rest) : rest[i] = (IF full THEN Taken + 1 ELSE Taken) + i
      /\ full => Head(queue) = Taken + 1
  BY <1>2, HeadLeaves DEF TypeOK, QueueNewest
<1> HIDE DEF rest
<1>4. /\ queue' \in Seq(Nat) /\ Len(queue') = Len(rest) + 1
      /\ \A i \in 1 .. Len(rest) : queue'[i] = rest[i]
      /\ queue'[Len(rest) + 1] = pushed + 1
  BY <1>1, <1>3, AppendProperties DEF TypeOK
<1>5. /\ Taken \in Nat /\ Taken' = IF full THEN Taken + 1 ELSE Taken
  <2>1. Taken \in Nat /\ pushed \in Nat
    BY DEF QueueNewest, TypeOK
  <2>2. Len(rest) = IF full THEN Len(queue) - 1 ELSE Len(queue)
    BY <1>3
  <2>3. pushed' = pushed + 1 /\ Len(queue') = Len(rest) + 1
    BY <1>1, <1>4
  <2>4. CASE full
    <3>1. Len(queue') = Len(queue)
      BY <1>2, <2>2, <2>3, <2>4
    <3> QED
      BY <1>2, <2>1, <2>3, <2>4, <3>1 DEF Taken
  <2>5. CASE ~full
    <3>1. Len(queue') = Len(queue) + 1
      BY <1>2, <2>2, <2>3, <2>5
    <3> QED
      BY <1>2, <2>1, <2>3, <2>5, <3>1 DEF Taken
  <2> QED
    BY <2>4, <2>5
<1>6. QueueNewest'
  <2>1. \A i \in 1 .. Len(rest) : queue'[i] = Taken' + i
    BY <1>3, <1>4, <1>5
  <2>2. queue'[Len(rest) + 1] = Taken' + (Len(rest) + 1)
    <3>1. pushed \in Nat /\ Len(rest) \in Nat
      <4>1. rest \in Seq(Nat)
        BY <1>3
      <4>2. Len(rest) \in Nat
        BY <4>1, LenProperties
      <4>3. pushed \in Nat
        BY DEF TypeOK
      <4> QED
        BY <4>2, <4>3
    <3>2. Taken' = pushed + 1 - (Len(rest) + 1)
      <4>1. pushed' = pushed + 1 /\ Len(queue') = Len(rest) + 1
        BY <1>1, <1>4
      <4> QED
        BY <3>1, <4>1 DEF Taken
    <3> QED
      BY <1>4, <3>1, <3>2
  <2>3. Len(queue') = Len(rest) + 1 /\ Len(rest) \in Nat
    <3>1. rest \in Seq(Nat)
      BY <1>3
    <3> QED
      BY <1>4, <3>1, LenProperties
  <2>4. \A i \in 1 .. Len(queue') : i \in 1 .. Len(rest) \/ i = Len(rest) + 1
    BY <2>3
  <2>5. Taken' \in Nat
    BY <1>5
  <2> QED
    BY <2>1, <2>2, <2>4, <2>5 DEF QueueNewest
<1> QED
  BY <1>1, <1>3, <1>4, <1>5, <1>6 DEF TypeOK

\* Taking an entry leaves the rest.
LEMMA TakeQueue ==
    ASSUME TypeOK, QueueNewest, queue # <<>>, Take, pushed' = pushed
    PROVE  /\ queue' \in Seq(Nat) /\ QueueNewest'
           /\ Taken' = Taken + 1 /\ entry' = Taken + 1
<1>1. queue' = Tail(queue) /\ entry' = Taken + 1 /\ Len(queue') = Len(queue) - 1
  BY HeadLeaves DEF Take
<1>2. Len(queue) \in Nat
  BY LenProperties DEF TypeOK
<1>3. Taken' = Taken + 1
  BY <1>1, <1>2 DEF Taken, TypeOK
<1>4. QueueNewest'
  BY <1>1, <1>3, HeadLeaves DEF QueueNewest
<1> QED
  BY <1>1, <1>3, <1>4, HeadLeaves

\* An entry put at the end of a file.
LEMMA AppendFile ==
    ASSUME NEW file \in Seq(Nat), NEW e \in Nat
    PROVE  /\ Append(file, e) \in Seq(Nat)
           /\ Len(file) \in Nat /\ Len(Append(file, e)) = Len(file) + 1
           /\ \A i \in 1 .. Len(file) : Append(file, e)[i] = file[i]
           /\ Append(file, e)[Len(file) + 1] = e
  BY AppendProperties, LenProperties

-----------------------------------------------------------------------------
LEMMA InvInit == Init => IInv
  BY DEF Init, IInv, TypeOK, QueueNewest, Taken, EntryHeld, GivenBack, Accounted,
         RecordsOrdered, TimesFollow, Emptied, Holding, Idling

LEMMA PushStep == ASSUME IInv, Push PROVE IInv'
<1> USE DEF IInv
<1>1. /\ pushed' \in Nat /\ queue' \in Seq(Nat) /\ QueueNewest'
      /\ Taken \in Nat
      /\ \/ Taken' = Taken /\ overflowed' = overflowed
         \/ Taken' = Taken + 1 /\ overflowed' = overflowed \cup {Taken + 1}
  BY PushQueue DEF QueueNewest
<1>2. /\ pc' = IF pc = "waiting" THEN "signalled" ELSE pc
      /\ entry' = entry /\ done' = done /\ freed' = freed
      /\ records' = records /\ times' = times /\ streamOk' = streamOk
      /\ closer = "none" /\ closer' = closer
  BY DEF Push, fileVars, closeVars
<1>3. TypeOK'
  BY <1>1, <1>2 DEF TypeOK, Idling
<1>4. EntryHeld'
  BY <1>1, <1>2 DEF EntryHeld, Holding, Idling
<1>5. GivenBack' /\ Accounted'
  BY <1>1, <1>2 DEF GivenBack, Accounted, EntryHeld
<1>6. RecordsOrdered' /\ TimesFollow' /\ Emptied'
  <2>1. \A i \in 1 .. Len(records) : records[i] \in Nat
    BY DEF TypeOK
  <2> QED
    BY <1>1, <1>2, <2>1 DEF RecordsOrdered, TimesFollow, Emptied
<1> QED
  BY <1>1, <1>3, <1>4, <1>5, <1>6

\* The two actions that take an entry.
Takes ==
    /\ queue # <<>> /\ Take /\ pc \in Idling
    /\ UNCHANGED <<done, deviceVars, fileVars, passVars, closeVars>>

LEMMA TakeStep == ASSUME IInv, Takes PROVE IInv'
<1> USE DEF IInv, Takes
<1>1. /\ queue' \in Seq(Nat) /\ QueueNewest' /\ Taken \in Nat
      /\ Taken' = Taken + 1 /\ entry' = Taken + 1
  BY TakeQueue DEF deviceVars, QueueNewest
<1>2. /\ pc' = "popped" /\ entry = 0
      /\ pushed' = pushed /\ done' = done /\ freed' = freed
      /\ overflowed' = overflowed /\ records' = records /\ times' = times
      /\ streamOk' = streamOk /\ closer' = closer
  BY DEF Take, deviceVars, fileVars, closeVars, EntryHeld
<1>3. TypeOK'
  BY <1>1, <1>2 DEF TypeOK, Holding
<1>4. EntryHeld'
  BY <1>1, <1>2 DEF EntryHeld, Idling
<1>5. GivenBack' /\ Accounted'
  BY <1>1, <1>2 DEF GivenBack, Accounted
<1>6. RecordsOrdered'
  <2>1. \A i \in 1 .. Len(records) : records[i] \in Nat
    BY DEF TypeOK
  <2> QED
    BY <1>1, <1>2, <2>1 DEF RecordsOrdered
<1>7. TimesFollow' /\ Emptied'
  BY <1>2 DEF TimesFollow, Emptied, Idling
<1> QED
  BY <1>1, <1>3, <1>4, <1>5, <1>6, <1>7

\* The steps that move on and touch neither the entries nor the files.
Moves ==
    /\ queue' = queue /\ pushed' = pushed /\ overflowed' = overflowed
    /\ entry' = entry /\ done' = done /\ freed' = freed
    /\ records' = records /\ times' = times /\ streamOk' = streamOk
    /\ \/ pc' = pc
       \/ pc \in Idling /\ pc' \in Idling \cup {"exited"}
       \/ pc = "popped" /\ pc' = "put"
       \/ pc \in Holding /\ pc' = "exited"
    /\ \/ closer' = closer
       \/ closer' = "empty"
       \/ queue = <<>> /\ closer' \in {"idle", "join", "closed"}

LEMMA MoveStep == ASSUME IInv, Moves PROVE IInv'
<1> USE DEF IInv, Moves
<1>1. /\ queue' = queue /\ pushed' = pushed /\ entry' = entry /\ freed' = freed
      /\ done' = done /\ overflowed' = overflowed /\ records' = records
      /\ times' = times /\ streamOk' = streamOk /\ Taken' = Taken
  BY DEF fileVars, Taken
<1>2. TypeOK' /\ QueueNewest' /\ EntryHeld'
  BY <1>1 DEF TypeOK, QueueNewest, EntryHeld, Holding, Idling
<1>3. GivenBack' /\ Accounted' /\ Emptied'
  BY <1>1 DEF GivenBack, Accounted, Emptied
<1>4. RecordsOrdered' /\ TimesFollow'
  BY <1>1 DEF RecordsOrdered, TimesFollow, Holding, Idling
<1> QED
  BY <1>2, <1>3, <1>4


LEMMA PutStep == ASSUME IInv, Put PROVE IInv'
<1> USE DEF IInv
<1>1. /\ queue' = queue /\ pushed' = pushed /\ entry' = entry /\ freed' = freed
      /\ done' = done /\ overflowed' = overflowed /\ times' = times
      /\ streamOk' = streamOk /\ closer' = closer /\ Taken' = Taken /\ pc = "put"
  BY DEF Put, deviceVars, closeVars, Taken
<1>2. entry \in Nat /\ Taken \in Nat /\ entry <= Taken
  BY DEF EntryHeld, QueueNewest
<1>3. CASE records' = records /\ pc' = "failed"
  <2>1. TypeOK' /\ QueueNewest' /\ EntryHeld'
    BY <1>1, <1>3 DEF TypeOK, QueueNewest, EntryHeld, Holding, Idling
  <2>2. GivenBack' /\ Accounted' /\ Emptied'
    BY <1>1 DEF GivenBack, Accounted, Emptied
  <2>3. RecordsOrdered' /\ TimesFollow'
    BY <1>1, <1>3 DEF RecordsOrdered, TimesFollow
  <2> QED
    BY <2>1, <2>2, <2>3
<1>4. CASE records' = Append(records, entry) /\ pc' = "line"
  <2>1. /\ records' \in Seq(Nat) /\ Len(records) \in Nat
        /\ Len(records') = Len(records) + 1
        /\ \A i \in 1 .. Len(records) : records'[i] = records[i]
        /\ records'[Len(records) + 1] = entry
    <3>1. records \in Seq(Nat)
      BY DEF TypeOK
    <3> QED
      BY <1>2, <1>4, <3>1, AppendFile
  <2>2. TypeOK' /\ QueueNewest' /\ EntryHeld'
    BY <1>1, <1>4, <2>1 DEF TypeOK, QueueNewest, EntryHeld, Holding, Idling
  <2>3. GivenBack' /\ Accounted' /\ Emptied'
    BY <1>1 DEF GivenBack, Accounted, Emptied
  <2>4. RecordsOrdered'
    <3>1. \A i \in 1 .. Len(records) : records[i] < entry
      BY <1>1 DEF RecordsOrdered
    <3>2. \A i \in 1 .. Len(records') : i \in 1 .. Len(records) \/ i = Len(records')
      BY <2>1
    <3>3. \A i \in 1 .. Len(records') : records'[i] <= Taken
      BY <1>2, <2>1, <3>2 DEF RecordsOrdered
    <3>4. \A i, j \in 1 .. Len(records') : i < j => records'[i] < records'[j]
      <4> SUFFICES ASSUME NEW i \in 1 .. Len(records'), NEW j \in 1 .. Len(records'),
                          i < j
                   PROVE  records'[i] < records'[j]
        OBVIOUS
      <4>1. i \in 1 .. Len(records) /\ records'[i] = records[i]
        BY <2>1
      <4>2. CASE j = Len(records) + 1
        BY <2>1, <3>1, <4>1, <4>2
      <4>3. CASE j \in 1 .. Len(records)
        BY <2>1, <4>1, <4>3 DEF RecordsOrdered
      <4> QED
        BY <2>1, <3>2, <4>2, <4>3
    <3> QED
      BY <1>1, <1>4, <3>3, <3>4 DEF RecordsOrdered
  <2>5. TimesFollow'
    <3>1. Len(times) <= Len(records) /\ Len(times) \in Nat
      BY LenProperties DEF TimesFollow, TypeOK
    <3>2. streamOk => Len(records) = Len(times)
      BY <1>1 DEF TimesFollow
    <3> QED
      BY <1>1, <1>4, <2>1, <3>1, <3>2 DEF TimesFollow
  <2> QED
    BY <2>1, <2>2, <2>3, <2>4, <2>5
<1> QED
  BY <1>3, <1>4 DEF Put

LEMMA WriteLineStep == ASSUME IInv, WriteLine PROVE IInv'
<1> USE DEF IInv
<1>1. /\ queue' = queue /\ pushed' = pushed /\ entry' = entry /\ freed' = freed
      /\ done' = done /\ overflowed' = overflowed /\ records' = records
      /\ closer' = closer /\ Taken' = Taken
      /\ pc = "line" /\ pc' \in {"written", "failed"}
  BY DEF WriteLine, deviceVars, closeVars, Taken
<1>2. QueueNewest' /\ EntryHeld' /\ GivenBack' /\ Accounted' /\ Emptied'
  BY <1>1
  DEF QueueNewest, EntryHeld, Holding, Idling, GivenBack, Accounted, Emptied
<1>3. RecordsOrdered'
  BY <1>1 DEF RecordsOrdered
<1>4. CASE times' = times /\ ~streamOk'
  BY <1>1, <1>2, <1>3, <1>4 DEF TypeOK, Holding, TimesFollow
<1>5. CASE times' = Append(times, entry) /\ streamOk /\ streamOk' = streamOk
  <2>1. times \in Seq(Nat) /\ entry \in Nat
    BY DEF TypeOK, EntryHeld
  <2>2. /\ times' \in Seq(Nat) /\ Len(times) \in Nat
        /\ Len(times') = Len(times) + 1
        /\ \A i \in 1 .. Len(times) : times'[i] = times[i]
        /\ times'[Len(times) + 1] = entry
    BY <1>5, <2>1, AppendFile
  <2>3. Len(records) = Len(times) + 1 /\ records[Len(records)] = entry
    BY <1>1, <1>5 DEF TimesFollow
  <2>4. \A i \in 1 .. Len(times') : times'[i] = records[i]
    <3>1. \A i \in 1 .. Len(times') : i \in 1 .. Len(times) \/ i = Len(times) + 1
      BY <2>2
    <3> QED
      BY <2>2, <2>3, <3>1 DEF TimesFollow
  <2>5. TimesFollow'
    BY <1>1, <2>2, <2>3, <2>4 DEF TimesFollow
  <2>6. TypeOK'
    BY <1>1, <2>2 DEF TypeOK, Holding
  <2> QED
    BY <1>2, <1>3, <2>5, <2>6
<1> QED
  BY <1>4, <1>5 DEF WriteLine

LEMMA PushDoneStep == ASSUME IInv, PushDone PROVE IInv'
<1> USE DEF IInv
<1>1. /\ queue' = queue /\ pushed' = pushed /\ freed' = freed
      /\ overflowed' = overflowed /\ records' = records /\ times' = times
      /\ streamOk' = streamOk /\ closer' = closer /\ Taken' = Taken
      /\ done' = done \cup {entry} /\ entry' = 0
      /\ pc \in {"written", "failed"} /\ pc' \in {"flush", "error"}
  BY DEF PushDone, deviceVars, fileVars, closeVars, Taken
<1>2. entry \in 1 .. Taken
  BY <1>1 DEF EntryHeld, Holding
<1>3. TypeOK' /\ QueueNewest' /\ EntryHeld' /\ Emptied'
  BY <1>1 DEF TypeOK, QueueNewest, EntryHeld, Holding, Idling, Emptied
<1>4. GivenBack' /\ Accounted'
  BY <1>1, <1>2 DEF GivenBack, Accounted
<1>5. RecordsOrdered' /\ TimesFollow'
  BY <1>1 DEF RecordsOrdered, TimesFollow
<1> QED
  BY <1>3, <1>4, <1>5

\* What is done is freed; nothing else changes hands.
LEMMA FreeStep == ASSUME IInv, FreeLogMem PROVE IInv'
<1> USE DEF IInv
<1>1. /\ queue' = queue /\ pushed' = pushed /\ entry' = entry
      /\ overflowed' = overflowed /\ records' = records /\ times' = times
      /\ streamOk' = streamOk /\ closer' = closer /\ Taken' = Taken /\ pc' = pc
      /\ done' = {} /\ freed' = freed \cup done
  BY DEF FreeLogMem, fileVars, closeVars, Taken
<1>2. TypeOK' /\ QueueNewest' /\ EntryHeld' /\ Emptied'
  BY <1>1 DEF TypeOK, QueueNewest, EntryHeld, Emptied
<1>3. GivenBack' /\ Accounted'
  BY <1>1 DEF GivenBack, Accounted
<1>4. RecordsOrdered' /\ TimesFollow'
  BY <1>1 DEF RecordsOrdered, TimesFollow
<1> QED
  BY <1>2, <1>3, <1>4

LEMMA FlushStep == ASSUME IInv, Flush PROVE IInv'
<1>1. /\ UNCHANGED <<queue, pushed, entry, freed, done, overflowed, closer>>
      /\ records' = records /\ times' = times /\ (streamOk' => streamOk)
      /\ pc \in Idling /\ pc' \in Idling
  BY DEF Flush, deviceVars, closeVars, Idling
<1>2. TypeOK' /\ QueueNewest' /\ EntryHeld' /\ Emptied'
  BY <1>1 DEF IInv, TypeOK, QueueNewest, Taken, EntryHeld, Holding, Idling, Emptied
<1>3. GivenBack' /\ Accounted'
  BY <1>1 DEF IInv, GivenBack, Accounted, Taken
<1>4. RecordsOrdered' /\ TimesFollow'
  BY <1>1 DEF IInv, RecordsOrdered, TimesFollow, Taken, Idling
<1> QED
  BY <1>2, <1>3, <1>4 DEF IInv

LEMMA InvStep ==
    ASSUME IInv, [Next]_vars
    PROVE  IInv'
<1> USE DEF deviceVars, fileVars, passVars, closeVars
<1>1. CASE Push
  BY <1>1, PushStep
<1>2. CASE FreeLogMem
  BY <1>2, FreeStep
<1>3. CASE TestCancel
  <2>1. Moves
    BY <1>3 DEF TestCancel, Idling, Moves
  <2> QED
    BY <2>1, MoveStep
<1>4. CASE Pop
  <2>1. CASE queue # <<>> /\ Take
    <3>1. Takes
      BY <1>4, <2>1 DEF Pop, Idling, Takes
    <3> QED
      BY <3>1, TakeStep
  <2>2. CASE queue = <<>> /\ pc' = "waiting" /\ UNCHANGED <<entry, queue>>
    <3>1. Moves
      BY <1>4, <2>2 DEF Pop, Idling, Moves
    <3> QED
      BY <3>1, MoveStep
  <2> QED
    BY <1>4, <2>1, <2>2 DEF Pop
<1>5. CASE WaitEnds
  <2>1. CASE pc = "signalled" /\ queue # <<>> /\ Take
    <3>1. Takes
      BY <1>5, <2>1 DEF WaitEnds, Idling, Takes
    <3> QED
      BY <3>1, TakeStep
  <2>2. CASE pc \in Idling /\ pc' = "flush" /\ UNCHANGED <<entry, queue>>
    <3>1. Moves
      BY <1>5, <2>2 DEF WaitEnds, Idling, Moves
    <3> QED
      BY <3>1, MoveStep
  <2> QED
    BY <1>5, <2>1, <2>2 DEF WaitEnds, Idling
<1>6. CASE SetBusy
  <2>1. Moves
    BY <1>6 DEF SetBusy, Moves
  <2> QED
    BY <2>1, MoveStep
<1>7. CASE Put
  BY <1>7, PutStep
<1>8. CASE WriteLine
  BY <1>8, WriteLineStep
<1>9. CASE PushDone
  BY <1>9, PushDoneStep
<1>10. CASE Flush
  BY <1>10, FlushStep
<1>11. CASE UpdateFailed
  <2>1. Moves
    BY <1>11 DEF UpdateFailed, Idling, Moves
  <2> QED
    BY <2>1, MoveStep
<1>12. CASE Cancelled
  <2>1. Moves
    BY <1>12 DEF Cancelled, CancellationPoints, Idling, Holding, Moves
  <2> QED
    BY <2>1, MoveStep
<1>13. CASE FlushPeriodEnds
  <2>1. Moves
    BY <1>13 DEF FlushPeriodEnds, Moves
  <2> QED
    BY <2>1, MoveStep
<1>14. CASE StopDevice
  <2>1. Moves
    BY <1>14 DEF StopDevice, Moves
  <2> QED
    BY <2>1, MoveStep
<1>15. CASE Close
  <2>1. \/ closer' = "idle" /\ queue = <<>>
        \/ closer' \in {"join", "closed"} /\ closer \in {"idle", "join"}
    BY <1>15 DEF Close, WaitEmpty, WaitIdle
  <2>2. queue = <<>> /\ closer' \in {"idle", "join", "closed"}
    BY <2>1 DEF IInv, Emptied
  <2>3. Moves
    BY <1>15, <2>2 DEF Close, Moves
  <2> QED
    BY <2>3, MoveStep
<1>16. CASE UNCHANGED vars
  <2>1. Moves
    BY <1>16 DEF vars, Moves
  <2> QED
    BY <2>1, MoveStep
<1> QED
  BY <1>1, <1>2, <1>3, <1>4, <1>5, <1>6, <1>7, <1>8, <1>9, <1>10, <1>11, <1>12,
     <1>13, <1>14, <1>15, <1>16
  DEF Next, Logger

LEMMA Invariance == Spec => []IInv
  BY InvInit, InvStep, PTL DEF Spec

-----------------------------------------------------------------------------
\* The records are in the order of the pushes, and line i of the times is the time of
\* record i, whatever fails and wherever the thread is cancelled
\* (DataLoggerQueueDB.cc:160-180, DbWrite.cc).
THEOREM FilesAligned == Spec => []LogAligned
<1>1. IInv => LogAligned
  <2> SUFFICES ASSUME IInv PROVE LogAligned
    OBVIOUS
  <2>1. /\ times \in Seq(Nat) /\ records \in Seq(Nat)
        /\ Len(times) \in Nat /\ Len(times) <= Len(records)
    BY LenProperties DEF IInv, TypeOK, TimesFollow
  <2>2. \A i \in 1 .. Len(times) : times[i] \in Nat /\ records[i] \in Nat
    BY <2>1, ElementOfSeq, LenProperties
  <2> DEFINE t == SubSeq(times, 1, Len(times))
             r == SubSeq(records, 1, Len(times))
  <2>3. /\ t \in Seq(Nat) /\ Len(t) = IF 1 <= Len(times) THEN Len(times) - 1 + 1 ELSE 0
        /\ \A i \in 1 .. Len(times) - 1 + 1 : t[i] = times[1 + i - 1]
    BY <2>1, <2>2, SubSeqProperties
  <2>4. /\ r \in Seq(Nat) /\ Len(r) = IF 1 <= Len(times) THEN Len(times) - 1 + 1 ELSE 0
        /\ \A i \in 1 .. Len(times) - 1 + 1 : r[i] = records[1 + i - 1]
    BY <2>1, <2>2, SubSeqProperties
  <2> HIDE DEF t, r
  <2>5. Len(t) = Len(r) /\ \A i \in 1 .. Len(t) : t[i] = r[i]
    BY <2>1, <2>3, <2>4 DEF IInv, TimesFollow
  <2>6. t = r
    BY <2>3, <2>4, <2>5, SeqEqual
  <2>7. IsPrefix(times, records)
    BY <2>1, <2>6 DEF IsPrefix, t, r
  <2> QED
    BY <2>7 DEF LogAligned, IInv, RecordsOrdered
<1> QED
  BY <1>1, Invariance, PTL

\* The device thread never frees an entry that is queued or in the logger's hands
\* (DataLoggerQueue.cc, DeviceInterface.cc).
THEOREM NoUseAfterFree == Spec => []FreedAfterUse
<1>1. IInv => FreedAfterUse
  <2> SUFFICES ASSUME IInv, NEW e \in ToSet(queue) \cup {entry}
               PROVE  e \notin done \cup freed
    BY DEF FreedAfterUse
  <2>1. CASE e = entry
    BY <2>1 DEF IInv, GivenBack
  <2>2. CASE e \in ToSet(queue)
    <3>1. PICK i \in 1 .. Len(queue) : e = queue[i]
      BY <2>2, LenProperties DEF ToSet, IInv, TypeOK
    <3>2. e = Taken + i /\ Taken \in Nat
      BY <3>1 DEF IInv, QueueNewest
    <3> QED
      BY <3>1, <3>2 DEF IInv, GivenBack
  <2> QED
    BY <2>1, <2>2
<1> QED
  BY <1>1, Invariance, PTL

\* When the destructor has closed the log, all but at most one of the entries pushed
\* are in the file of times, done, freed or dropped by a full queue: the logger may have
\* had one in its hands that busy did not show yet (DataLoggerQueueDB.cc:61-66, 160).
THEOREM ClosingLosesAtMostOne == Spec => []AtMostOneLost
<1>1. IInv => AtMostOneLost
  <2> SUFFICES ASSUME IInv, closer = "closed"
               PROVE  Cardinality((1 .. pushed) \ (overflowed \cup done \cup freed
                                                     \cup ToSet(times))) <= 1
    BY DEF AtMostOneLost
  <2> DEFINE lost == (1 .. pushed) \ (overflowed \cup done \cup freed \cup ToSet(times))
  <2>1. queue = <<>> /\ Taken = pushed
    <3>1. queue = <<>> /\ pushed \in Nat
      BY DEF IInv, Emptied, TypeOK
    <3> QED
      BY <3>1, EmptySeq DEF Taken
  <2>2. lost \subseteq {entry}
    BY <2>1 DEF IInv, Accounted
  <2>3. IsFiniteSet({entry}) /\ Cardinality({entry}) = 1
    BY FS_Singleton
  <2> HIDE DEF lost
  <2>4. Cardinality(lost) <= 1
    BY <2>2, <2>3, FS_Subset
  <2> QED
    BY <2>4 DEF lost
<1> QED
  BY <1>1, Invariance, PTL

=============================================================================
