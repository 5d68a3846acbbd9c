------------------------------ MODULE LogQueue ------------------------------
(***************************************************************************)
(* The buffered log of a device: PointerQueueBuffer, DataLoggerQueue,      *)
(* DataLoggerQueueDB and DbWrite of drivers/SerialDevice, used by the      *)
(* device thread of DeviceInterface, which pushes entries and frees those  *)
(* that are done, by the logger thread, which writes them to the data base *)
(* and to the file of times, and by the destructor of the device, which    *)
(* stops the one thread and then closes the log under the other.           *)
(*                                                                         *)
(* A section under the mutex of the queue, or of busy, is one step.  Where *)
(* pthread_cancel may strike (testcancel, the wait for a signal, file I/O, *)
(* usleep), the logger has a step Cancelled.  The log has been opened      *)
(* successfully.  An entry is the number of its push.                      *)
(***************************************************************************)
EXTENDS Naturals, FiniteSets, SequencesExt

CONSTANTS
    MaxLength,       \* POINTER_QUEUE_BUFFER_DEF_MAX_LENGTH
    MaxConsecutive,  \* DATA_LOGGER_QUEUE_MAX_NUM_CONSECUTIVE_ERRORS
    MaxEntries,      \* bound: entries pushed in a behaviour
    MaxFailures      \* bound: failures of the files in a behaviour

ASSUME LogAssumption ==
    /\ MaxLength \in Nat \ {0} /\ MaxConsecutive \in Nat \ {0}
    /\ MaxEntries \in Nat /\ MaxFailures \in Nat

VARIABLES
    pushed, queue,     \* entries pushed so far; logQueue
    done, freed,       \* doneQueue as a set; the entries whose data is freed
    overflowed,        \* the entries dropped from a full queue
    pc,                \* of the logger thread
    entry,             \* qbd, 0 when the thread has none
    busy, flushDue,    \* the flush period is over
    consecutive,       \* nErrorsConsecutive
    failures,          \* failures of the files so far
    records, times,    \* what is in the data base, and in the file of times
    streamOk,          \* infoStream has not failed
    closer, cancelled  \* the stage of the destructor; pthread_cancel was called

deviceVars == <<pushed, freed, overflowed>>
fileVars   == <<records, times, streamOk, failures>>
passVars   == <<busy, flushDue, consecutive>>
closeVars  == <<closer, cancelled>>
vars == <<queue, done, pc, entry, deviceVars, fileVars, passVars, closeVars>>

Entries == 1 .. MaxEntries

Init ==
    /\ pushed = 0 /\ queue = <<>> /\ done = {} /\ freed = {} /\ overflowed = {}
    /\ pc = "top" /\ entry = 0 /\ busy = FALSE /\ flushDue = FALSE
    /\ consecutive = 0 /\ failures = 0
    /\ records = <<>> /\ times = <<>> /\ streamOk = TRUE
    /\ closer = "none" /\ cancelled = FALSE

-----------------------------------------------------------------------------
\* The device thread.

\* The signal wakes a logger that waits, and is lost on one that does not.
Push ==
    /\ closer = "none" /\ pushed < MaxEntries
    /\ pushed' = pushed + 1
    /\ LET full == Len(queue) >= MaxLength
       IN  /\ queue' = Append(IF full THEN Tail(queue) ELSE queue, pushed + 1)
           /\ overflowed' = overflowed \cup (IF full THEN {Head(queue)} ELSE {})
    /\ pc' = IF pc = "waiting" THEN "signalled" ELSE pc
    /\ UNCHANGED <<done, freed, entry, fileVars, passVars, closeVars>>

FreeLogMem ==
    /\ closer = "none" /\ done # {}
    /\ done' = {}
    /\ freed' = freed \cup done
    /\ UNCHANGED <<pushed, queue, overflowed, pc, entry, fileVars, passVars, closeVars>>

-----------------------------------------------------------------------------
\* The logger thread: one pass of ThreadFunc.

Take ==
    /\ entry' = Head(queue)
    /\ queue' = Tail(queue)
    /\ pc' = "popped"

\* A slip: it waits for the signal without looking at the queue.
PopOnSignal ==
    /\ pc = "pop"
    /\ pc' = "waiting" /\ UNCHANGED <<entry, queue>>
    /\ UNCHANGED <<done, deviceVars, fileVars, passVars, closeVars>>

TestCancel ==
    /\ pc = "top" /\ ~cancelled
    /\ pc' = "pop"
    /\ UNCHANGED <<queue, done, entry, deviceVars, fileVars, passVars, closeVars>>

Pop ==
    /\ pc = "pop"
    /\ \/ queue # <<>> /\ Take
       \/ queue = <<>> /\ pc' = "waiting" /\ UNCHANGED <<entry, queue>>
    /\ UNCHANGED <<done, deviceVars, fileVars, passVars, closeVars>>

\* A wait that times out gives up even if an entry has come since; one that
\* is signalled looks again, for the wait may end without a signal.
WaitEnds ==
    /\ \/ pc = "waiting" /\ pc' = "flush" /\ UNCHANGED <<entry, queue>>
       \/ pc = "signalled" /\ queue # <<>> /\ Take
       \/ pc = "signalled" /\ queue = <<>> /\ pc' = "flush" /\ UNCHANGED <<entry, queue>>
    /\ UNCHANGED <<done, deviceVars, fileVars, passVars, closeVars>>

\* A slip: the entry is given back before it is written.
DoneBeforeWrite ==
    /\ pc = "popped"
    /\ busy' = TRUE
    /\ done' = done \cup {entry}
    /\ pc' = "put"
    /\ UNCHANGED <<queue, entry, flushDue, consecutive,
                   deviceVars, fileVars, closeVars>>

SetBusy ==
    /\ pc = "popped"
    /\ busy' = TRUE
    /\ pc' = "put"
    /\ UNCHANGED <<queue, done, entry, flushDue, consecutive,
                   deviceVars, fileVars, closeVars>>

\* A slip: the exception of the data base is reported, as in CloseDb, and the
\* line of times is written all the same.
PutAnyway ==
    /\ pc = "put"
    /\ \/ records' = Append(records, entry) /\ UNCHANGED failures
       \/ failures < MaxFailures /\ failures' = failures + 1 /\ UNCHANGED records
    /\ pc' = "line"
    /\ UNCHANGED <<queue, done, entry, times, streamOk, deviceVars, passVars, closeVars>>

\* WriteDb: the record, and then its line in the file of times.
Put ==
    /\ pc = "put"
    /\ \/ records' = Append(records, entry) /\ pc' = "line" /\ UNCHANGED failures
       \/ /\ failures < MaxFailures /\ failures' = failures + 1
          /\ pc' = "failed" /\ UNCHANGED records
    /\ UNCHANGED <<queue, done, entry, times, streamOk, deviceVars, passVars, closeVars>>

\* A stream that has failed takes nothing more.
WriteLine ==
    /\ pc = "line"
    /\ \/ streamOk /\ times' = Append(times, entry) /\ pc' = "written"
          /\ UNCHANGED <<streamOk, failures>>
       \/ streamOk /\ failures < MaxFailures /\ failures' = failures + 1
          /\ streamOk' = FALSE /\ pc' = "failed" /\ UNCHANGED times
       \/ ~streamOk /\ pc' = "failed" /\ UNCHANGED <<times, streamOk, failures>>
    /\ UNCHANGED <<queue, done, entry, records, deviceVars, passVars, closeVars>>

PushDone ==
    /\ pc \in {"written", "failed"}
    /\ done' = done \cup {entry}
    /\ entry' = 0
    /\ pc' = IF pc = "written" THEN "flush" ELSE "error"
    /\ UNCHANGED <<queue, deviceVars, fileVars, passVars, closeVars>>

\* A slip: nothing clears busy.
BusyForGood == busy

\* busy is cleared by a flush that succeeds, and by nothing else.
BusyAfterFlush == busy /\ ~flushDue

\* What fails is the data base, or the stream, which then takes nothing more.
Flush ==
    /\ pc = "flush"
    /\ \/ /\ ~flushDue \/ streamOk
          /\ busy' = BusyAfterFlush
          /\ flushDue' = FALSE /\ consecutive' = 0 /\ pc' = "top"
          /\ UNCHANGED <<streamOk, failures>>
       \/ /\ flushDue /\ pc' = "error" /\ UNCHANGED passVars
          /\ \/ /\ streamOk /\ failures < MaxFailures /\ failures' = failures + 1
                /\ streamOk' \in BOOLEAN
             \/ ~streamOk /\ UNCHANGED <<streamOk, failures>>
    /\ UNCHANGED <<queue, done, entry, records, times, deviceVars, closeVars>>

UpdateFailed ==
    /\ pc = "error"
    /\ consecutive' = consecutive + 1
    /\ pc' = IF consecutive' >= MaxConsecutive THEN "exited" ELSE "top"
    /\ UNCHANGED <<queue, done, entry, busy, flushDue, deviceVars, fileVars, closeVars>>

\* The calls of the system; an error is printed before the entry is given back.
CancellationPoints ==
    {"top", "waiting", "signalled", "put", "line", "failed", "flush", "error"}

Cancelled ==
    /\ cancelled /\ pc \in CancellationPoints
    /\ pc' = "exited"
    /\ UNCHANGED <<queue, done, entry, deviceVars, fileVars, passVars, closeVars>>

FlushPeriodEnds ==
    /\ ~flushDue
    /\ flushDue' = TRUE
    /\ UNCHANGED <<queue, done, pc, entry, busy, consecutive,
                   deviceVars, fileVars, closeVars>>

Logger ==
    TestCancel \/ Pop \/ WaitEnds \/ SetBusy \/ Put \/ WriteLine \/ PushDone
    \/ Flush \/ UpdateFailed \/ Cancelled

-----------------------------------------------------------------------------
\* The destructor: it stops the device thread, and closes the log.

StopDevice ==
    /\ closer = "none"
    /\ closer' = "empty"
    /\ UNCHANGED <<queue, done, pc, entry, cancelled, deviceVars, fileVars, passVars>>

\* A slip: it waits for the thread, not for the queue.
QueueIgnored == closer = "empty"

WaitEmpty == closer = "empty" /\ queue = <<>>
WaitIdle  == closer = "idle" /\ ~busy

Close ==
    /\ \/ WaitEmpty /\ closer' = "idle" /\ UNCHANGED cancelled
       \/ WaitIdle /\ closer' = "join" /\ cancelled' = TRUE
       \/ closer = "join" /\ pc = "exited" /\ closer' = "closed" /\ UNCHANGED cancelled
    /\ UNCHANGED <<queue, done, pc, entry, deviceVars, fileVars, passVars>>

Next == Push \/ FreeLogMem \/ Logger \/ FlushPeriodEnds \/ StopDevice \/ Close

Spec == Init /\ [][Next]_vars

\* Both threads are scheduled, and time goes on.
FairSpec ==
    Spec /\ WF_vars(Logger) /\ WF_vars(FlushPeriodEnds) /\ WF_vars(Close)

-----------------------------------------------------------------------------
\* The files hold the entries in the order they were pushed, none twice, and
\* line i of the times is the time of record i, which is how DataPlaybackDB
\* reads them, whatever failed and wherever the thread was cancelled.
LogAligned ==
    /\ \A i, j \in 1 .. Len(records) : i < j => records[i] < records[j]
    /\ IsPrefix(times, records)

\* The data of an entry is freed by the device thread only when the logger is
\* through with it: no entry that is queued or being written is done or freed.
FreedAfterUse ==
    (ToSet(queue) \cup {entry}) \cap (done \cup freed) = {}

\* A log that is closed holds all that was pushed, but what a full queue has
\* dropped, what the files have refused (it is done all the same) and one
\* entry: the one that the logger had popped, and not yet marked by busy, as the
\* destructor looked.
AtMostOneLost ==
    closer = "closed" =>
        Cardinality((1 .. pushed) \ (overflowed \cup done \cup freed \cup ToSet(times))) <= 1

\* The entry that was pushed does not stay in the queue, unless the logger has
\* given up: no signal is missed.
EveryEntryPopped ==
    \A e \in Entries :
        e \in ToSet(queue) ~> (e \notin ToSet(queue) \/ pc = "exited")

\* The destructor returns, unless the logger has given up after a series of
\* errors: then nobody empties the queue, or clears busy.
CloseReturns == closer = "empty" ~> (closer = "closed" \/ (pc = "exited" /\ ~cancelled))

=============================================================================
