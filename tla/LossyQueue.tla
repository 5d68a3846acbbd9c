----------------------------- MODULE LossyQueue -----------------------------
(***************************************************************************)
(* What drivers/SerialDevice/CircularBuffer.cc promises its users: a queue *)
(* of packets numbered in the order they were written, one of which a      *)
(* reader may hold.  "The pointers will be returned in order of filling    *)
(* unless you read too slow, then some data will be lost": the packet that *)
(* finds the queue full empties it, itself included.                       *)
(***************************************************************************)
EXTENDS Naturals, Sequences

CONSTANTS Capacity,    \* packets unread or held, at most
          MaxPackets   \* bound: packets written in a behaviour

VARIABLES queue,       \* the packets not yet read, oldest first
          held,        \* whether the reader holds a packet
          produced,    \* number of packets written so far
          lastRead     \* the last packet the reader took

vars == <<queue, held, produced, lastRead>>

Occupied == Len(queue) + (IF held THEN 1 ELSE 0)

Init == queue = <<>> /\ held = FALSE /\ produced = 0 /\ lastRead = 0

Put ==
    /\ produced < MaxPackets
    /\ produced' = produced + 1
    /\ queue' = IF Occupied < Capacity THEN Append(queue, produced + 1) ELSE <<>>
    /\ UNCHANGED <<held, lastRead>>

Take ==
    /\ ~held /\ queue # <<>>
    /\ held' = TRUE
    /\ lastRead' = Head(queue)
    /\ queue' = Tail(queue)
    /\ UNCHANGED produced

Release == held /\ held' = FALSE /\ UNCHANGED <<queue, produced, lastRead>>

Clear == queue' = <<>> /\ UNCHANGED <<held, produced, lastRead>>

Next == Put \/ Take \/ Release \/ Clear
Spec == Init /\ [][Next]_vars

-----------------------------------------------------------------------------
\* Packets are taken in the order they were written, none twice.
TakenInOrder == [][~held /\ held' => lastRead' > lastRead]_vars

\* What is in the queue was written after the last packet taken, and in the
\* order of the queue.
Ordered ==
    /\ queue \in Seq(Nat) /\ held \in BOOLEAN
    /\ produced \in Nat /\ lastRead \in 0 .. produced
    /\ \A i \in 1 .. Len(queue) : queue[i] \in lastRead + 1 .. produced
    /\ \A i, j \in 1 .. Len(queue) : i < j => queue[i] < queue[j]

=============================================================================
