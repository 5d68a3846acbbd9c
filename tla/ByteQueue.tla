------------------------------ MODULE ByteQueue ------------------------------
(***************************************************************************)
(* What a circular buffer of drivers/Atmel/Common/CBUF.h promises to its   *)
(* one writer and its one reader: bytes, numbered in the order they were   *)
(* put, are taken in that order and none is lost.                          *)
(***************************************************************************)
EXTENDS Naturals, Sequences

VARIABLES queue,   \* the bytes put and not yet taken, oldest first
          put,     \* number of bytes put
          last     \* the last byte taken

vars == <<queue, put, last>>

Init == queue = <<>> /\ put = 0 /\ last = 0

Put ==
    /\ put' = put + 1
    /\ queue' = Append(queue, put + 1)
    /\ UNCHANGED last

Take ==
    /\ queue # <<>>
    /\ last' = Head(queue)
    /\ queue' = Tail(queue)
    /\ UNCHANGED put

Next == Put \/ Take
Spec == Init /\ [][Next]_vars

=============================================================================
