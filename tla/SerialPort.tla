----------------------------- MODULE SerialPort -----------------------------
(***************************************************************************)
(* The interrupt-driven serial ports of the microcontrollers:              *)
(* drivers/Atmel/Common/rs485.c with the circular buffers of CBUF.h, and   *)
(* uart0.c, which is the same code without the bus driver (HasDriver).     *)
(*                                                                         *)
(* The main loop calls putchar and getchar; interrupts run between any two *)
(* of their memory accesses, which are the steps of the main loop here.    *)
(* "In such a way that mutual exclusion is not required" (CBUF.h:16): the  *)
(* compiled CBUF_Push stores the entry before the index, and CBUF_Pop      *)
(* reads the entry before it stores the index.                             *)
(*                                                                         *)
(* Below the interrupts is the UART: a byte written to UDR moves to the    *)
(* shift register when that is free, the flag UDRE says that UDR is free,  *)
(* and the flag TXC that the last bit is out and no byte waits.  A byte is *)
(* its number in the order of sending or of arrival; 0 is no byte.         *)
(***************************************************************************)
EXTENDS Naturals, Sequences

CONSTANTS
    Size,       \* entries of a buffer, a power of two          (128 in rs485.c)
    IndexMod,   \* number of values of an index                 (256)
    HasDriver,  \* whether the port drives the half-duplex RS-485 bus
    Paced,      \* whether the callers, and the main loop, let no buffer overrun
    MaxBytes    \* bound: bytes sent, and bytes received, in a behaviour

ASSUME PortAssumption ==
    /\ Size \in Nat \ {0} /\ IndexMod \in Nat \ {0}
    /\ IndexMod % Size = 0
    /\ {HasDriver, Paced} \subseteq BOOLEAN
    /\ MaxBytes \in Nat

VARIABLES
    main,              \* what the main loop is in the middle of
    putbuf, getbuf,    \* uart1_putbuf, uart1_getbuf
    udrie,             \* UCSR1B.UDRIE1: interrupt when UDR is free
    driver,            \* RS485_TX_ENABLE_PIN
    udr, shift, txc,   \* UDR1, the shift register, UCSR1A.TXC1
    ret,               \* the byte CBUF_Pop has read in rs485_getchar
    pushed, popped,    \* history: bytes put into putbuf, and taken out of it
    lastSent,          \* history: the last byte written to UDR
    arrived, lastGot   \* history: bytes received, the last one getchar returned

uart    == <<udr, shift, txc>>
txVars  == <<putbuf, udrie, driver, uart, pushed, popped, lastSent>>
rxVars  == <<getbuf, ret, arrived, lastGot>>
vars    == <<main, txVars, rxVars>>

-----------------------------------------------------------------------------
(* CBUF.h.                                                                 *)

Bytes   == 0 .. MaxBytes
Entries == 0 .. Size - 1
Buffers == [m_getIdx : 0 .. IndexMod - 1, m_putIdx : 0 .. IndexMod - 1,
            m_entry : [Entries -> Bytes]]

CBUF_Init == [m_getIdx |-> 0, m_putIdx |-> 0, m_entry |-> [e \in Entries |-> 0]]

\* A slip: the buffer is one too short.
MaskedShort(i)  == IF Size = 1 THEN 0 ELSE i % (Size - 1)

CBUF_Len(b)     == (b.m_putIdx + IndexMod - b.m_getIdx) % IndexMod
CBUF_IsEmpty(b) == CBUF_Len(b) = 0
Masked(i)       == i % Size
Bump(i)         == (i + 1) % IndexMod

\* The two stores of CBUF_Push, the read and the store of CBUF_Pop.
StoreEntry(b, x) == [b EXCEPT !.m_entry[Masked(b.m_putIdx)] = x]
StorePutIdx(b)   == [b EXCEPT !.m_putIdx = Bump(@)]
ReadEntry(b)     == b.m_entry[Masked(b.m_getIdx)]
StoreGetIdx(b)   == [b EXCEPT !.m_getIdx = Bump(@)]

\* A slip: the index is stored first.
PushIndexFirst(b, x) == StoreEntry(StorePutIdx(b), x)

CBUF_Push(b, x) == StorePutIdx(StoreEntry(b, x))

Init ==
    /\ main = "idle"
    /\ putbuf = CBUF_Init /\ getbuf = CBUF_Init
    /\ udrie = FALSE /\ driver = FALSE
    /\ udr = 0 /\ shift = 0 /\ txc = FALSE
    /\ ret = 0
    /\ pushed = 0 /\ popped = 0 /\ lastSent = 0
    /\ arrived = 0 /\ lastGot = 0

-----------------------------------------------------------------------------
(* The main loop.                                                          *)

\* No code checks that there is room in a buffer.
Room(waiting) == Paced => waiting < Size

PutEntry ==
    /\ main = "idle"
    /\ pushed < MaxBytes /\ Room(pushed - popped)
    /\ putbuf' = StoreEntry(putbuf, pushed + 1)
    /\ main' = "putIndex"
    /\ UNCHANGED <<udrie, driver, uart, pushed, popped, lastSent, rxVars>>

PutIndex ==
    /\ main = "putIndex"
    /\ putbuf' = StorePutIdx(putbuf)
    /\ pushed' = pushed + 1
    /\ main' = "putEnable"
    /\ UNCHANGED <<udrie, driver, uart, popped, lastSent, rxVars>>

\* A slip: the interrupt is enabled only if the UART is not busy.
EnableIfIdle == udrie' = (udrie \/ shift = 0)

EnableUdre == udrie' = TRUE

PutEnable ==
    /\ main = "putEnable"
    /\ EnableUdre
    /\ main' = "idle"
    /\ UNCHANGED <<putbuf, driver, uart, pushed, popped, lastSent, rxVars>>

\* An empty buffer gives EOF and changes nothing.
GetEntry ==
    /\ main = "idle"
    /\ ~CBUF_IsEmpty(getbuf)
    /\ ret' = ReadEntry(getbuf)
    /\ main' = "getIndex"
    /\ UNCHANGED <<getbuf, arrived, lastGot, txVars>>

GetIndex ==
    /\ main = "getIndex"
    /\ getbuf' = StoreGetIdx(getbuf)
    /\ lastGot' = ret
    /\ main' = "idle"
    /\ UNCHANGED <<ret, arrived, txVars>>

-----------------------------------------------------------------------------
(* The interrupts.                                                         *)

USART_RX ==
    /\ arrived < MaxBytes /\ Room(CBUF_Len(getbuf))
    /\ getbuf' = CBUF_Push(getbuf, arrived + 1)
    /\ arrived' = arrived + 1
    /\ UNCHANGED <<main, ret, lastGot, txVars>>

DriverOn == driver' = HasDriver

UdrePending == udrie /\ udr = 0

USART_UDRE ==
    /\ UdrePending
    /\ IF ~CBUF_IsEmpty(putbuf)
       THEN /\ DriverOn
            /\ udr' = ReadEntry(putbuf)
            /\ putbuf' = StoreGetIdx(putbuf)
            /\ lastSent' = udr' /\ popped' = popped + 1
            /\ UNCHANGED udrie
       ELSE /\ udrie' = FALSE
            /\ UNCHANGED <<driver, udr, putbuf, lastSent, popped>>
    /\ UNCHANGED <<main, shift, txc, pushed, rxVars>>

\* A slip: the driver stays on while the main loop is in rs485_putchar.
DriverNeededByCaller == main # "idle"

DriverNeeded == ~CBUF_IsEmpty(putbuf)

\* Of two pending interrupts UDRE goes first.
USART_TX ==
    /\ txc
    /\ ~UdrePending
    /\ txc' = FALSE
    /\ driver' = (driver /\ DriverNeeded)
    /\ UNCHANGED <<main, putbuf, udrie, udr, shift, pushed, popped, lastSent,
                   rxVars>>

-----------------------------------------------------------------------------
(* The UART.                                                               *)

StartByte ==
    /\ shift = 0 /\ udr # 0
    /\ shift' = udr /\ udr' = 0
    /\ UNCHANGED <<main, putbuf, udrie, driver, txc, pushed, popped, lastSent,
                   rxVars>>

EndByte ==
    /\ shift # 0
    /\ shift' = udr /\ udr' = 0
    /\ txc' = (txc \/ udr = 0)
    /\ UNCHANGED <<main, putbuf, udrie, driver, pushed, popped, lastSent, rxVars>>

MainLoop == PutEntry \/ PutIndex \/ PutEnable \/ GetEntry \/ GetIndex
Next == MainLoop \/ USART_RX \/ USART_UDRE \/ USART_TX \/ StartByte \/ EndByte
Spec == Init /\ [][Next]_vars

-----------------------------------------------------------------------------
(* Properties.                                                             *)

\* Every variable has its type.
TypeOK ==
    /\ main \in {"idle", "putIndex", "putEnable", "getIndex"}
    /\ {putbuf, getbuf} \subseteq Buffers
    /\ {udrie, driver, txc} \subseteq BOOLEAN
    /\ {udr, shift, ret, lastSent, lastGot} \subseteq Bytes
    /\ arrived \in Bytes /\ {pushed, popped} \subseteq Nat

\* A buffer that holds bytes has its interrupt enabled, but for the moment
\* between the store of the index and "UCSR1B |= UDRIE1" in rs485_putchar: the
\* interrupt that finds the buffer empty and disables itself never disables
\* itself after the last byte was announced (rs485.c:37-49, 104-115).
NoStall ==
    ~CBUF_IsEmpty(putbuf) => udrie \/ main = "putEnable"

\* Once all is sent the bus is free for the answer: the driver is not left on
\* by any order of putchar, UDRE and TX interrupts (rs485.c:51-59).
LineReleased ==
    (/\ main = "idle" /\ CBUF_IsEmpty(putbuf)
     /\ udr = 0 /\ shift = 0 /\ ~txc)
    => ~driver

Contents(b) ==
    [i \in 1 .. CBUF_Len(b) |-> b.m_entry[Masked(b.m_getIdx + i - 1)]]

TxQueue == INSTANCE ByteQueue WITH
               queue <- Contents(putbuf), put <- pushed, last <- lastSent
RxQueue == INSTANCE ByteQueue WITH
               queue <- Contents(getbuf), put <- arrived, last <- lastGot

\* Without mutual exclusion the bytes put by the main loop reach the UART, and
\* the bytes the interrupt receives reach the main loop, complete and in order
\* (CBUF.h:15-17): each buffer is a queue, its index wrapping at IndexMod.
SendsInOrder    == TxQueue!Spec
ReceivesInOrder == RxQueue!Spec

=============================================================================
