------------------------------- MODULE Serial -------------------------------
(***************************************************************************)
(* A serial port in interrupt mode: the framework of serial.c, the driver  *)
(* of lpc1788_usart0.c (usart1 differs in its registers only), the UART it *)
(* drives and the threads that write to it and read from it.  The port is  *)
(* the console: rt_kprintf writes to it, and the init thread closes and    *)
(* opens it again.                                                         *)
(*                                                                         *)
(* A handler runs to its end before any thread goes on, so it is one step. *)
(* A thread that starts a transmission runs serial_put with the interrupts *)
(* on, one step for every access to something the handler also changes.    *)
(* Characters are numbered in the order in which the ring accepts them     *)
(* (sending) and in which they arrive (receiving).                         *)
(***************************************************************************)
EXTENDS SerialRing, FiniteSets

CONSTANTS Writers,      \* the threads that write
          WriterPrio,   \* their priorities, 0 the most urgent
          Lengths,      \* the lengths of what they write
          FifoLimit,    \* what put_char lets into the FIFO: 15
          Threshold,    \* FIFO_THRESHOLD: 14
          NulChars,     \* the numbers of the characters that are '\0'
          Prompt,       \* TRUE: no writer is held up inside serial_put for as
                        \* long as the UART takes to empty its FIFO
          MaxSent,      \* bound on the characters accepted
          MaxArrived    \* bound on the characters that arrive

ASSUME SerialAssumption ==
    /\ Lengths \subseteq Nat /\ WriterPrio \in [Writers -> Nat]
    /\ FifoLimit \in Nat \ {0} /\ Threshold \in Nat \ {0, 1}
    /\ NulChars \subseteq Nat /\ Prompt \in BOOLEAN
    /\ MaxSent \in Nat /\ MaxArrived \in Nat

VARIABLES int_tx, int_rx,   \* the rings of the device
          tx_busy,
          SendFifoLength,   \* the driver's count of the transmit FIFO
          open_flag,        \* the device is open, its interrupt enabled
          place,            \* where a writer stands
          left,             \* the characters it has still to store
          ch,               \* the character it took from the ring
          count,            \* 1 once its serial_put has passed a character on
          reading,          \* the reader is inside rt_serial_read
          indicated         \* rx_indicate has been called for it

VARIABLES tx_fifo, rx_fifo, \* the FIFOs of the UART
          thre,             \* its transmitter-empty interrupt is pending
          accepted,         \* the characters the ring took
          line,             \* the characters sent, in order
          arrived,          \* the characters received from the line
          read              \* the last character the reader got

writerVars == <<place, left, ch, count>>
txVars == <<int_tx, tx_busy, SendFifoLength, tx_fifo, thre, line>>
rxVars == <<int_rx, reading, indicated, rx_fifo, arrived, read>>
portVars == <<writerVars, txVars, rxVars, open_flag, accepted>>

\* The port after rt_serial_init and rt_device_open; the interrupt that the
\* empty transmitter raises when it is enabled has been served.
SerialInit ==
    /\ int_tx = serial_ringbuffer_init /\ int_rx = serial_ringbuffer_init
    /\ tx_busy = FALSE /\ SendFifoLength = 0 /\ open_flag = TRUE
    /\ place = [w \in Writers |-> "idle"]
    /\ left = [w \in Writers |-> 0]
    /\ ch = [w \in Writers |-> NoChar]
    /\ count = [w \in Writers |-> 0]
    /\ reading = FALSE /\ indicated = FALSE
    /\ tx_fifo = <<>> /\ rx_fifo = <<>> /\ thre = FALSE
    /\ accepted = 0 /\ line = <<>> /\ arrived = 0 /\ read = 0

MoveTo(w, label) == place' = [place EXCEPT ![w] = label]

\* A writer runs unless a more urgent one has preempted it.
MayRun(w) == \A v \in Writers : place[v] # "idle" => WriterPrio[w] <= WriterPrio[v]

InSerialPut(w) == place[w] \in {"getc", "putc", "inc", "mark"}

-----------------------------------------------------------------------------
(* The UART *)

FifoDepth == FifoLimit + 1

\* A write to THR: a character that finds the FIFO full is lost.
ToThr(c) ==
    /\ tx_fifo' = IF Len(tx_fifo) < FifoDepth THEN Append(tx_fifo, c) ELSE tx_fifo
    /\ thre' = FALSE

\* A character leaves on the line; the last one raises the interrupt.
Transmit ==
    /\ tx_fifo # <<>>
    /\ (Prompt /\ Len(tx_fifo) = 1) => \A w \in Writers : ~InSerialPut(w)
    /\ line' = Append(line, Head(tx_fifo))
    /\ tx_fifo' = Tail(tx_fifo)
    /\ thre' = (Len(tx_fifo) = 1)
    /\ UNCHANGED <<writerVars, rxVars, open_flag, accepted, int_tx, tx_busy, SendFifoLength>>

\* The FIFO takes a character from the line; what arrives while it is full is
\* lost before the driver can see it.
Arrive ==
    /\ arrived < MaxArrived /\ Len(rx_fifo) < Threshold + 2
    /\ arrived' = arrived + 1
    /\ rx_fifo' = Append(rx_fifo, arrived + 1)
    /\ UNCHANGED <<writerVars, txVars, open_flag, accepted, int_rx, reading, indicated, read>>

-----------------------------------------------------------------------------
(* Sending *)

\* rt_kprintf, rt_device_write, rt_serial_write: n characters to store.
Write(w, n) ==
    /\ place[w] = "idle" /\ MayRun(w) /\ accepted + n <= MaxSent
    /\ left' = [left EXCEPT ![w] = n]
    /\ MoveTo(w, "fill")
    /\ UNCHANGED <<ch, count, txVars, rxVars, open_flag, accepted>>

\* The loop of rt_serial_write: a character is stored, or the ring is full and
\* the rest is discarded.
Fill(w) ==
    /\ place[w] = "fill" /\ left[w] # 0
    /\ IF IsFull(int_tx)
       THEN MoveTo(w, "test") /\ UNCHANGED <<left, int_tx, accepted>>
       ELSE /\ int_tx' = serial_ringbuffer_putchar(int_tx, accepted + 1)
            /\ accepted' = accepted + 1
            /\ left' = [left EXCEPT ![w] = @ - 1]
            /\ UNCHANGED place
    /\ UNCHANGED <<ch, count, rxVars, open_flag, tx_busy, SendFifoLength, tx_fifo, thre, line>>

\* The section that looks at tx_busy.
TestBusy(w) ==
    /\ place[w] = "test" \/ (place[w] = "fill" /\ left[w] = 0)
    /\ MoveTo(w, IF tx_busy THEN "idle" ELSE "start")
    /\ left' = [left EXCEPT ![w] = 0]
    /\ UNCHANGED <<ch, count, txVars, rxVars, open_flag, accepted>>

\* tx_busy is set after the section, then serial_put begins.
StartSending(w) ==
    /\ place[w] = "start"
    /\ tx_busy' = TRUE
    /\ count' = [count EXCEPT ![w] = 0]
    /\ MoveTo(w, "getc")
    /\ UNCHANGED <<left, ch, rxVars, open_flag, accepted, int_tx, SendFifoLength, tx_fifo, thre, line>>

\* serial_put: a '\0' is taken from the ring and taken for its end.
GetForSending(w) ==
    /\ place[w] = "getc"
    /\ IF IsEmpty(int_tx) \/ First(int_tx) \in NulChars
       THEN MoveTo(w, IF count[w] = 0 THEN "mark" ELSE "idle") /\ UNCHANGED ch
       ELSE MoveTo(w, "putc") /\ ch' = [ch EXCEPT ![w] = First(int_tx)]
    /\ int_tx' = IF IsEmpty(int_tx) THEN int_tx ELSE Rest(int_tx)
    /\ UNCHANGED <<left, count, rxVars, open_flag, accepted, tx_busy, SendFifoLength, tx_fifo, thre, line>>

\* Mutant of AfterPut: the FIFO is taken for one larger than it is.
AfterPut_OffByOne(n) == IF FifoLimit + 1 - n = 0 THEN "idle" ELSE "getc"

\* Where serial_put goes on when put_char returns with n characters counted.
AfterPut(n) == IF FifoLimit - n = 0 THEN "idle" ELSE "getc"

\* put_char: a character goes to THR, or is dropped when the count is reached.
PutChar(w) ==
    /\ place[w] = "putc"
    /\ IF SendFifoLength < FifoLimit
       THEN ToThr(ch[w]) /\ MoveTo(w, "inc")
       ELSE MoveTo(w, AfterPut(SendFifoLength)) /\ UNCHANGED <<tx_fifo, thre>>
    /\ count' = [count EXCEPT ![w] = 1]
    /\ ch' = [ch EXCEPT ![w] = NoChar]
    /\ UNCHANGED <<left, rxVars, open_flag, accepted, int_tx, tx_busy, SendFifoLength, line>>

\* put_char: SendFifoLength ++
CountSent(w) ==
    /\ place[w] = "inc"
    /\ SendFifoLength' = SendFifoLength + 1
    /\ MoveTo(w, AfterPut(SendFifoLength + 1))
    /\ UNCHANGED <<left, ch, count, rxVars, open_flag, accepted, int_tx, tx_busy, tx_fifo, thre, line>>

\* serial_put found nothing to send.
MarkIdle(w) ==
    /\ place[w] = "mark"
    /\ tx_busy' = FALSE
    /\ MoveTo(w, "idle")
    /\ UNCHANGED <<left, ch, count, rxVars, open_flag, accepted, int_tx, SendFifoLength, tx_fifo, thre, line>>

WriterStep(w) ==
    /\ MayRun(w)
    /\ \/ Fill(w) \/ TestBusy(w) \/ StartSending(w)
       \/ GetForSending(w) \/ PutChar(w) \/ CountSent(w) \/ MarkIdle(w)

\* What serial_put takes from the ring in one go: up to the limit of the FIFO,
\* or up to a '\0'.
Batch ==
    LET queue == Contents(int_tx)
    IN {n \in 0..FifoLimit :
           /\ n <= Len(queue) /\ \A k \in 1..n : queue[k] \notin NulChars
           /\ n = FifoLimit \/ n = Len(queue) \/ queue[n + 1] \in NulChars}

\* serial_put takes the '\0' as well.
Swallowed(n) ==
    IF n < FifoLimit /\ n < serial_ringbuffer_size(int_tx) THEN 1 ELSE 0

\* Mutant of BusyAfter: the last characters end the transmission.
BusyAfter_Early(n) == n = FifoLimit

\* serial_put that passed n characters on in the handler.
BusyAfter(n) == n # 0 /\ tx_busy

\* UART0_IRQHandler, transmitter empty: rt_hw_serial_int_tx_isr.  The receiver
\* comes first when both have something.
TransmitIsr ==
    /\ open_flag /\ thre /\ Len(rx_fifo) < Threshold
    /\ \E n \in Batch :
          /\ SendFifoLength' = n
          /\ tx_fifo' = SubSeq(Contents(int_tx), 1, n)
          /\ int_tx' = [int_tx EXCEPT !.get_index = (@ + n + Swallowed(n)) % RingSize]
          /\ tx_busy' = BusyAfter(n)
    /\ thre' = FALSE
    /\ UNCHANGED <<writerVars, rxVars, open_flag, accepted, line>>

-----------------------------------------------------------------------------
(* Receiving *)

\* getchar with RecvFifoLength = len: it reads on while there is something and
\* keeps the last character, and gives up when one is left of len.
getchar(fifo, len) ==
    IF Len(fifo) < len
    THEN [result |-> IF fifo = <<>> THEN NoChar ELSE fifo[Len(fifo)], fifo |-> <<>>]
    ELSE [result |-> NoChar, fifo |-> SubSeq(fifo, len, Len(fifo))]

\* rt_hw_serial_char_isr, and the loop of rt_hw_serial_timeout_isr: characters
\* go into the ring until getchar has none.
CharsToRing ==
    LET got == getchar(rx_fifo, Threshold)
    IN /\ rx_fifo' = got.fifo
       /\ int_rx' = IF got.result = NoChar THEN int_rx ELSE serial_ringbuffer_putc(int_rx, got.result)

\* UART0_IRQHandler, receive data available.
ReceiveIsr ==
    /\ open_flag /\ Len(rx_fifo) >= Threshold
    /\ CharsToRing
    /\ UNCHANGED <<writerVars, txVars, open_flag, accepted, reading, indicated, arrived, read>>

\* UART0_IRQHandler, character time-out: rt_hw_serial_timeout_isr,
\* which calls rx_indicate.
TimeoutIsr ==
    /\ open_flag /\ rx_fifo # <<>> /\ Len(rx_fifo) < Threshold
    /\ CharsToRing
    /\ indicated' = TRUE
    /\ UNCHANGED <<writerVars, txVars, open_flag, accepted, reading, arrived, read>>

\* The reader, released by rx_indicate, calls rt_serial_read ...
Read ==
    /\ ~reading /\ indicated
    /\ reading' = TRUE /\ indicated' = FALSE
    /\ UNCHANGED <<writerVars, txVars, open_flag, accepted, int_rx, rx_fifo, arrived, read>>

\* ... which takes characters until there is none.
ReadChar ==
    /\ reading
    /\ reading' = ~IsEmpty(int_rx)
    /\ int_rx' = IF IsEmpty(int_rx) THEN int_rx ELSE Rest(int_rx)
    /\ read' = IF IsEmpty(int_rx) THEN read ELSE First(int_rx)
    /\ UNCHANGED <<writerVars, txVars, open_flag, accepted, indicated, rx_fifo, arrived>>

-----------------------------------------------------------------------------
(* The device *)

\* rt_device_close, rt_serial_close: the interrupt of the port is disabled.
Close ==
    /\ open_flag
    /\ open_flag' = FALSE
    /\ UNCHANGED <<writerVars, txVars, rxVars, accepted>>

\* rt_device_open, rt_serial_open
Open ==
    /\ ~open_flag
    /\ open_flag' = TRUE
    /\ UNCHANGED <<writerVars, txVars, rxVars, accepted>>

SerialNext ==
    \/ \E w \in Writers : WriterStep(w) \/ \E n \in Lengths : Write(w, n)
    \/ TransmitIsr \/ ReceiveIsr \/ TimeoutIsr
    \/ Transmit \/ Arrive
    \/ Read \/ ReadChar
    \/ Close \/ Open

SerialSpec == SerialInit /\ [][SerialNext]_portVars

\* The UART sends what it has, its interrupts are served while the port is
\* open, rt_console_set_device opens what it closed, and a ready thread runs.
SerialFairSpec ==
    /\ SerialSpec
    /\ WF_portVars(Transmit) /\ SF_portVars(TransmitIsr)
    /\ SF_portVars(ReceiveIsr) /\ SF_portVars(TimeoutIsr)
    /\ WF_portVars(Open) /\ WF_portVars(Read) /\ WF_portVars(ReadChar)
    /\ \A w \in Writers : WF_portVars(WriterStep(w))

-----------------------------------------------------------------------------
(* Properties *)

\* What is on the line is what the ring accepted, character by character: none
\* is lost between the ring and the line, doubled or overtaken, although the
\* writer and the handler both empty the ring.
LineInOrder == line = [k \in 1..Len(line) |-> k]

\* Everything the ring accepted is sent once the writers pause, the port closed
\* and opened meanwhile or not.
AllIsSent == (Len(line) < accepted) ~> (Len(line) = accepted)

\* When the line falls silent the reader has got, or gets, the last character
\* that arrived: getchar leaves one in the FIFO for the time-out, and a full
\* ring discards its oldest character, never the newest.
LastCharIsRead == (read < arrived) ~> (read = arrived)

\* A character the ring has accepted is in the ring, in a writer's hand, in the
\* FIFO or on the line.
NoneDropped ==
    \A c \in 1..accepted :
        \/ \E k \in 1..Len(line) : line[k] = c
        \/ \E k \in 1..Len(tx_fifo) : tx_fifo[k] = c
        \/ \E k \in 1..serial_ringbuffer_size(int_tx) : Contents(int_tx)[k] = c
        \/ \E w \in Writers : ch[w] = c
=============================================================================
