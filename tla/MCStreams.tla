------------------------------ MODULE MCStreams ------------------------------
(* The streams of bytes, one component in each behaviour: a pipe with two     *)
(* processes at each end and counters that wrap, the console input with two   *)
(* readers, and the output of the UART with two writers and echoes.           *)
EXTENDS Pipe, TLC

CONSTANTS
    Component,   \* the components to check
    w1, w2, r1, r2, h1, Nil

VARIABLES
    component,
    buf, consR, consW, e, consLock, th, consKilled,
    tx, thr, irq, rx, uartLock, uartPc, out, next, last, echoes

Console == INSTANCE Console WITH
    Reader <- {r1, r2}, NoReader <- Nil, Char <- {"a", "b"}, INPUT_BUF <- 3, UINT <- 6,
    MaxN <- 3, r <- consR, w <- consW, lock <- consLock, killed <- consKilled
Uart == INSTANCE Uart WITH
    Writer <- {w1, w2}, Handler <- h1, Nobody <- Nil, UART_TX_BUF_SIZE <- 2, DEPTH <- 2,
    Modulus <- 6, MaxEcho <- 2, lock <- uartLock, pc <- uartPc

consVars ==
    <<buf, consR, consW, e, consLock, th, consKilled>>
uartVars ==
    <<tx, thr, irq, rx, uartLock, uartPc, out, next, last, echoes>>
streamsVars == <<component, vars, consVars, uartVars>>
Symmetry == Permutations({w1, w2}) \cup Permutations({r1, r2})

\* The variables of the components that a behaviour is not about.
Resting == Init /\ data = [k \in 0 .. PIPESIZE - 1 |-> 0]
NoCons ==
    /\ buf = 0 /\ consR = 0 /\ consW = 0 /\ e = 0 /\ consLock = 0 /\ th = 0 /\ consKilled = 0
NoUart ==
    /\ tx = 0 /\ thr = 0 /\ irq = 0 /\ rx = 0 /\ uartLock = 0 /\ uartPc = 0 /\ out = 0
    /\ next = 0 /\ last = 0 /\ echoes = 0

StreamsInit ==
    /\ component \in Component
    /\ \/ component = "pipe" /\ Init /\ NoCons /\ NoUart
       \/ component = "console" /\ Console!Init /\ Resting /\ NoUart
       \/ component = "uart" /\ Uart!Init /\ Resting /\ NoCons

StreamsNext ==
    \/ component = "pipe" /\ Next /\ UNCHANGED <<component, consVars, uartVars>>
    \/ component = "console" /\ Console!Next /\ UNCHANGED <<component, vars, uartVars>>
    \/ component = "uart" /\ Uart!Next /\ UNCHANGED <<component, vars, consVars>>
    \/ component \in {"pipe"} /\ UNCHANGED streamsVars   \* may stop

StreamsSpec == StreamsInit /\ [][StreamsNext]_streamsVars

-----------------------------------------------------------------------------
\* consoleintr() and consoleread() behave as a line editor: no key is lost or seen
\* twice, a line that was handed over is not edited, a full ring is handed over; and ^D
\* leaves the ring only with a call that returns 0.  r, w and e stay in order within the
\* ring, and no reader sleeps while a complete line is there (one that was killed just
\* before sleep() may sleep on while there is none).
ConsoleIsEditor ==
    /\ [](component = "console" => Console!TypeOK /\ Console!InOrder /\ Console!NotStranded)
    /\ component = "console" => Console!EditorInit
    /\ [][component = "console" => Console!EditorStep /\ Console!EofStep]_streamsVars

\* No byte of write() is lost, doubled or overtaken on its way to the line, and a
\* writer sleeps only while something is under way that will wake it.
OutputInOrder == component = "uart" => Uart!TypeOK /\ Uart!OutputInOrder /\ Uart!WriterNotStranded
=============================================================================
