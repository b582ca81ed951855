--------------------------------- MODULE Uart ---------------------------------
(* Console output (uart.c, consolewrite): writers that fill the transmit        *)
(* buffer under uart_tx_lock, the interrupt handler that empties it, and the    *)
(* echo of input, which writes to the device without a lock.  Reading LSR and   *)
(* writing THR are separate steps.  The device is external: a FIFO of DEPTH     *)
(* bytes, idle when it is empty, which interrupts when it has become empty.     *)
EXTENDS Integers, Sequences, FiniteSets

CONSTANTS
    Writer,             \* processes in write()
    Handler, Nobody,    \* the hart with the uart's interrupt; holder of a free lock
    UART_TX_BUF_SIZE, DEPTH,
    Modulus,            \* bound: bytes are numbered modulo this, more than can be under way
    MaxEcho             \* bound: characters that are typed

VARIABLES
    tx,       \* the bytes from uart_tx_r to uart_tx_w
    thr,      \* bytes in the device; 0 is an echoed character
    irq, rx,  \* an interrupt is pending; characters typed and not yet read
    lock,     \* uart_tx_lock
    pc,       \* pc[t]: place of a writer or of the handler
    out,      \* the byte that uartstart() has taken out and not yet written
    next,     \* number of the next byte written
    last,     \* number of the last byte the device has sent
    echoes

vars == <<tx, thr, irq, rx, lock, pc, out, next, last, echoes>>

Thread == Writer \cup {Handler}
Number == 1..Modulus
Succ(b) == (b % Modulus) + 1
Depth == DEPTH

TypeOK ==
    /\ tx \in Seq(Number) /\ Len(tx) <= UART_TX_BUF_SIZE
    /\ thr \in Seq(Number \cup {0}) /\ Len(thr) <= DEPTH
    /\ irq \in BOOLEAN /\ rx \in 0..MaxEcho /\ echoes \in 0..MaxEcho
    /\ lock \in Thread \cup {Nobody}
    /\ pc \in [Thread -> {"user", "put", "asleep", "idle", "intr", "echo", "acquire", "start", "send"}]
    /\ out \in Number \cup {0} /\ next \in Number /\ last \in Number

Init ==
    /\ tx = <<>> /\ thr = <<>>
    /\ irq = FALSE /\ rx = 0 /\ echoes = 0
    /\ lock = Nobody
    /\ pc = [t \in Thread |-> IF t = Handler THEN "idle" ELSE "user"]
    /\ out = 0 /\ next = 1 /\ last = Modulus

Goto(t, l) == pc' = [pc EXCEPT ![t] = l]

(***************************************************************************)
(* The device                                                              *)
(***************************************************************************)
LSR_TX_IDLE == thr = <<>>
Full == Len(tx) = UART_TX_BUF_SIZE

\* Without its FIFO the device has one place (mutant of THR).
THROne(c) == thr' = <<c>>

\* A byte is written; in a full FIFO it is lost.
THR(c) == thr' = IF Len(thr) < Depth THEN Append(thr, c) ELSE thr

Drain ==
    /\ thr # <<>>
    /\ thr' = Tail(thr)
    /\ last' = IF Head(thr) = 0 THEN last ELSE Head(thr)
    /\ irq' = (irq \/ Len(thr) = 1)
    /\ UNCHANGED <<tx, rx, lock, pc, out, next, echoes>>

Type ==
    /\ echoes < MaxEcho
    /\ echoes' = echoes + 1 /\ rx' = rx + 1 /\ irq' = TRUE
    /\ UNCHANGED <<tx, thr, lock, pc, out, next, last>>

(***************************************************************************)
(* uartputc(), and uartstart() with the lock held                          *)
(***************************************************************************)
\* consolewrite() has a byte, or the call begins again after sleep().
Write(t) ==
    /\ pc[t] = "user"
    /\ Goto(t, "put")
    /\ UNCHANGED <<tx, thr, irq, rx, lock, out, next, last, echoes>>

uartputc(t) ==
    /\ pc[t] = "put" /\ lock = Nobody
    /\ IF Full
       THEN Goto(t, "asleep") /\ UNCHANGED <<tx, next, lock>>
       ELSE tx' = Append(tx, next) /\ next' = Succ(next) /\ lock' = t /\ Goto(t, "start")
    /\ UNCHANGED <<thr, irq, rx, out, last, echoes>>

\* wakeup(&uart_tx_r), while t goes on to the device.
Woken(t) == pc' = [u \in Thread |-> IF u = t THEN "send" ELSE IF pc[u] = "asleep" THEN "put" ELSE pc[u]]

Done(t) == IF t = Handler THEN "idle" ELSE "user"

\* A turn of uartstart(): nothing to send, or the device is busy, or a byte is taken.
uartstart(t) ==
    /\ pc[t] = "start"
    /\ IF tx = <<>> \/ ~LSR_TX_IDLE
       THEN lock' = Nobody /\ Goto(t, Done(t)) /\ UNCHANGED <<tx, out>>
       ELSE out' = Head(tx) /\ tx' = Tail(tx) /\ Woken(t) /\ UNCHANGED lock
    /\ UNCHANGED <<thr, irq, rx, next, last, echoes>>

Send(t) ==
    /\ pc[t] = "send"
    /\ THR(out) /\ out' = 0
    /\ Goto(t, "start")
    /\ UNCHANGED <<tx, irq, rx, lock, next, last, echoes>>

(***************************************************************************)
(* uartintr(): input with its echo, then output                            *)
(***************************************************************************)
Claim ==
    /\ irq /\ pc[Handler] = "idle"
    /\ irq' = FALSE
    /\ Goto(Handler, "intr")
    /\ UNCHANGED <<tx, thr, rx, lock, out, next, last, echoes>>

\* uartgetc() and consoleintr(); then uartputc_sync() waits for the device.
uartgetc ==
    /\ pc[Handler] = "intr"
    /\ IF rx > 0 THEN rx' = rx - 1 /\ Goto(Handler, "echo")
       ELSE Goto(Handler, "acquire") /\ UNCHANGED rx
    /\ UNCHANGED <<tx, thr, irq, lock, out, next, last, echoes>>

\* LSR says idle, and the byte is written some time later.
EchoReady ==
    /\ pc[Handler] = "echo" /\ LSR_TX_IDLE
    /\ Goto(Handler, "put")
    /\ UNCHANGED <<tx, thr, irq, rx, lock, out, next, last, echoes>>

uartputc_sync ==
    /\ pc[Handler] = "put"
    /\ THR(0)
    /\ Goto(Handler, "intr")
    /\ UNCHANGED <<tx, irq, rx, lock, out, next, last, echoes>>

\* Output goes on only for writers that wait for room (mutant of HandlerLock).
HandlerLockFull ==
    /\ pc[Handler] = "acquire" /\ lock = Nobody
    /\ IF Full THEN lock' = Handler /\ Goto(Handler, "start")
       ELSE Goto(Handler, "idle") /\ UNCHANGED lock
    /\ UNCHANGED <<tx, thr, irq, rx, out, next, last, echoes>>

HandlerLock ==
    /\ pc[Handler] = "acquire" /\ lock = Nobody
    /\ lock' = Handler
    /\ Goto(Handler, "start")
    /\ UNCHANGED <<tx, thr, irq, rx, out, next, last, echoes>>

uartintr == Claim \/ uartgetc \/ EchoReady \/ uartputc_sync \/ HandlerLock

Next ==
    \/ Drain \/ Type \/ uartintr
    \/ \E t \in Thread : uartstart(t) \/ Send(t)
    \/ \E t \in Writer : Write(t) \/ uartputc(t)

Spec == Init /\ [][Next]_vars

\* Harts run, the device sends, and a lock that is free again and again is got.
FairSpec ==
    /\ Spec
    /\ WF_vars(Drain) /\ WF_vars(Claim \/ uartgetc) /\ WF_vars(EchoReady \/ uartputc_sync)
    /\ SF_vars(EchoReady) /\ SF_vars(HandlerLock)
    /\ \A t \in Thread : WF_vars(uartstart(t) \/ Send(t))
    /\ \A t \in Writer : SF_vars(uartputc(t))

-----------------------------------------------------------------------------
\* The bytes of write() on their way, oldest first.
UnderWay == SelectSeq(thr, LAMBDA c : c # 0) \o (IF out = 0 THEN <<>> ELSE <<out>>) \o tx

\* No byte of write() is lost, doubled or overtaken between uartputc() and the
\* line, although an echo can write to the device between uartstart()'s reading
\* of LSR and its write.
OutputInOrder ==
    LET all == <<last>> \o UnderWay \o <<next>> IN
    \A j \in 1..Len(all) - 1 : all[j + 1] = Succ(all[j])

\* A writer sleeps only while the buffer is full and something will wake it: the
\* device is busy, or an interrupt is pending, or somebody is in uartstart().
WriterNotStranded ==
    (\E t \in Writer : pc[t] = "asleep") =>
        /\ Full
        /\ thr # <<>> \/ irq \/ lock # Nobody \/ pc[Handler] # "idle"

\* Every byte that uartputc() has put into the buffer is sent, so a writer that
\* sleeps for room is woken.
EveryByteSent == \A b \in Number : (\E j \in DOMAIN tx : tx[j] = b) ~> (last = b)
=============================================================================
