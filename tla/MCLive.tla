------------------------------- MODULE MCLive --------------------------------
(* What must happen in the end, one component in each behaviour: operations   *)
(* waiting for the log, requests at the disk, sleep(), output, kill(), a      *)
(* command line and malloc().                                                 *)
EXTENDS Integers

CONSTANTS
    Component   \* the components to check

VARIABLES
    component,
    home, logblk, head, cache, pins, lh, outstanding, committing, pc, tail, written, sys,
    free, next, more, info, availRing, availIdx, usedRing, usedIdx, seenIdx, devIdx, working,
    irq, intr, diskPc, busy, diskHead, served,
    ticks, clock, run, state, killed, times, call, user,
    tx, thr, uartIrq, rx, lock, uartPc, out, uartNext, last, echoes,
    h, p, trapKilled, asleep,
    pr, init, fails, broken,
    hdr, freep, brk, mallocPc, mallocP, prevp, nunits, bp, live, own

Prog(n) == [type |-> "EXEC", name |-> n]

\* (a & ; b) | c
Lines == <<[type |-> "PIPE", id |-> 1, right |-> Prog("c"),
            left |-> [type |-> "LIST", left |-> [type |-> "BACK", cmd |-> Prog("a")], right |-> Prog("b")]]>>

Log == INSTANCE Log WITH
    Block <- {"b1", "b2"}, Value <- {0}, Thread <- 1..3, MAXOPBLOCKS <- 2, OpBlocks <- 1,
    LOGSIZE <- 4, LogBlocks <- 4
Disk == INSTANCE VirtioDisk WITH
    Thread <- 1..2, NoThread <- 0, NUM <- 6, UINT16 <- 12, pc <- diskPc, head <- diskHead
Clock == INSTANCE Clock WITH
    Hart <- {"h0", "h1"}, Hart0 <- "h0", Proc <- 1..2, NoProc <- 0, UINT <- 16, MaxTicks <- 1,
    SleepArg <- {1}
Uart == INSTANCE Uart WITH
    Writer <- {"w1", "w2"}, Handler <- "handler", Nobody <- "nobody", UART_TX_BUF_SIZE <- 2,
    DEPTH <- 2, Modulus <- 6, MaxEcho <- 1, irq <- uartIrq, pc <- uartPc, next <- uartNext
Trap == INSTANCE Trap WITH
    Hart <- {"h"}, Proc <- 1..2, Nobody <- 0, killed <- trapKilled
Shell == INSTANCE ShRun WITH
    Slot <- 1..4, Line <- Lines, MaxFd <- 5, MaxFail <- 1
Malloc == INSTANCE Malloc WITH
    MaxHeap <- 7, MinCore <- 3, Units <- {2, 3}, pc <- mallocPc, p <- mallocP

logVars ==
    <<home, logblk, head, cache, pins, lh, outstanding, committing, pc, tail, written, sys>>
diskVars ==
    <<free, next, more, info, availRing, availIdx, usedRing, usedIdx, seenIdx, devIdx, working,
      irq, intr, diskPc, busy, diskHead, served>>
clockVars ==
    <<ticks, clock, run, state, killed, times, call, user>>
uartVars ==
    <<tx, thr, uartIrq, rx, lock, uartPc, out, uartNext, last, echoes>>
trapVars ==
    <<h, p, trapKilled, asleep>>
shellVars ==
    <<pr, init, fails, broken>>
mallocVars ==
    <<hdr, freep, brk, mallocPc, mallocP, prevp, nunits, bp, live, own>>
vars == <<component, logVars, diskVars, clockVars, uartVars, trapVars, shellVars, mallocVars>>

\* The variables of the components that a behaviour is not about.
NoLog ==
    /\ home = 0 /\ logblk = 0 /\ head = 0 /\ cache = 0 /\ pins = 0 /\ lh = 0 /\ outstanding = 0
    /\ committing = 0 /\ pc = 0 /\ tail = 0 /\ written = 0 /\ sys = 0
NoDisk ==
    /\ free = 0 /\ next = 0 /\ more = 0 /\ info = 0 /\ availRing = 0 /\ availIdx = 0
    /\ usedRing = 0 /\ usedIdx = 0 /\ seenIdx = 0 /\ devIdx = 0 /\ working = 0 /\ irq = 0
    /\ intr = 0 /\ diskPc = 0 /\ busy = 0 /\ diskHead = 0 /\ served = 0
NoClock ==
    /\ ticks = 0 /\ clock = 0 /\ run = 0 /\ state = 0 /\ killed = 0 /\ times = 0 /\ call = 0
    /\ user = 0
NoUart ==
    /\ tx = 0 /\ thr = 0 /\ uartIrq = 0 /\ rx = 0 /\ lock = 0 /\ uartPc = 0 /\ out = 0
    /\ uartNext = 0 /\ last = 0 /\ echoes = 0
NoTrap ==
    /\ h = 0 /\ p = 0 /\ trapKilled = 0 /\ asleep = 0
NoShell ==
    /\ pr = 0 /\ init = 0 /\ fails = 0 /\ broken = 0
NoMalloc ==
    /\ hdr = 0 /\ freep = 0 /\ brk = 0 /\ mallocPc = 0 /\ mallocP = 0 /\ prevp = 0
    /\ nunits = 0 /\ bp = 0 /\ live = 0 /\ own = 0

Init ==
    /\ component \in Component
    /\ \/ component = "log" /\ Log!Init /\ NoDisk /\ NoClock /\ NoUart /\ NoTrap /\ NoShell /\ NoMalloc
       \/ component = "disk" /\ Disk!Init /\ NoLog /\ NoClock /\ NoUart /\ NoTrap /\ NoShell /\ NoMalloc
       \/ component = "clock" /\ Clock!Init /\ NoLog /\ NoDisk /\ NoUart /\ NoTrap /\ NoShell /\ NoMalloc
       \/ component = "uart" /\ Uart!Init /\ NoLog /\ NoDisk /\ NoClock /\ NoTrap /\ NoShell /\ NoMalloc
       \/ component = "trap" /\ Trap!Init /\ NoLog /\ NoDisk /\ NoClock /\ NoUart /\ NoShell /\ NoMalloc
       \/ component = "shell" /\ Shell!Init /\ NoLog /\ NoDisk /\ NoClock /\ NoUart /\ NoTrap /\ NoMalloc
       \/ component = "malloc" /\ Malloc!Init /\ NoLog /\ NoDisk /\ NoClock /\ NoUart /\ NoTrap /\ NoShell

Next ==
    \/ component = "log" /\ Log!Next /\ UNCHANGED <<component, diskVars, clockVars, uartVars, trapVars, shellVars, mallocVars>>
    \/ component = "disk" /\ Disk!Next /\ UNCHANGED <<component, logVars, clockVars, uartVars, trapVars, shellVars, mallocVars>>
    \/ component = "clock" /\ Clock!Next /\ UNCHANGED <<component, logVars, diskVars, uartVars, trapVars, shellVars, mallocVars>>
    \/ component = "uart" /\ Uart!Next /\ UNCHANGED <<component, logVars, diskVars, clockVars, trapVars, shellVars, mallocVars>>
    \/ component = "trap" /\ Trap!Next /\ UNCHANGED <<component, logVars, diskVars, clockVars, uartVars, shellVars, mallocVars>>
    \/ component = "shell" /\ Shell!Next /\ UNCHANGED <<component, logVars, diskVars, clockVars, uartVars, trapVars, mallocVars>>
    \/ component = "malloc" /\ Malloc!Next /\ UNCHANGED <<component, logVars, diskVars, clockVars, uartVars, trapVars, shellVars>>
    \/ component \in {"clock", "trap", "shell"} /\ UNCHANGED vars   \* may stop

Spec == Init /\ [][Next]_vars

(* What is scheduled.  Each component's fairness is the one its module justifies; the  *)
(* strong ones stand in Strong(k), one of each component in a slot, which is the same  *)
(* since a behaviour is about one component only.                                      *)
LogOnly == UNCHANGED <<component, diskVars, clockVars, uartVars, trapVars, shellVars, mallocVars>>
DiskOnly == UNCHANGED <<component, logVars, clockVars, uartVars, trapVars, shellVars, mallocVars>>
ClockOnly == UNCHANGED <<component, logVars, diskVars, uartVars, trapVars, shellVars, mallocVars>>
UartOnly == UNCHANGED <<component, logVars, diskVars, clockVars, trapVars, shellVars, mallocVars>>
TrapOnly == UNCHANGED <<component, logVars, diskVars, clockVars, uartVars, shellVars, mallocVars>>
ShellOnly == UNCHANGED <<component, logVars, diskVars, clockVars, uartVars, trapVars, mallocVars>>
MallocOnly == UNCHANGED <<component, logVars, diskVars, clockVars, uartVars, trapVars, shellVars>>

Strong(k) ==
    \/ component = "disk" /\ k \in 1..2 /\ Disk!Finish(k) /\ DiskOnly
    \/ component = "clock" /\ k \in 1..2 /\ (\E x \in {"h0", "h1"} : Clock!Schedule(x, k)) /\ ClockOnly
    \/ component = "clock" /\ k \in 3..4 /\ (\E x \in {"h0", "h1"} : Clock!SleepAgain(x, k - 2) \/ Clock!Sleep(x, k - 2)) /\ ClockOnly
    \/ component = "uart" /\ k = 1 /\ Uart!EchoReady /\ UartOnly
    \/ component = "uart" /\ k = 2 /\ Uart!HandlerLock /\ UartOnly
    \/ component = "uart" /\ k = 3 /\ Uart!uartputc("w1") /\ UartOnly
    \/ component = "uart" /\ k = 4 /\ Uart!uartputc("w2") /\ UartOnly
    \/ component = "trap" /\ k \in 1..2 /\ Trap!KernelStep("h", k) /\ TrapOnly
    \/ component = "trap" /\ k \in 3..4 /\ Trap!UserTrap("h", k - 2, "timer") /\ TrapOnly
    \/ component = "trap" /\ k \in 5..6 /\ Trap!Dispatch("h", k - 4) /\ TrapOnly

Weak(k) ==
    \/ /\ component = "log" /\ sys = "up" /\ k \in 1..3
       /\ \/ Log!EndOp(k) \/ Log!WriteLog(k) \/ Log!WriteHead(k) \/ Log!Install(k)
          \/ Log!ClearHead(k) \/ Log!CommitDone(k)
       /\ LogOnly
    \/ component = "log" /\ k = 4 /\ Log!Recover /\ LogOnly
    \/ component = "disk" /\ k \in 1..6 /\ Disk!DevComplete(k - 1) /\ DiskOnly
    \/ component = "disk" /\ k = 7 /\ Disk!DevTake /\ DiskOnly
    \/ component = "disk" /\ k = 8 /\ Disk!Intr /\ DiskOnly
    \/ component = "clock" /\ k = 1 /\ (Clock!ClockVisit \/ Clock!ClockWake) /\ ClockOnly
    \/ component = "uart" /\ k = 1 /\ Uart!Drain /\ UartOnly
    \/ component = "uart" /\ k = 2 /\ (Uart!Claim \/ Uart!uartgetc) /\ UartOnly
    \/ component = "uart" /\ k = 3 /\ (Uart!EchoReady \/ Uart!uartputc_sync) /\ UartOnly
    \/ component = "uart" /\ k = 4 /\ (Uart!uartstart("w1") \/ Uart!Send("w1")) /\ UartOnly
    \/ component = "uart" /\ k = 5 /\ (Uart!uartstart("w2") \/ Uart!Send("w2")) /\ UartOnly
    \/ component = "uart" /\ k = 6 /\ (Uart!uartstart("handler") \/ Uart!Send("handler")) /\ UartOnly
    \/ /\ component = "trap" /\ k \in 1..2
       /\ Trap!KernelReturn("h", k) \/ \E timer \in BOOLEAN : Trap!kerneltrap("h", k, timer)
       /\ TrapOnly
    \/ component = "shell" /\ k \in 1..4 /\ (Shell!runcmd(k) \/ Shell!Program(k) \/ Shell!Wait(k)) /\ ShellOnly
    \/ component = "shell" /\ k = 5 /\ (Shell!InitStart \/ Shell!InitWait) /\ ShellOnly
    \/ component = "malloc" /\ k = 1 /\ Malloc!Loop /\ MallocOnly

FairSpec ==
    /\ Spec
    /\ \A k \in 1..8 : WF_vars(Weak(k))
    /\ \A k \in 1..6 : SF_vars(Strong(k))

-----------------------------------------------------------------------------
(* Who waits, and what for.                                                    *)
Waits(k) ==
    \/ component = "log" /\ pc[k] = "begin_sleep"
    \/ component = "disk" /\ diskPc[k] = "wait"
    \/ /\ component = "clock" /\ call[k] # Clock!NoCall
       /\ call[k].n >= 0 /\ ticks - call[k].ticks0 >= call[k].n
Served(k) ==
    \/ component = "log" /\ pc[k] # "begin_sleep"
    \/ component = "disk" /\ diskPc[k] = "idle"
    \/ component = "clock" /\ call[k] = Clock!NoCall

\* Whoever waits in the kernel is served: begin_op() returns, woken by an end_op(), also
\* across a crash; virtio_disk_rw() returns, although one interrupt can stand for several
\* completions; sys_sleep() returns once its ticks have passed, for the wakeup of
\* clockintr() never falls between its test and its sleep().
WaitersServed == \A k \in 1..2 : Waits(k) ~> Served(k)

\* A killed process that is outside the system calls exits, although its program need not
\* call the kernel; one inside exits, or its call goes to sleep after the kill().  That a
\* sleep ends is not assumed.  The two processes are alike: process 1 stands for both.
KilledExits ==
    /\ (component = "trap" /\ trapKilled[1] /\ p[1].at # "syscall")
          ~> (component = "trap" /\ p[1].at = "exited")
    /\ (component = "trap" /\ trapKilled[1] /\ 1 \notin asleep)
          ~> (component = "trap" /\ (p[1].at = "exited" \/ 1 \in asleep))

\* A byte in the uart's buffer is sent, whoever's turn it is to start the transmitter.
\* Bytes are numbered in a circle, so byte 1 stands for all.
ByteSent ==
    (component = "uart" /\ \E j \in DOMAIN tx : tx[j] = 1) ~> (component = "uart" /\ last = 1)

\* A command line comes to its end, for every reader of a pipe sees the end of its input
\* also when forks fail half way; and malloc() and free() leave their loops.
CallsEnd ==
    (\/ component = "shell" /\ \E s \in 1..4 : pr[s].pc = "shwait"
     \/ component = "malloc" /\ mallocPc # "user")
        ~> (\/ component = "shell" /\ (init.pc = "exited" \/ \E s \in 1..4 : pr[s].pc = "prompt")
            \/ component = "malloc" /\ mallocPc = "user")
=============================================================================
