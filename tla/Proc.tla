-------------------------------- MODULE Proc --------------------------------
(***************************************************************************)
(* The process table of kernel/proc.c in its default (RR) build: fork,     *)
(* exit, reparent, wait/waitx, kill, yield, sleep, wakeup, sched and the   *)
(* round-robin scheduler, run by the processes themselves on several CPUs. *)
(*                                                                         *)
(* A step is one critical section: the code from one acquire() to the      *)
(* release() that follows, or one iteration of a loop over the table.      *)
(* Every loop over proc[] keeps its cursor, so a loop interleaves with the *)
(* other CPUs exactly where it drops p->lock.  The kernel thread of slot p *)
(* is at pc[p]; it runs only while some CPU has c->proc = p.               *)
(***************************************************************************)
EXTENDS Integers, FiniteSets

CONSTANTS
    NPROC,    \* number of slots of proc[]
    CPU,      \* the harts
    NoCpu,    \* lk->cpu of a free spinlock
    MaxPid,   \* bound: no fork is started once nextpid exceeds it
    KillArgs  \* the pids given to kill()

ASSUME NPROCAssumption == NPROC \in Nat \ {0}
ASSUME CPUAssumption == NoCpu \notin CPU
ASSUME BoundAssumption == MaxPid \in Nat /\ KillArgs \subseteq Nat

Slot == 0 .. NPROC - 1
Cursor == 0 .. NPROC    \* a loop variable over proc[], NPROC when it is done
NoProc == -1            \* a null struct proc *, and p->chan = 0
initproc == 0           \* userinit() runs first, so it gets proc[0]

VARIABLES
    state, pid, parent, killed, chan,  \* fields of struct proc
    plock,      \* p->lock: the CPU that holds it, or NoCpu
    wait_lock,  \* the CPU that holds it, or NoCpu
    cpuproc,    \* c->proc
    nextpid,
    pc,         \* where the kernel thread of a slot is
    ret,        \* where the thread continues when yield() returns
    i, j,       \* its loop cursors over proc[]: the outer and wakeup()'s
    havekids,   \* wait()'s local
    arg         \* fork()'s np, kill()'s pid

tableVars == <<state, pid, parent, killed, chan>>
lockVars == <<plock, wait_lock>>
localVars == <<ret, i, j, havekids, arg>>
vars == <<tableVars, lockVars, cpuproc, nextpid, pc, localVars>>

States == {"UNUSED", "USED", "SLEEPING", "RUNNABLE", "RUNNING", "ZOMBIE"}

\* Kernel positions with no spinlock held and interrupts on: kerneltrap() may
\* preempt the thread there.
Preemptible == {"sysret", "fork_alloc", "fork_publish", "fork_runnable",
                "exit", "wait_enter", "kill"}
Labels == Preemptible \cup
          {"none", "forkret", "user", "reparent", "reparent_wake", "exit_wake",
           "exit_zombie", "zombie", "wait_scan", "sleep", "sleep_ret", "yield_ret", "panic"}

-----------------------------------------------------------------------------

\* userinit(): one RUNNABLE process, whose thread starts in forkret().
Init ==
    /\ state = [p \in Slot |-> IF p = initproc THEN "RUNNABLE" ELSE "UNUSED"]
    /\ pid = [p \in Slot |-> IF p = initproc THEN 1 ELSE 0]
    /\ parent = [p \in Slot |-> NoProc]
    /\ killed = [p \in Slot |-> FALSE]
    /\ chan = [p \in Slot |-> NoProc]
    /\ plock = [p \in Slot |-> NoCpu]
    /\ wait_lock = NoCpu
    /\ cpuproc = [c \in CPU |-> NoProc]
    /\ nextpid = 2
    /\ pc = [p \in Slot |-> IF p = initproc THEN "forkret" ELSE "none"]
    /\ ret = [p \in Slot |-> "user"]
    /\ i = [p \in Slot |-> 0]
    /\ j = [p \in Slot |-> 0]
    /\ havekids = [p \in Slot |-> FALSE]
    /\ arg = [p \in Slot |-> 0]

\* CPU c executes the thread of p, which is at l (and not inside sched()).
At(c, p, l) == cpuproc[c] = p /\ state[p] = "RUNNING" /\ pc[p] = l

Goto(p, l) == pc' = [pc EXCEPT ![p] = l]

Free(q) == plock[q] = NoCpu

-----------------------------------------------------------------------------
(* The scheduler and the switch to and from it. *)

\* Mutant of SchedPick: scheduler() looks at the slot without acquire(&p->lock).
SchedPickUnlocked(c, p) ==
    /\ cpuproc[c] = NoProc
    /\ state[p] = "RUNNABLE"
    /\ plock' = [plock EXCEPT ![p] = c]
    /\ state' = [state EXCEPT ![p] = "RUNNING"]
    /\ cpuproc' = [cpuproc EXCEPT ![c] = p]
    /\ UNCHANGED <<pid, parent, killed, chan, wait_lock, nextpid, pc, localVars>>

\* scheduler(), RR: an idle CPU finds a RUNNABLE slot and swtch()es to it with
\* its lock held.
SchedPick(c, p) ==
    /\ cpuproc[c] = NoProc
    /\ Free(p)
    /\ state[p] = "RUNNABLE"
    /\ plock' = [plock EXCEPT ![p] = c]
    /\ state' = [state EXCEPT ![p] = "RUNNING"]
    /\ cpuproc' = [cpuproc EXCEPT ![c] = p]
    /\ UNCHANGED <<pid, parent, killed, chan, wait_lock, nextpid, pc, localVars>>

\* sched() back into scheduler(): the thread has changed its state under its own
\* lock; the scheduler clears c->proc and releases the lock.
SwtchBack(c, p) ==
    /\ cpuproc[c] = p
    /\ state[p] # "RUNNING"
    /\ plock[p] = c
    /\ cpuproc' = [cpuproc EXCEPT ![c] = NoProc]
    /\ plock' = [plock EXCEPT ![p] = NoCpu]
    /\ UNCHANGED <<tableVars, wait_lock, nextpid, pc, localVars>>

\* The first run of a process: forkret() releases the lock taken by scheduler().
Forkret(c, p) ==
    /\ At(c, p, "forkret")
    /\ plock' = [plock EXCEPT ![p] = NoCpu]
    /\ Goto(p, "user")
    /\ UNCHANGED <<tableVars, wait_lock, cpuproc, nextpid, localVars>>

\* A timer interrupt, from user space (usertrap checks p->killed first) or in the
\* kernel: yield() takes p->lock, and enters sched().
Yield(c, p) ==
    /\ \/ At(c, p, "user") /\ ~killed[p]
       \/ pc[p] \in Preemptible /\ At(c, p, pc[p])
    /\ Free(p)
    /\ plock' = [plock EXCEPT ![p] = c]
    /\ state' = [state EXCEPT ![p] = "RUNNABLE"]
    /\ ret' = [ret EXCEPT ![p] = pc[p]]
    /\ Goto(p, "yield_ret")
    /\ UNCHANGED <<pid, parent, killed, chan, wait_lock, cpuproc, nextpid,
                   i, j, havekids, arg>>

\* yield() after sched() has returned.
YieldRet(c, p) ==
    /\ At(c, p, "yield_ret")
    /\ plock' = [plock EXCEPT ![p] = NoCpu]
    /\ Goto(p, ret[p])
    /\ ret' = [ret EXCEPT ![p] = "user"]
    /\ UNCHANGED <<tableVars, wait_lock, cpuproc, nextpid, i, j, havekids, arg>>

-----------------------------------------------------------------------------
(* usertrap(): system calls, faults and the two checks of p->killed. *)

\* A trap of a killed process: exit(-1) before anything else is done for it.
UsertrapKilled(c, p) ==
    /\ At(c, p, "user")
    /\ killed[p]
    /\ Goto(p, "exit")
    /\ UNCHANGED <<tableVars, lockVars, cpuproc, nextpid, localVars>>

\* An unexpected scause: p->killed = 1 (without p->lock), then exit(-1).
UsertrapFault(c, p) ==
    /\ At(c, p, "user")
    /\ killed' = [killed EXCEPT ![p] = TRUE]
    /\ Goto(p, "exit")
    /\ UNCHANGED <<state, pid, parent, chan, lockVars, cpuproc, nextpid, localVars>>

\* A system call of a process that is not killed; user programs are arbitrary.
Syscall(c, p) ==
    /\ At(c, p, "user")
    /\ ~killed[p]
    /\ \/ nextpid <= MaxPid /\ Goto(p, "fork_alloc") /\ UNCHANGED arg
       \/ Goto(p, "exit") /\ UNCHANGED arg
       \/ Goto(p, "wait_enter") /\ UNCHANGED arg
       \/ \E k \in KillArgs : Goto(p, "kill") /\ arg' = [arg EXCEPT ![p] = k]
    /\ UNCHANGED <<tableVars, lockVars, cpuproc, nextpid, ret, i, j, havekids>>

\* The end of a system call in usertrap(): exit(-1) if killed meanwhile.
Sysret(c, p) ==
    /\ At(c, p, "sysret")
    /\ Goto(p, IF killed[p] THEN "exit" ELSE "user")
    /\ UNCHANGED <<tableVars, lockVars, cpuproc, nextpid, localVars>>

-----------------------------------------------------------------------------
(* fork(). *)

\* allocproc() meets a slot in use: acquire, look, release, go on.
ForkScan(c, p) ==
    /\ At(c, p, "fork_alloc")
    /\ i[p] < NPROC
    /\ Free(i[p])
    /\ state[i[p]] # "UNUSED"
    /\ i' = [i EXCEPT ![p] = @ + 1]
    /\ UNCHANGED <<tableVars, lockVars, cpuproc, nextpid, pc, ret, j, havekids, arg>>

\* allocproc() found no UNUSED slot: fork() returns -1.
ForkNoSlot(c, p) ==
    /\ At(c, p, "fork_alloc")
    /\ i[p] = NPROC
    /\ Goto(p, "sysret")
    /\ i' = [i EXCEPT ![p] = 0]
    /\ UNCHANGED <<tableVars, lockVars, cpuproc, nextpid, ret, j, havekids, arg>>

\* Mutant of ForkAlloc: allocpid() does not advance nextpid.
ForkAllocSamePid(c, p) ==
    LET np == i[p] IN
    /\ At(c, p, "fork_alloc")
    /\ np < NPROC
    /\ Free(np)
    /\ state[np] = "UNUSED"
    /\ state' = [state EXCEPT ![np] = "USED"]
    /\ pid' = [pid EXCEPT ![np] = nextpid]
    /\ nextpid' = nextpid
    /\ pc' = [pc EXCEPT ![np] = "forkret", ![p] = "fork_publish"]
    /\ arg' = [arg EXCEPT ![p] = np]
    /\ i' = [i EXCEPT ![p] = 0]
    /\ UNCHANGED <<parent, killed, chan, lockVars, cpuproc, ret, j, havekids>>

\* allocproc() takes an UNUSED slot and fork() fills it, all under np->lock.  The
\* fields it leaves alone (parent, chan, killed) keep what the slot held.
ForkAlloc(c, p) ==
    LET np == i[p] IN
    /\ At(c, p, "fork_alloc")
    /\ np < NPROC
    /\ Free(np)
    /\ state[np] = "UNUSED"
    /\ state' = [state EXCEPT ![np] = "USED"]
    /\ pid' = [pid EXCEPT ![np] = nextpid]
    /\ nextpid' = nextpid + 1
    /\ pc' = [pc EXCEPT ![np] = "forkret", ![p] = "fork_publish"]
    /\ arg' = [arg EXCEPT ![p] = np]
    /\ i' = [i EXCEPT ![p] = 0]
    /\ UNCHANGED <<parent, killed, chan, lockVars, cpuproc, ret, j, havekids>>

\* The same, but a page allocation fails in allocproc() or uvmcopy(): the pid is
\* used up, freeproc() clears the slot, fork() returns -1.
ForkNoMemory(c, p) ==
    LET np == i[p] IN
    /\ At(c, p, "fork_alloc")
    /\ np < NPROC
    /\ Free(np)
    /\ state[np] = "UNUSED"
    /\ nextpid' = nextpid + 1
    /\ parent' = [parent EXCEPT ![np] = NoProc]
    /\ chan' = [chan EXCEPT ![np] = NoProc]
    /\ killed' = [killed EXCEPT ![np] = FALSE]
    /\ Goto(p, "sysret")
    /\ i' = [i EXCEPT ![p] = 0]
    /\ UNCHANGED <<state, pid, lockVars, cpuproc, ret, j, havekids, arg>>

\* np->parent = p under wait_lock; np->lock is not held.
ForkPublish(c, p) ==
    /\ At(c, p, "fork_publish")
    /\ wait_lock = NoCpu
    /\ parent' = [parent EXCEPT ![arg[p]] = p]
    /\ Goto(p, "fork_runnable")
    /\ UNCHANGED <<state, pid, killed, chan, lockVars, cpuproc, nextpid, localVars>>

\* np->state = RUNNABLE under np->lock; fork() returns the pid.
ForkRunnable(c, p) ==
    /\ At(c, p, "fork_runnable")
    /\ Free(arg[p])
    /\ state' = [state EXCEPT ![arg[p]] = "RUNNABLE"]
    /\ Goto(p, "sysret")
    /\ arg' = [arg EXCEPT ![p] = 0]
    /\ UNCHANGED <<pid, parent, killed, chan, lockVars, cpuproc, nextpid,
                   ret, i, j, havekids>>

-----------------------------------------------------------------------------
(* exit(), reparent() and the calls of wakeup() they make. *)

\* exit() by init panics: its CPU stops here.
ExitInit(c, p) ==
    /\ At(c, p, "exit")
    /\ p = initproc
    /\ Goto(p, "panic")
    /\ UNCHANGED <<tableVars, lockVars, cpuproc, nextpid, localVars>>

\* panic() loops for ever; the other CPUs go on.
PanicSpin(c, p) == At(c, p, "panic") /\ UNCHANGED vars

\* exit() takes wait_lock, after it has closed the files.
ExitEnter(c, p) ==
    /\ At(c, p, "exit")
    /\ p # initproc
    /\ wait_lock = NoCpu
    /\ wait_lock' = c
    /\ Goto(p, "reparent")
    /\ UNCHANGED <<tableVars, plock, cpuproc, nextpid, localVars>>

\* Mutant of Reparent: the cursor advances before wakeup() too.
ReparentTwice(c, p) ==
    /\ At(c, p, "reparent")
    /\ i[p] < NPROC
    /\ IF parent[i[p]] = p
       THEN /\ parent' = [parent EXCEPT ![i[p]] = initproc]
            /\ Goto(p, "reparent_wake")
            /\ i' = [i EXCEPT ![p] = @ + 1]
       ELSE /\ i' = [i EXCEPT ![p] = @ + 1]
            /\ UNCHANGED <<parent, pc>>
    /\ UNCHANGED <<state, pid, killed, chan, lockVars, cpuproc, nextpid,
                   ret, j, havekids, arg>>

\* One slot of reparent()'s loop; after a child comes wakeup(initproc).
Reparent(c, p) ==
    /\ At(c, p, "reparent")
    /\ i[p] < NPROC
    /\ IF parent[i[p]] = p
       THEN /\ parent' = [parent EXCEPT ![i[p]] = initproc]
            /\ Goto(p, "reparent_wake")
            /\ UNCHANGED i
       ELSE /\ i' = [i EXCEPT ![p] = @ + 1]
            /\ UNCHANGED <<parent, pc>>
    /\ UNCHANGED <<state, pid, killed, chan, lockVars, cpuproc, nextpid,
                   ret, j, havekids, arg>>

\* Mutant of ReparentDone: the loop stops one slot early.
ReparentDoneEarly(c, p) ==
    /\ At(c, p, "reparent")
    /\ i[p] >= NPROC - 1
    /\ Goto(p, "exit_wake")
    /\ i' = [i EXCEPT ![p] = 0]
    /\ UNCHANGED <<tableVars, lockVars, cpuproc, nextpid, ret, j, havekids, arg>>

\* The loop of reparent() is over: exit() goes on to wakeup(p->parent).
ReparentDone(c, p) ==
    /\ At(c, p, "reparent")
    /\ i[p] = NPROC
    /\ Goto(p, "exit_wake")
    /\ i' = [i EXCEPT ![p] = 0]
    /\ UNCHANGED <<tableVars, lockVars, cpuproc, nextpid, ret, j, havekids, arg>>

\* The state of the table after one iteration of wakeup(ch) by p at slot q.
WakeSlot(p, q, ch) ==
    IF q # p /\ state[q] = "SLEEPING" /\ chan[q] = ch
    THEN [state EXCEPT ![q] = "RUNNABLE"]
    ELSE state

\* One iteration of wakeup() in exit(): the channel is initproc in reparent(),
\* p->parent in exit() itself.
Wakeup(c, p) ==
    /\ j[p] < NPROC
    /\ \/ At(c, p, "reparent_wake") /\ state' = WakeSlot(p, j[p], initproc)
       \/ At(c, p, "exit_wake") /\ state' = WakeSlot(p, j[p], parent[p])
    /\ j[p] # p => Free(j[p])
    /\ j' = [j EXCEPT ![p] = @ + 1]
    /\ UNCHANGED <<pid, parent, killed, chan, lockVars, cpuproc, nextpid, pc,
                   ret, i, havekids, arg>>

\* wakeup() returns: to the next slot of reparent(), or to the end of exit().
WakeupDone(c, p) ==
    /\ j[p] = NPROC
    /\ j' = [j EXCEPT ![p] = 0]
    /\ \/ At(c, p, "reparent_wake") /\ Goto(p, "reparent") /\ i' = [i EXCEPT ![p] = @ + 1]
       \/ At(c, p, "exit_wake") /\ Goto(p, "exit_zombie") /\ UNCHANGED i
    /\ UNCHANGED <<tableVars, lockVars, cpuproc, nextpid, ret, havekids, arg>>

\* Mutant of ExitZombie: release(&wait_lock) is missing.
ExitZombieHoldsWaitLock(c, p) ==
    /\ At(c, p, "exit_zombie")
    /\ Free(p)
    /\ plock' = [plock EXCEPT ![p] = c]
    /\ state' = [state EXCEPT ![p] = "ZOMBIE"]
    /\ Goto(p, "zombie")
    /\ UNCHANGED <<wait_lock, pid, parent, killed, chan, cpuproc, nextpid, localVars>>

\* exit() takes p->lock, becomes a ZOMBIE, drops wait_lock and enters sched().
ExitZombie(c, p) ==
    /\ At(c, p, "exit_zombie")
    /\ Free(p)
    /\ plock' = [plock EXCEPT ![p] = c]
    /\ state' = [state EXCEPT ![p] = "ZOMBIE"]
    /\ wait_lock' = NoCpu
    /\ Goto(p, "zombie")
    /\ UNCHANGED <<pid, parent, killed, chan, cpuproc, nextpid, localVars>>

-----------------------------------------------------------------------------
(* wait() and waitx(), which share their control. *)

\* acquire(&wait_lock), at the start and again when sleep() returns: a new scan.
WaitEnter(c, p) ==
    /\ At(c, p, "wait_enter")
    /\ wait_lock = NoCpu
    /\ wait_lock' = c
    /\ Goto(p, "wait_scan")
    /\ UNCHANGED <<tableVars, plock, cpuproc, nextpid, localVars>>

\* Mutant of WaitScan: havekids = 1 is outside the test of np->parent.
WaitScanAnyKid(c, p) ==
    /\ At(c, p, "wait_scan")
    /\ i[p] < NPROC
    /\ parent[i[p]] = p => Free(i[p]) /\ state[i[p]] # "ZOMBIE"
    /\ havekids' = [havekids EXCEPT ![p] = TRUE]
    /\ i' = [i EXCEPT ![p] = @ + 1]
    /\ UNCHANGED <<tableVars, lockVars, cpuproc, nextpid, pc, ret, j, arg>>

\* One slot of the scan that holds no exited child.
WaitScan(c, p) ==
    /\ At(c, p, "wait_scan")
    /\ i[p] < NPROC
    /\ parent[i[p]] = p => Free(i[p]) /\ state[i[p]] # "ZOMBIE"
    /\ havekids' = [havekids EXCEPT ![p] = @ \/ parent[i[p]] = p]
    /\ i' = [i EXCEPT ![p] = @ + 1]
    /\ UNCHANGED <<tableVars, lockVars, cpuproc, nextpid, pc, ret, j, arg>>

\* An exited child: freeproc() it, drop both locks, return its pid.
WaitReap(c, p) ==
    LET np == i[p] IN
    /\ At(c, p, "wait_scan")
    /\ np < NPROC
    /\ parent[np] = p
    /\ Free(np)
    /\ state[np] = "ZOMBIE"
    /\ state' = [state EXCEPT ![np] = "UNUSED"]
    /\ pid' = [pid EXCEPT ![np] = 0]
    /\ parent' = [parent EXCEPT ![np] = NoProc]
    /\ chan' = [chan EXCEPT ![np] = NoProc]
    /\ killed' = [killed EXCEPT ![np] = FALSE]
    /\ pc' = [pc EXCEPT ![np] = "none", ![p] = "sysret"]
    /\ wait_lock' = NoCpu
    /\ i' = [i EXCEPT ![p] = 0]
    /\ havekids' = [havekids EXCEPT ![p] = FALSE]
    /\ UNCHANGED <<plock, cpuproc, nextpid, ret, j, arg>>

\* wait() returns -1 with nothing reaped: copyout() of the exit status failed, or
\* the scan is over and there is no child, or the caller has been killed.
WaitFail(c, p) ==
    /\ At(c, p, "wait_scan")
    /\ \/ /\ i[p] < NPROC
          /\ parent[i[p]] = p
          /\ Free(i[p])
          /\ state[i[p]] = "ZOMBIE"
       \/ i[p] = NPROC /\ (~havekids[p] \/ killed[p])
    /\ wait_lock' = NoCpu
    /\ Goto(p, "sysret")
    /\ i' = [i EXCEPT ![p] = 0]
    /\ havekids' = [havekids EXCEPT ![p] = FALSE]
    /\ UNCHANGED <<tableVars, plock, cpuproc, nextpid, ret, j, arg>>

\* Mutant of WaitSleepy: sleep() releases lk before it acquires p->lock.
WaitSleepyUnlocked(c, p) ==
    /\ At(c, p, "wait_scan")
    /\ i[p] = NPROC
    /\ havekids[p]
    /\ ~killed[p]
    /\ Goto(p, "sleep")
    /\ wait_lock' = NoCpu
    /\ i' = [i EXCEPT ![p] = 0]
    /\ havekids' = [havekids EXCEPT ![p] = FALSE]
    /\ UNCHANGED <<tableVars, plock, cpuproc, nextpid, ret, j, arg>>

\* The check of havekids and p->killed before sleep(); p->lock is not held yet.
WaitSleepy(c, p) ==
    /\ At(c, p, "wait_scan")
    /\ i[p] = NPROC
    /\ havekids[p]
    /\ ~killed[p]
    /\ Goto(p, "sleep")
    /\ i' = [i EXCEPT ![p] = 0]
    /\ havekids' = [havekids EXCEPT ![p] = FALSE]
    /\ UNCHANGED <<tableVars, lockVars, cpuproc, nextpid, ret, j, arg>>

\* sleep(p, &wait_lock): take p->lock, drop wait_lock, enter sched().
Sleep(c, p) ==
    /\ At(c, p, "sleep")
    /\ Free(p)
    /\ plock' = [plock EXCEPT ![p] = c]
    /\ wait_lock' = NoCpu
    /\ chan' = [chan EXCEPT ![p] = p]
    /\ state' = [state EXCEPT ![p] = "SLEEPING"]
    /\ Goto(p, "sleep_ret")
    /\ UNCHANGED <<pid, parent, killed, cpuproc, nextpid, localVars>>

\* sleep() after sched() has returned: clear p->chan, release p->lock; wait_lock
\* is taken again by WaitEnter.
SleepRet(c, p) ==
    /\ At(c, p, "sleep_ret")
    /\ chan' = [chan EXCEPT ![p] = NoProc]
    /\ plock' = [plock EXCEPT ![p] = NoCpu]
    /\ Goto(p, "wait_enter")
    /\ UNCHANGED <<state, pid, parent, killed, wait_lock, cpuproc, nextpid, localVars>>

-----------------------------------------------------------------------------
(* kill(). *)

\* One slot of kill()'s scan that has another pid.
KillScan(c, p) ==
    /\ At(c, p, "kill")
    /\ i[p] < NPROC
    /\ Free(i[p])
    /\ pid[i[p]] # arg[p]
    /\ i' = [i EXCEPT ![p] = @ + 1]
    /\ UNCHANGED <<tableVars, lockVars, cpuproc, nextpid, pc, ret, j, havekids, arg>>

\* Mutant of KillHit: an exited process is made RUNNABLE too.
KillHitRevives(c, p) ==
    LET q == i[p] IN
    /\ At(c, p, "kill")
    /\ q < NPROC
    /\ Free(q)
    /\ pid[q] = arg[p]
    /\ killed' = [killed EXCEPT ![q] = TRUE]
    /\ state' = [state EXCEPT ![q] = IF @ \in {"SLEEPING", "ZOMBIE"} THEN "RUNNABLE" ELSE @]
    /\ Goto(p, "sysret")
    /\ i' = [i EXCEPT ![p] = 0]
    /\ arg' = [arg EXCEPT ![p] = 0]
    /\ UNCHANGED <<pid, parent, chan, lockVars, cpuproc, nextpid, ret, j, havekids>>

\* The slot with the pid, whatever its state: mark it, and wake it if it sleeps.
KillHit(c, p) ==
    LET q == i[p] IN
    /\ At(c, p, "kill")
    /\ q < NPROC
    /\ Free(q)
    /\ pid[q] = arg[p]
    /\ killed' = [killed EXCEPT ![q] = TRUE]
    /\ state' = [state EXCEPT ![q] = IF @ = "SLEEPING" THEN "RUNNABLE" ELSE @]
    /\ Goto(p, "sysret")
    /\ i' = [i EXCEPT ![p] = 0]
    /\ arg' = [arg EXCEPT ![p] = 0]
    /\ UNCHANGED <<pid, parent, chan, lockVars, cpuproc, nextpid, ret, j, havekids>>

\* No slot has the pid: kill() returns -1.
KillMiss(c, p) ==
    /\ At(c, p, "kill")
    /\ i[p] = NPROC
    /\ Goto(p, "sysret")
    /\ i' = [i EXCEPT ![p] = 0]
    /\ arg' = [arg EXCEPT ![p] = 0]
    /\ UNCHANGED <<tableVars, lockVars, cpuproc, nextpid, ret, j, havekids>>

-----------------------------------------------------------------------------

Switch(c, p) ==
    \/ SchedPick(c, p) \/ SwtchBack(c, p) \/ Forkret(c, p) \/ Yield(c, p) \/ YieldRet(c, p)

Trap(c, p) ==
    \/ UsertrapKilled(c, p) \/ UsertrapFault(c, p) \/ Syscall(c, p) \/ Sysret(c, p)

Fork(c, p) ==
    \/ ForkScan(c, p) \/ ForkNoSlot(c, p) \/ ForkAlloc(c, p) \/ ForkNoMemory(c, p)
    \/ ForkPublish(c, p) \/ ForkRunnable(c, p)

Exit(c, p) ==
    \/ ExitInit(c, p) \/ PanicSpin(c, p) \/ ExitEnter(c, p) \/ Reparent(c, p)
    \/ ReparentDone(c, p) \/ Wakeup(c, p) \/ WakeupDone(c, p) \/ ExitZombie(c, p)

Wait(c, p) ==
    \/ WaitEnter(c, p) \/ WaitScan(c, p) \/ WaitReap(c, p) \/ WaitFail(c, p)
    \/ WaitSleepy(c, p) \/ Sleep(c, p) \/ SleepRet(c, p)

Kill(c, p) == KillScan(c, p) \/ KillHit(c, p) \/ KillMiss(c, p)

Step(c, p) ==
    Switch(c, p) \/ Trap(c, p) \/ Fork(c, p) \/ Exit(c, p) \/ Wait(c, p) \/ Kill(c, p)

Next == \E c \in CPU, p \in Slot : Step(c, p)

Spec == Init /\ [][Next]_vars

-----------------------------------------------------------------------------
(* Properties. *)

\* Type correctness of the table, the locks, the CPUs and the threads' locals.
TypeOK ==
    /\ state \in [Slot -> States]
    /\ pid \in [Slot -> Nat]
    /\ parent \in [Slot -> Slot \cup {NoProc}]
    /\ killed \in [Slot -> BOOLEAN]
    /\ chan \in [Slot -> Slot \cup {NoProc}]
    /\ plock \in [Slot -> CPU \cup {NoCpu}]
    /\ wait_lock \in CPU \cup {NoCpu}
    /\ cpuproc \in [CPU -> Slot \cup {NoProc}]
    /\ nextpid \in Nat
    /\ pc \in [Slot -> Labels]
    /\ ret \in [Slot -> Preemptible \cup {"user"}]
    /\ i \in [Slot -> Cursor]
    /\ j \in [Slot -> Cursor]
    /\ havekids \in [Slot -> BOOLEAN]
    /\ arg \in [Slot -> Nat]

\* A kernel stack is in use by at most one CPU, and only while the slot is
\* RUNNING or its lock is still held by that CPU (wait(): "make sure the child
\* isn't still in exit() or swtch()").  So a slot is never rescheduled, and never
\* freed and reused, under a thread that has not left its stack.
StackExclusive ==
    /\ \A c, d \in CPU : cpuproc[c] = cpuproc[d] /\ cpuproc[c] # NoProc => c = d
    /\ \A c \in CPU, p \in Slot :
          cpuproc[c] = p => state[p] = "RUNNING" \/ plock[p] = c
    /\ \A p \in Slot : state[p] = "RUNNING" => \E c \in CPU : cpuproc[c] = p

\* sched()'s panics: a thread that enters the scheduler holds its own p->lock and
\* no other spinlock.
SchedLocks ==
    \A c \in CPU, p \in Slot :
        cpuproc[c] = p /\ state[p] # "RUNNING" =>
            /\ plock[p] = c
            /\ wait_lock # c
            /\ \A q \in Slot \ {p} : plock[q] # c

\* No wakeup is lost between wait()'s scan and its sleep(): a process asleep in
\* wait() has no exited child, except for the moment inside reparent() between
\* giving a zombie to init and the iteration of wakeup(initproc) that reaches init.
NoLostWakeup ==
    \A p, q \in Slot :
        state[p] = "SLEEPING" /\ parent[q] = p /\ state[q] = "ZOMBIE" =>
            /\ p = initproc
            /\ \E r \in Slot : /\ state[r] = "RUNNING"
                               /\ pc[r] = "reparent_wake"
                               /\ j[r] <= initproc

\* A process asleep in wait() has a child to wait for: nobody reaps or takes over
\* the last child of a process while that process sleeps.
SleeperHasChild ==
    \A p \in Slot : state[p] = "SLEEPING" =>
        \E q \in Slot : parent[q] = p /\ state[q] # "UNUSED"

\* The process tree is never dangling: the parent of a live or exited process is
\* a process that has neither exited nor been freed, although fork() publishes
\* np->parent without np->lock and exit() walks the table slot by slot.
ParentAlive ==
    \A q \in Slot :
        state[q] \notin {"UNUSED", "USED"} /\ q # initproc =>
            /\ parent[q] # NoProc
            /\ state[parent[q]] \in {"RUNNABLE", "RUNNING", "SLEEPING"}

\* No two processes of the table have the same pid, and none has pid 0.
PidsUnique ==
    /\ \A p, q \in Slot : pid[p] = pid[q] /\ pid[p] # 0 => p = q
    /\ \A p \in Slot : state[p] # "UNUSED" <=> pid[p] # 0

\* "Kill the process with the given pid": a process that has not run yet is marked
\* as killed only if its pid was given to kill().
KillNamesPid ==
    \A p \in Slot : pc[p] = "forkret" /\ killed[p] => pid[p] \in KillArgs

\* A zombie stays one until its own parent frees it in wait(): no other step
\* revives it, and kill() of a zombie changes nothing a parent can see.
ZombieReapedByParent ==
    [][\A q \in Slot : state[q] = "ZOMBIE" /\ state'[q] # "ZOMBIE" =>
          /\ state'[q] = "UNUSED"
          /\ \E c \in CPU : wait_lock = c /\ cpuproc[c] = parent[q]]_vars

-----------------------------------------------------------------------------
(* The inductive invariant from which the safety properties follow. *)

\* Where a thread is, seen through a preemption.
Where(p) == IF pc[p] = "yield_ret" THEN ret[p] ELSE pc[p]

\* Threads that return from swtch() with p->lock held by scheduler().
RetLabels == {"forkret", "yield_ret", "sleep_ret"}
\* Threads inside exit() or wait() that hold wait_lock.
ExitLabels == {"reparent", "reparent_wake", "exit_wake", "exit_zombie"}
WaitLabels == {"wait_scan", "sleep"}

StateInv ==
    \A p \in Slot :
        /\ state[p] = "UNUSED" <=> pc[p] = "none"
        /\ state[p] = "ZOMBIE" <=> pc[p] = "zombie"
        /\ state[p] = "USED" => pc[p] = "forkret"
        /\ state[p] = "RUNNABLE" => pc[p] \in RetLabels
        /\ state[p] = "SLEEPING" => pc[p] = "sleep_ret" /\ chan[p] = p

CpuInv ==
    /\ \A c, d \in CPU : cpuproc[c] = cpuproc[d] /\ cpuproc[c] # NoProc => c = d
    /\ \A p \in Slot : state[p] = "RUNNING" => \E c \in CPU : cpuproc[c] = p

LockInv ==
    /\ \A c \in CPU, p \in Slot :
          plock[p] = c <=>
              /\ cpuproc[c] = p
              /\ state[p] # "RUNNING" \/ pc[p] \in RetLabels
    /\ \A c \in CPU :
          wait_lock = c <=>
              \E p \in Slot : /\ cpuproc[c] = p
                              /\ state[p] = "RUNNING"
                              /\ pc[p] \in ExitLabels \cup WaitLabels

LocalInv ==
    \A p \in Slot :
        /\ Where(p) \notin {"fork_alloc", "reparent", "reparent_wake", "wait_scan", "kill"}
              => i[p] = 0
        /\ pc[p] \notin {"reparent_wake", "exit_wake"} => j[p] = 0
        /\ pc[p] # "wait_scan" => ~havekids[p]

PidInv ==
    /\ PidsUnique
    /\ \A p \in Slot : pid[p] < nextpid

\* A slot being forked belongs to one forking thread, which becomes its parent.
ForkInv ==
    /\ \A p \in Slot : Where(p) \in {"fork_publish", "fork_runnable"} =>
          /\ arg[p] \in Slot
          /\ state[arg[p]] = "USED"
          /\ parent[arg[p]] = IF Where(p) = "fork_runnable" THEN p ELSE NoProc
          /\ \A q \in Slot : /\ Where(q) \in {"fork_publish", "fork_runnable"}
                             /\ arg[q] = arg[p]
                             => q = p
    /\ \A q \in Slot : state[q] = "USED" =>
          \E p \in Slot : /\ Where(p) \in {"fork_publish", "fork_runnable"}
                          /\ arg[p] = q

TreeInv ==
    /\ ParentAlive
    /\ \A q \in Slot : state[q] = "UNUSED" => parent[q] = NoProc
    /\ parent[initproc] = NoProc
    /\ state[initproc] \in {"RUNNABLE", "RUNNING", "SLEEPING"}

\* What exit() has done by each of its steps.
ExitInv ==
    \A p \in Slot :
        /\ pc[p] \in ExitLabels => p # initproc
        /\ pc[p] = "reparent" => \A q \in Slot : q < i[p] => parent[q] # p
        /\ pc[p] = "reparent_wake" => /\ i[p] < NPROC
                                      /\ \A q \in Slot : q <= i[p] => parent[q] # p
                                      /\ j[p] > initproc => state[initproc] # "SLEEPING"
        /\ pc[p] \in {"exit_wake", "exit_zombie", "zombie"} =>
              \A q \in Slot : parent[q] # p
        /\ pc[p] = "exit_wake" /\ j[p] > parent[p] => state[parent[p]] # "SLEEPING"
        /\ pc[p] = "exit_zombie" => state[parent[p]] # "SLEEPING"

\* What wait()'s scan has established by each of its steps.
WaitInv ==
    \A p \in Slot :
        /\ pc[p] = "wait_scan" =>
              /\ \A q \in Slot : q < i[p] /\ parent[q] = p => state[q] # "ZOMBIE"
              /\ havekids[p] => \E q \in Slot : parent[q] = p
        /\ pc[p] = "sleep" =>
              /\ \A q \in Slot : parent[q] = p => state[q] # "ZOMBIE"
              /\ \E q \in Slot : parent[q] = p

IInv ==
    /\ TypeOK
    /\ StateInv
    /\ CpuInv
    /\ LockInv
    /\ LocalInv
    /\ PidInv
    /\ ForkInv
    /\ TreeInv
    /\ ExitInv
    /\ WaitInv
    /\ NoLostWakeup
    /\ SleeperHasChild

=============================================================================
