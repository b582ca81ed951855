------------------------------ MODULE SpinLock ------------------------------
(***************************************************************************)
(* Spin locks (kernel/spinlock.c) under clock interrupts, and the switch   *)
(* between threads and schedulers that hands p->lock over.                 *)
(*                                                                         *)
(* A context is a kernel thread or the scheduler of a hart.  code[x] is    *)
(* what x has still to execute; an interrupt puts the handler in front of  *)
(* it.  acquire() and release() are expanded into their instructions as    *)
(* they are executed, so that an interrupt or another hart can come in     *)
(* between.  An instruction is <<operation, lock, flag>>.                  *)
(***************************************************************************)
EXTENDS Integers, Sequences, FiniteSets

CONSTANTS
    N,        \* threads are 1 .. N, and p->lock of thread p is lock p
    Hart,
    Hart0,    \* the hart whose timer calls clockintr()
    NoHart    \* lk->cpu == 0

SpinLockAssumption == N \in Nat /\ Hart0 \in Hart /\ NoHart \notin Hart

tickslock == 0
Thread == 1 .. N
Lock == 0 .. N
Context == Thread \cup Hart

VARIABLES
    locked, cpu,         \* struct spinlock
    noff, intena, sie,   \* of each hart: struct cpu, and SSTATUS.SIE
    on,                  \* the context a hart executes
    state,               \* p->state
    code

lockVars == <<locked, cpu>>
hartVars == <<noff, intena, sie>>
vars == <<lockVars, hartVars, on, state, code>>

Op(o, l) == <<o, l, FALSE>>
Locked(l, body) == <<Op("acquire", l)>> \o body \o <<Op("release", l)>>

\* The sections b[1], ..., b[n] one after the other.
InOrder(b, n) ==
    LET cat[k \in 0 .. n] == IF k = 0 THEN <<>> ELSE cat[k - 1] \o b[k]
    IN  cat[n]

\* RR: turn interrupts on, then look at every process, holding its lock.
SchedulerPass ==
    <<Op("intr_on", 0)>> \o InOrder([p \in Thread |-> Locked(p, <<Op("swtch", p)>>)], N)

\* update_time() and updatetime() visit every process, wakeup(&ticks) every other one.
Clockintr(x) ==
    LET visits == InOrder([p \in Thread |-> Locked(p, <<>>)], N)
    IN  Locked(tickslock,
           visits \o visits \o
           InOrder([p \in Thread |-> IF p = x THEN <<>> ELSE Locked(p, <<Op("wake", p)>>)], N))

\* kerneltrap() for a timer interrupt on hart c in context x.
Kerneltrap(c, x) ==
    (IF c = Hart0 THEN Clockintr(x) ELSE <<>>) \o
    (IF x \in Thread THEN Locked(x, <<Op("yield", x)>>) ELSE <<>>) \o
    <<Op("sret", 0)>>

\* sleep(&ticks, &tickslock) in thread p.
SleepOnTicks(p) ==
    <<Op("acquire", p), Op("release", tickslock), Op("sleep", p),
      Op("release", p), Op("acquire", tickslock)>>

\* sys_uptime(), and sys_sleep() with one round of its loop.
SyscallBodies(p) == {Locked(tickslock, <<>>), Locked(tickslock, SleepOnTicks(p))}

\* Boot: nothing is locked, every scheduler is about to start, the processes are new.
Init ==
    /\ locked = [l \in Lock |-> FALSE]
    /\ cpu = [l \in Lock |-> NoHart]
    /\ noff = [c \in Hart |-> 0]
    /\ intena = [c \in Hart |-> FALSE]
    /\ sie = [c \in Hart |-> FALSE]
    /\ on = [c \in Hart |-> c]
    /\ state = [p \in Thread |-> "RUNNABLE"]
    /\ code = [x \in Context |-> IF x \in Hart THEN SchedulerPass
                                 ELSE <<Op("release", x), Op("usertrapret", 0)>>]

-----------------------------------------------------------------------------

\* Hart c is about to execute operation o on lock l, with flag f.
Next1(c) == Head(code[on[c]])
At(c, o, l, f) == code[on[c]] # <<>> /\ Next1(c) = <<o, l, f>>
holding(c, l) == locked[l] /\ cpu[l] = c

\* Replace the instruction by i, or go on to the following one.
Become(c, i) == code' = [code EXCEPT ![on[c]] = <<i>> \o Tail(@)]
Advance(c) == code' = [code EXCEPT ![on[c]] = Tail(@)]

\* acquire(): push_off() reads the interrupt flag ...
IntrGet(c, l) ==
    /\ At(c, "acquire", l, FALSE)
    /\ Become(c, <<"push_off", l, sie[c]>>)
    /\ UNCHANGED <<lockVars, hartVars, on, state>>

\* Mutant: intena is overwritten by an inner push_off().
PushOffForgets(c, l, old) ==
    /\ At(c, "push_off", l, old)
    /\ ~holding(c, l)
    /\ sie' = [sie EXCEPT ![c] = FALSE]
    /\ intena' = [intena EXCEPT ![c] = old]
    /\ noff' = [noff EXCEPT ![c] = @ + 1]
    /\ Become(c, Op("swap", l))
    /\ UNCHANGED <<lockVars, on, state>>

\* ... and, maybe on another hart, turns interrupts off; panic if the lock is ours.
PushOff(c, l, old) ==
    /\ At(c, "push_off", l, old)
    /\ ~holding(c, l)
    /\ sie' = [sie EXCEPT ![c] = FALSE]
    /\ intena' = [intena EXCEPT ![c] = IF noff[c] = 0 THEN old ELSE @]
    /\ noff' = [noff EXCEPT ![c] = @ + 1]
    /\ Become(c, Op("swap", l))
    /\ UNCHANGED <<lockVars, on, state>>

\* The swap that finds the lock free.
TestAndSet(c, l) ==
    /\ At(c, "swap", l, FALSE)
    /\ ~locked[l]
    /\ locked' = [locked EXCEPT ![l] = TRUE]
    /\ Become(c, Op("own", l))
    /\ UNCHANGED <<cpu, hartVars, on, state>>

SetOwner(c, l) ==
    /\ At(c, "own", l, FALSE)
    /\ cpu' = [cpu EXCEPT ![l] = c]
    /\ Advance(c)
    /\ UNCHANGED <<locked, hartVars, on, state>>

\* release(): panic if the lock is not ours, else clear the owner ...
ClearOwner(c, l) ==
    /\ At(c, "release", l, FALSE)
    /\ holding(c, l)
    /\ cpu' = [cpu EXCEPT ![l] = NoHart]
    /\ Become(c, Op("unlock", l))
    /\ UNCHANGED <<locked, hartVars, on, state>>

\* ... free the lock ...
LockRelease(c, l) ==
    /\ At(c, "unlock", l, FALSE)
    /\ locked' = [locked EXCEPT ![l] = FALSE]
    /\ Become(c, Op("pop_off", l))
    /\ UNCHANGED <<cpu, hartVars, on, state>>

\* ... and pop_off().
PopOff(c, l) ==
    /\ At(c, "pop_off", l, FALSE)
    /\ ~sie[c] /\ noff[c] >= 1
    /\ noff' = [noff EXCEPT ![c] = @ - 1]
    /\ sie' = [sie EXCEPT ![c] = noff[c] = 1 /\ intena[c]]
    /\ Advance(c)
    /\ UNCHANGED <<lockVars, intena, on, state>>

-----------------------------------------------------------------------------
(* Switching. *)

\* What sched() insists on.
SchedChecks(c, p) == holding(c, p) /\ noff[c] = 1 /\ ~sie[c]

\* yield() or sleep() changes the state, and sched() switches to the scheduler with
\* the thread's intena kept on its stack.
Sched(c, p) ==
    /\ \E o \in {"yield", "sleep"} :
          /\ At(c, o, p, FALSE)
          /\ state' = [state EXCEPT ![p] = IF o = "yield" THEN "RUNNABLE" ELSE "SLEEPING"]
    /\ SchedChecks(c, p)
    /\ Become(c, <<"restore", p, intena[c]>>)
    /\ on' = [on EXCEPT ![c] = c]
    /\ UNCHANGED <<lockVars, hartVars>>

\* The thread is switched to again: the end of sched().
Restore(c, p, saved) ==
    /\ At(c, "restore", p, saved)
    /\ intena' = [intena EXCEPT ![c] = saved]
    /\ Advance(c)
    /\ UNCHANGED <<lockVars, noff, sie, on, state>>

\* The scheduler switches to p if it is RUNNABLE; when it is back, or at once, it goes
\* on to release p->lock.
Swtch(c, p) ==
    /\ At(c, "swtch", p, FALSE)
    /\ IF state[p] = "RUNNABLE"
       THEN /\ state' = [state EXCEPT ![p] = "RUNNING"]
            /\ on' = [on EXCEPT ![c] = p]
       ELSE UNCHANGED <<state, on>>
    /\ Advance(c)
    /\ UNCHANGED <<lockVars, hartVars>>

\* wakeup() with p->lock held.
Wake(c, p) ==
    /\ At(c, "wake", p, FALSE)
    /\ state' = [state EXCEPT ![p] = IF @ = "SLEEPING" THEN "RUNNABLE" ELSE @]
    /\ Advance(c)
    /\ UNCHANGED <<lockVars, hartVars, on>>

\* intr_on() of the scheduler, the return from an interrupt, the return to user space.
IntrOn(c) ==
    /\ \E o \in {"intr_on", "sret", "usertrapret"} : At(c, o, 0, FALSE)
    /\ sie' = [sie EXCEPT ![c] = TRUE]
    /\ Advance(c)
    /\ UNCHANGED <<lockVars, noff, intena, on, state>>

\* The scheduler starts its next pass; a process calls sys_uptime() or sys_sleep().
Start(c) ==
    /\ code[on[c]] = <<>>
    /\ \E body \in IF on[c] \in Thread THEN SyscallBodies(on[c]) ELSE {SchedulerPass} :
          code' = [code EXCEPT ![on[c]] = body]
    /\ UNCHANGED <<lockVars, hartVars, on, state>>

\* A timer interrupt, wherever interrupts are on.
Interrupt(c) ==
    /\ sie[c]
    /\ sie' = [sie EXCEPT ![c] = FALSE]
    /\ code' = [code EXCEPT ![on[c]] = Kerneltrap(c, on[c]) \o @]
    /\ UNCHANGED <<lockVars, noff, intena, on, state>>

-----------------------------------------------------------------------------

Acquire(c, l) ==
    \/ IntrGet(c, l)
    \/ \E old \in BOOLEAN : PushOff(c, l, old)
    \/ TestAndSet(c, l)
    \/ SetOwner(c, l)

Release(c, l) == ClearOwner(c, l) \/ LockRelease(c, l) \/ PopOff(c, l)

Switch(c, p) ==
    \/ Sched(c, p)
    \/ \E saved \in BOOLEAN : Restore(c, p, saved)
    \/ Swtch(c, p)
    \/ Wake(c, p)

Next == \E c \in Hart :
    \/ \E l \in Lock : Acquire(c, l) \/ Release(c, l)
    \/ \E p \in Thread : Switch(c, p)
    \/ IntrOn(c) \/ Start(c) \/ Interrupt(c)

Spec == Init /\ [][Next]_vars

-----------------------------------------------------------------------------
(* Properties. *)

TypeOK ==
    /\ locked \in [Lock -> BOOLEAN]
    /\ cpu \in [Lock -> Hart \cup {NoHart}]
    /\ noff \in [Hart -> 0 .. 2]
    /\ intena \in [Hart -> BOOLEAN] /\ sie \in [Hart -> BOOLEAN]
    /\ on \in [Hart -> Context]
    /\ state \in [Thread -> {"RUNNABLE", "RUNNING", "SLEEPING"}]
    /\ DOMAIN code = Context

\* The locks hart c is inside: their next instruction is one of a holder.
Inside(c) ==
    {l \in Lock :
        LET mine == SelectSeq(code[on[c]], LAMBDA i : i[2] = l /\ i[1] \in
                        {"acquire", "push_off", "swap", "own", "release", "unlock"})
        IN  mine # <<>> /\ Head(mine)[1] \in {"own", "release", "unlock"}}

\* acquire() and release() give mutual exclusion, also for a p->lock that is taken
\* by a scheduler and released by the thread it switches to, or the other way round.
MutualExclusion ==
    LET inside == [c \in Hart |-> Inside(c)]
    IN  \A c, d \in Hart : c # d => inside[c] \cap inside[d] = {}

\* A hart inside a lock takes no interrupt: a handler that wanted the lock would spin
\* for ever.
MaskedWhileLocked == \A c \in Hart : sie[c] => Inside(c) = {}

\* "kerneltrap: interrupts enabled" is never printed: a handler runs with interrupts off
\* to its end, also when it yields and finishes on another hart.
HandlerMasked ==
    \A c \in Hart : sie[c] => \A k \in 1 .. Len(code[on[c]]) : code[on[c]][k][1] # "sret"

\* None of the panics of acquire(), release(), pop_off() and sched() is reached.
NoPanic ==
    \A c \in Hart : code[on[c]] # <<>> =>
        LET op == Next1(c)[1]
            l == Next1(c)[2]
        IN  /\ op = "push_off" => ~holding(c, l)
            /\ op = "release" => holding(c, l)
            /\ op = "pop_off" => ~sie[c] /\ noff[c] >= 1
            /\ op \in {"yield", "sleep"} => SchedChecks(c, l)

\* push_off() and pop_off() are matched: back in user space, a process has interrupts
\* on and its hart has no push_off() outstanding, wherever it started the call.
InterruptsRestored ==
    \A c \in Hart : on[c] \in Thread /\ code[on[c]] = <<>> => sie[c] /\ noff[c] = 0
=============================================================================
