------------------------------- MODULE Clock -------------------------------
(* Time: the tick counter, the running, sleeping and waiting times of every *)
(* process, sys_sleep() and the times waitx() reports (trap.c clockintr,    *)
(* proc.c update_time and waitx, sysproc.c).  Processes change state on any *)
(* hart while hart 0 is walking the table; p->lock makes each visit atomic. *)
EXTENDS Integers, FiniteSets

CONSTANTS
    Hart, Hart0,      \* the harts and the one that takes clockintr()
    Proc, NoProc,     \* slots of the process table, numbered from 1
    UINT,             \* modulus of an unsigned int
    MaxTicks,         \* bound on ticks
    SleepArg          \* arguments of sleep(), negative ones included

ClockAssumption ==
    /\ Hart0 \in Hart /\ NoProc \notin Proc
    /\ Proc = 1..Cardinality(Proc)
    /\ UINT \in Nat /\ MaxTicks \in Nat /\ 2 * MaxTicks < UINT
    /\ SleepArg \subseteq Int

VARIABLES
    ticks,
    clock,     \* next slot update_time() visits; 0 when clockintr() is not running
    run,       \* run[h]: the process hart h runs
    state,     \* p->state
    killed,    \* p->killed
    times,     \* ctime, etime, rtime_total, stime_total and wtime_total
    call,      \* a sys_sleep() in progress: ticks0, n, and at, which is "sleep" from the
               \* test of killed to sleep(), with tickslock held, and then "wait"
    user       \* what the last sys_waitx() returned

vars == <<ticks, clock, run, state, killed, times, call, user>>

NoCall == [ticks0 |-> 0, n |-> 0, at |-> "no"]
NoTimes == [c |-> 0, e |-> 0, r |-> 0, s |-> 0, w |-> 0]
NProc == Cardinality(Proc)

TypeOK ==
    /\ ticks \in 0..MaxTicks /\ clock \in 0..NProc + 1
    /\ run \in [Hart -> Proc \cup {NoProc}]
    /\ state \in [Proc -> {"UNUSED", "USED", "RUNNABLE", "RUNNING", "SLEEPING", "ZOMBIE"}]
    /\ killed \in [Proc -> BOOLEAN]
    /\ times \in [Proc -> [{"c", "e", "r", "s", "w"} -> 0..MaxTicks + 1]]
    /\ call \in [Proc -> [ticks0 : 0..MaxTicks, n : SleepArg \cup {0}, at : {"no", "sleep", "wait"}]]
    /\ user.ret \in Proc \cup {-1, 0}

Init ==
    /\ ticks = 0 /\ clock = 0
    /\ run = [h \in Hart |-> NoProc]
    /\ state = [p \in Proc |-> IF p = 1 THEN "RUNNABLE" ELSE "UNUSED"]
    /\ killed = [p \in Proc |-> FALSE]
    /\ times = [p \in Proc |-> NoTimes]
    /\ call = [p \in Proc |-> NoCall]
    /\ user = [ret |-> 0, wtime |-> 0, rtime |-> 0]

\* Hart h executes process p: it is not inside the clock interrupt.
On(h, p) == run[h] = p /\ p # NoProc /\ (h = Hart0 => clock = 0)

\* Nobody holds tickslock.
TicksFree == clock = 0 /\ \A p \in Proc : call[p].at # "sleep"

(***************************************************************************)
(* clockintr(): ticks is advanced first, then the table is walked, then    *)
(* the sleepers on &ticks are woken, all under tickslock (clock # 0).      *)
(***************************************************************************)
ClockTick ==
    /\ TicksFree /\ ticks < MaxTicks
    /\ ticks' = ticks + 1 /\ clock' = 1
    /\ UNCHANGED <<run, state, killed, times, call, user>>

update_time(p) ==
    times' = [times EXCEPT ![p] = CASE state[p] = "RUNNING"  -> [@ EXCEPT !.r = @ + 1]
                                    [] state[p] = "SLEEPING" -> [@ EXCEPT !.s = @ + 1]
                                    [] state[p] = "RUNNABLE" -> [@ EXCEPT !.w = @ + 1]
                                    [] OTHER -> @]

ClockVisit ==
    /\ clock \in Proc
    /\ update_time(clock) /\ clock' = clock + 1
    /\ UNCHANGED <<ticks, run, state, killed, call, user>>

ClockWake ==
    /\ clock = NProc + 1 /\ clock' = 0
    /\ state' = [p \in Proc |-> IF state[p] = "SLEEPING" THEN "RUNNABLE" ELSE state[p]]
    /\ UNCHANGED <<ticks, run, killed, times, call, user>>

(***************************************************************************)
(* The life of a process.  fork() reads ticks in allocproc() and exit()    *)
(* reads it after setting ZOMBIE, neither of them under tickslock.         *)
(***************************************************************************)

Fork(h, q, p) ==
    /\ On(h, q) /\ state[p] = "UNUSED" /\ call[q] = NoCall
    /\ state' = [state EXCEPT ![p] = "USED"]
    /\ times' = [times EXCEPT ![p] = [NoTimes EXCEPT !.c = ticks]]
    /\ UNCHANGED <<ticks, clock, run, killed, call, user>>

ForkDone(h, q, p) ==
    /\ On(h, q) /\ state[p] = "USED" /\ call[q] = NoCall
    /\ state' = [state EXCEPT ![p] = "RUNNABLE"]
    /\ UNCHANGED <<ticks, clock, run, killed, times, call, user>>

Schedule(h, p) ==
    /\ run[h] = NoProc /\ (h = Hart0 => clock = 0)
    /\ state[p] = "RUNNABLE"
    /\ state' = [state EXCEPT ![p] = "RUNNING"] /\ run' = [run EXCEPT ![h] = p]
    /\ UNCHANGED <<ticks, clock, killed, times, call, user>>

\* The timer; with tickslock held interrupts are off.
Yield(h, p) ==
    /\ On(h, p) /\ call[p].at # "sleep"
    /\ state' = [state EXCEPT ![p] = "RUNNABLE"] /\ run' = [run EXCEPT ![h] = NoProc]
    /\ UNCHANGED <<ticks, clock, killed, times, call, user>>

Exit(h, p) ==
    /\ On(h, p) /\ p # 1 /\ call[p] = NoCall
    /\ ~\E q \in Proc : state[q] = "USED"    \* a parent does not exit inside fork()
    /\ state' = [state EXCEPT ![p] = "ZOMBIE"] /\ run' = [run EXCEPT ![h] = NoProc]
    /\ times' = [times EXCEPT ![p].e = ticks]
    /\ UNCHANGED <<ticks, clock, killed, call, user>>

\* kill() takes only p->lock, and wakes p only if it sleeps already.
Kill(h, q, p) ==
    /\ On(h, q) /\ call[q] = NoCall /\ state[p] \notin {"UNUSED", "ZOMBIE"} /\ p # 1
    /\ killed' = [killed EXCEPT ![p] = TRUE]
    /\ state' = [state EXCEPT ![p] = IF @ = "SLEEPING" THEN "RUNNABLE" ELSE @]
    /\ UNCHANGED <<ticks, clock, run, times, call, user>>

\* waitx() found the zombie p: freeproc() and the two times, in unsigned arithmetic.
Waitx(h, q, p) ==
    /\ On(h, q) /\ state[p] = "ZOMBIE" /\ call[q] = NoCall
    /\ user' = [ret |-> p, rtime |-> times[p].r,
                wtime |-> (times[p].e - times[p].r - times[p].c) % UINT]
    /\ state' = [state EXCEPT ![p] = "UNUSED"] /\ killed' = [killed EXCEPT ![p] = FALSE]
    /\ UNCHANGED <<ticks, clock, run, times, call>>

\* waitx() returned -1: sys_waitx() copies out its two uninitialised locals.
WaitxNone(h, q) ==
    /\ On(h, q) /\ call[q] = NoCall
    /\ \A p \in Proc \ {q} : state[p] # "ZOMBIE"
    /\ killed[q] \/ \A p \in Proc \ {q} : state[p] = "UNUSED"
    /\ \E x \in {0, UINT - 1} : user' = [ret |-> -1, wtime |-> x, rtime |-> x]
    /\ UNCHANGED <<ticks, clock, run, state, killed, times, call>>

(***************************************************************************)
(* sys_sleep(): the loop body, run with tickslock held.  The comparison is *)
(* unsigned, so a negative n is a very large one.                          *)
(***************************************************************************)
\* One tick too few (mutant of Elapsed).
ElapsedEarly(c) == (ticks - c.ticks0 + 1) % UINT >= c.n % UINT

Elapsed(c) == (ticks - c.ticks0) % UINT >= c.n % UINT

\* The two tests of the loop: the call returns, or goes on to sleep().
SleepLoop(p, c) ==
    call' = [call EXCEPT ![p] = IF Elapsed(c) \/ killed[p] THEN NoCall ELSE [c EXCEPT !.at = "sleep"]]

sys_sleep(h, p) ==
    /\ On(h, p) /\ TicksFree /\ call[p] = NoCall /\ ~killed[p]
    /\ \E n \in SleepArg : SleepLoop(p, [ticks0 |-> ticks, n |-> n, at |-> "no"])
    /\ UNCHANGED <<ticks, clock, run, state, killed, times, user>>

\* sleep(&ticks, &tickslock).
Sleep(h, p) ==
    /\ On(h, p) /\ call[p].at = "sleep"
    /\ call' = [call EXCEPT ![p].at = "wait"]
    /\ state' = [state EXCEPT ![p] = "SLEEPING"] /\ run' = [run EXCEPT ![h] = NoProc]
    /\ UNCHANGED <<ticks, clock, killed, times, user>>

\* Woken, with tickslock again.
SleepAgain(h, p) ==
    /\ On(h, p) /\ TicksFree /\ call[p].at = "wait"
    /\ SleepLoop(p, call[p])
    /\ UNCHANGED <<ticks, clock, run, state, killed, times, user>>

Next ==
    \/ ClockTick \/ ClockVisit \/ ClockWake
    \/ \E h \in Hart, p \in Proc :
          \/ Schedule(h, p) \/ Yield(h, p) \/ Exit(h, p)
          \/ sys_sleep(h, p) \/ Sleep(h, p) \/ SleepAgain(h, p) \/ WaitxNone(h, p)
          \/ \E q \in Proc \ {p} : Fork(h, p, q) \/ ForkDone(h, p, q) \/ Kill(h, p, q) \/ Waitx(h, p, q)

Spec == Init /\ [][Next]_vars

\* Round robin reaches every process again and again, an interrupt handler
\* runs to its end, and a process that runs gets on with its system call.
FairSpec ==
    /\ Spec
    /\ WF_vars(ClockVisit \/ ClockWake)
    /\ \A p \in Proc : /\ SF_vars(\E h \in Hart : Schedule(h, p))
                      /\ SF_vars(\E h \in Hart : SleepAgain(h, p) \/ Sleep(h, p))

-----------------------------------------------------------------------------
\* update_time() charges a process for each tick at most once, to one of the
\* three totals: together they never exceed the ticks since allocproc() set
\* ctime, plus the tick whose walk of the table was under way at that moment.
AccountedOnce ==
    \A p \in Proc :
        state[p] \notin {"UNUSED", "ZOMBIE"} =>
            times[p].r + times[p].s + times[p].w <= ticks - times[p].c + 1

\* sys_sleep() returns early only to a killed process: a call that comes back
\* with 0 has seen n ticks go by (n read as unsigned), whatever the clock did
\* between its test of ticks and its sleep().
WokenStep ==
    \A p \in Proc :
        (call[p] # NoCall /\ call'[p] = NoCall /\ ~killed[p]) =>
            ticks - call[p].ticks0 >= call[p].n % UINT
SleepsFully == [][WokenStep]_vars

\* A process whose n ticks have passed does not stay in sys_sleep(): the wakeup
\* at the end of clockintr() cannot fall between its test and its sleep().
SleeperReturns ==
    \A p \in Proc : (call[p] # NoCall /\ call[p].n >= 0 /\ ticks - call[p].ticks0 >= call[p].n)
                        ~> call[p] = NoCall

\* What user/time.c prints as "waiting:%d" is a number of ticks of the child's
\* life, so it is no larger than the clock.
WaitingIsATime == user.ret \in Proc => user.wtime <= ticks
=============================================================================
