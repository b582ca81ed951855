------------------------------- MODULE MCSched -------------------------------
(* Time, the schedulers of the three builds, and system calls with their      *)
(* trace, one component in each behaviour.  FCFS has four slots; only init is *)
(* never preferred (LowPid is 1 instead of 2), so that three processes of     *)
(* three ticks compete.  MLFQ runs on one hart, where only interrupts come in *)
(* between, on two, and, with MaxPush pushes and no clock ticks, on three.    *)
EXTENDS Pbs, TLC

CONSTANTS
    Component,   \* the components to check
    MaxPush,     \* bound on the pushes of MLFQ on three harts
    h0, h1, h2, h3, Nil

VARIABLES
    component,
    clockTicks, clock, run, state, killed, times, call, user,
    fcfsState, ctime, pid, fcfsLock, fcfsHart, all, fcfsTicks, nextpid,
    mlfqState, mlfqLock, cq, entry, size, mlfqSched, kern, dead, pushes,
    mask, tf, sysCall, saved, out, asked, wish

Clock == INSTANCE Clock WITH
    Hart <- {h0, h1}, Hart0 <- h0, Proc <- 1..2, NoProc <- 0, UINT <- 16, MaxTicks <- 2,
    SleepArg <- {-1, 1, 2}, ticks <- clockTicks
Fcfs == INSTANCE Fcfs WITH
    Hart <- {h2, h3}, Nobody <- Nil, Proc <- 1..4, LowPid <- 1, MaxPid <- 4, MaxTicks <- 2,
    state <- fcfsState, lock <- fcfsLock, hart <- fcfsHart, ticks <- fcfsTicks
Mlfq == INSTANCE Mlfq WITH
    Hart <- {h0}, Hart0 <- h0, Nobody <- Nil, NPROC <- 3, NoProc <- 0, NQ <- 5, UINT <- 16,
    state <- mlfqState, lock <- mlfqLock, sched <- mlfqSched
Mlfq2 == INSTANCE Mlfq WITH
    Hart <- {h0, h1}, Hart0 <- h0, Nobody <- Nil, NPROC <- 2, NoProc <- 0, NQ <- 2, UINT <- 16,
    state <- mlfqState, lock <- mlfqLock, sched <- mlfqSched
Mlfq3 == INSTANCE Mlfq WITH
    Hart <- {h0, h2, h3}, Hart0 <- h0, Nobody <- Nil, NPROC <- 2, NoProc <- 0, NQ <- 2, UINT <- 16,
    state <- mlfqState, lock <- mlfqLock, sched <- mlfqSched
Syscall == INSTANCE Syscall WITH
    Proc <- 1..3, First <- 1, Value <- {"x"}, NewSp <- "sp", call <- sysCall

ASSUME SchedAssumption ==
    /\ Clock!ClockAssumption /\ Fcfs!FcfsAssumption
    /\ Mlfq!MlfqAssumption /\ Mlfq2!MlfqAssumption /\ Mlfq3!MlfqAssumption /\ MaxPush \in Nat

clockVars ==
    <<clockTicks, clock, run, state, killed, times, call, user>>
fcfsVars ==
    <<fcfsState, ctime, pid, fcfsLock, fcfsHart, all, fcfsTicks, nextpid>>
mlfqVars ==
    <<mlfqState, mlfqLock, cq, entry, size, mlfqSched, kern, dead, pushes>>
sysVars ==
    <<mask, tf, sysCall, saved, out, asked, wish>>
schedVars == <<component, vars, clockVars, fcfsVars, mlfqVars, sysVars>>
Symmetry == Permutations({h2, h3})

\* The variables of the components that a behaviour is not about.
Resting == Init
NoClock ==
    /\ clockTicks = 0 /\ clock = 0 /\ run = 0 /\ state = 0 /\ killed = 0 /\ times = 0
    /\ call = 0 /\ user = 0
NoFcfs ==
    /\ fcfsState = 0 /\ ctime = 0 /\ pid = 0 /\ fcfsLock = 0 /\ fcfsHart = 0 /\ all = 0
    /\ fcfsTicks = 0 /\ nextpid = 0
NoMlfq ==
    /\ mlfqState = 0 /\ mlfqLock = 0 /\ cq = 0 /\ entry = 0 /\ size = 0 /\ mlfqSched = 0
    /\ kern = 0 /\ dead = 0 /\ pushes = 0
NoSys ==
    /\ mask = 0 /\ tf = 0 /\ sysCall = 0 /\ saved = 0 /\ out = 0 /\ asked = 0 /\ wish = 0

SchedInit ==
    /\ component \in Component
    /\ \/ component = "pbs" /\ Init /\ NoClock /\ NoFcfs /\ NoMlfq /\ NoSys
       \/ component = "clock" /\ Clock!Init /\ Resting /\ NoFcfs /\ NoMlfq /\ NoSys
       \/ component = "fcfs" /\ Fcfs!Init /\ Resting /\ NoClock /\ NoMlfq /\ NoSys
       \/ component = "mlfq" /\ Mlfq!Init /\ pushes = 0 /\ Resting /\ NoClock /\ NoFcfs /\ NoSys
       \/ component = "mlfq2" /\ Mlfq2!Init /\ pushes = 0 /\ Resting /\ NoClock /\ NoFcfs /\ NoSys
       \/ component = "mlfq3" /\ Mlfq3!Init /\ pushes = 0 /\ Resting /\ NoClock /\ NoFcfs /\ NoSys
       \/ component = "syscall" /\ Syscall!Init /\ Resting /\ NoClock /\ NoFcfs /\ NoMlfq

\* At their bounds, with a hart that has panicked, or with no call left to make.
MayStop ==
    \/ component = "clock" /\ clockTicks = 2
    \/ component = "fcfs" /\ fcfsTicks = 2
    \/ component \in {"mlfq", "mlfq2", "mlfq3"} /\ (dead # {} \/ pushes = MaxPush)
    \/ component = "syscall"

SchedNext ==
    \/ component = "pbs" /\ Next /\ UNCHANGED <<component, clockVars, fcfsVars, mlfqVars, sysVars>>
    \/ component = "clock" /\ Clock!Next /\ UNCHANGED <<component, vars, fcfsVars, mlfqVars, sysVars>>
    \/ component = "fcfs" /\ Fcfs!Next /\ UNCHANGED <<component, vars, clockVars, mlfqVars, sysVars>>
    \/ component = "mlfq" /\ Mlfq!Next /\ UNCHANGED <<component, pushes, vars, clockVars, fcfsVars, sysVars>>
    \/ component = "mlfq2" /\ Mlfq2!Next /\ UNCHANGED <<component, pushes, vars, clockVars, fcfsVars, sysVars>>
    \/ /\ component = "mlfq3"
       /\ \/ Mlfq3!Ready /\ pushes < MaxPush /\ pushes' = pushes + 1
          \/ Mlfq3!Other /\ UNCHANGED pushes
       /\ UNCHANGED <<component, vars, clockVars, fcfsVars, sysVars>>
    \/ component = "syscall" /\ Syscall!Next /\ UNCHANGED <<component, vars, clockVars, fcfsVars, mlfqVars>>
    \/ MayStop /\ UNCHANGED schedVars

SchedSpec == SchedInit /\ [][SchedNext]_schedVars

-----------------------------------------------------------------------------
\* update_time() charges a process for each tick at most once, and sys_sleep() returns
\* early only to a killed process, also for an n that is negative.
TimesExact ==
    /\ [](component = "clock" => Clock!TypeOK /\ Clock!AccountedOnce)
    /\ [][component = "clock" => Clock!WokenStep]_schedVars

\* FCFS selects the last process in the table that was created before the one it stands
\* at, and that one if there is none: its search, which reads state and ctime without the
\* locks, passes nobody that was RUNNABLE all the time.  (It is not the oldest one.)
SelectsLastEarlier == component = "fcfs" => Fcfs!TypeOK /\ Fcfs!SelectsLastEarlier

\* MLFQ: no process runs on two harts, although they read and change the queues without
\* a lock, and all processes stay in queue 0.  On one hart a RUNNABLE process is in the
\* queues exactly once, also when interrupts push during the scheduler's pass.
RunsOnce ==
    /\ component = "mlfq" => Mlfq!TypeOK /\ Mlfq!RunsOnce /\ Mlfq!OneQueue /\ Mlfq!RunnableQueued
    /\ component = "mlfq2" => Mlfq2!TypeOK /\ Mlfq2!RunsOnce /\ Mlfq2!OneQueue
    /\ component = "mlfq3" => Mlfq3!TypeOK /\ Mlfq3!RunsOnce /\ Mlfq3!OneQueue

\* A call is printed exactly when the process or the ancestor that gave it the mask has
\* asked for it, with the arguments that the program passed.
TraceExact == component = "syscall" => Syscall!TypeOK /\ Syscall!PrintedAsCalled /\ Syscall!TraceExact
=============================================================================
