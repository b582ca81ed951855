-------------------------------- MODULE Pbs --------------------------------
(* The scheduler of the PBS build (proc.c, #ifdef PBS) and set_priority().  *)
(* A hart walks the process table and keeps the lock of the best process it *)
(* has seen while it takes the locks of the following ones.                 *)
EXTENDS Integers

CONSTANTS
    Hart,
    NPROC,       \* slots of the process table
    Nobody,
    UINT,        \* modulus of an unsigned int
    NewPriority, \* arguments of set_priority()
    MaxTicks,    \* bound on ticks
    MaxSched     \* times_scheduled stays at this value once it is reached

ASSUME PbsAssumption ==
    /\ NPROC \in Nat \ {0} /\ Nobody \notin Hart /\ NewPriority \subseteq Int
    /\ UINT \in Nat /\ UINT > 220 /\ MaxTicks \in Nat /\ MaxSched \in Nat

Proc == 1 .. NPROC

VARIABLES
    proc,      \* proc[p]: state, static_priority (sp), times_scheduled (ts),
               \* last_sched_time (last), ctime, rtime_total (rt), stime_total (st);
               \* niceness and dynamic_priority are computed anew at each use
    lock,      \* hart that holds p->lock, or Nobody
    hart,      \* hart[h]: place in scheduler(), p, selected_proc, its priority, and
               \* the smallest priority met on this walk (history)
    ticks

vars == <<proc, lock, hart, ticks>>

Start == [pc |-> "walk", p |-> 1, sel |-> 0, prio |-> 101, best |-> 101]
\* allocproc()
NewProc(t) == [state |-> "RUNNABLE", sp |-> 60, ts |-> 0,
               last |-> 0, ctime |-> t, rt |-> 0, st |-> 0]

TypeOK ==
    /\ proc \in [Proc -> [state : {"UNUSED", "RUNNABLE", "RUNNING", "SLEEPING", "ZOMBIE"},
                          sp : 0..100, ts : 0..MaxSched, last : 0..MaxTicks,
                          ctime : 0..MaxTicks, rt : 0..MaxTicks, st : 0..MaxTicks]]
    /\ lock \in [Proc -> Hart \cup {Nobody}]
    /\ hart \in [Hart -> [pc : {"walk", "switch", "resume", "run", "yield"},
                          p : Proc, sel : 0..NPROC, prio : 0..101, best : 0..101]]
    /\ ticks \in 0..MaxTicks

Init ==
    /\ proc = [p \in Proc |-> [NewProc(0) EXCEPT !.state = IF p = 1 THEN @ ELSE "UNUSED"]]
    /\ lock = [p \in Proc |-> Nobody]
    /\ hart = [h \in Hart |-> Start]
    /\ ticks = 0

(***************************************************************************)
(* The dynamic priority, in the unsigned arithmetic of the code.           *)
(***************************************************************************)
\* (rtime_lastrun / (rtime_lastrun + stime_lastrun)) * 10, or 5
Niceness(q) ==
    LET r == (q.rt - q.last) % UINT
        s == (q.st - q.last) % UINT
    IN  IF (r + s) % UINT = 0 THEN 5 ELSE ((r \div ((r + s) % UINT)) * 10) % UINT

ToInt(u) == IF u >= UINT \div 2 THEN u - UINT ELSE u

DynamicPriority(q) ==
    LET x == ToInt((q.sp - Niceness(q) + 5) % UINT)
    IN  IF x > 100 THEN 100 ELSE IF x < 0 THEN 0 ELSE x

(***************************************************************************)
(* scheduler()                                                             *)
(***************************************************************************)
\* The three tests that replace selected_proc (s, with priority prio) by q
\* (with priority dyn).
Beats(q, dyn, s, prio) ==
    \/ prio > dyn
    \/ prio = dyn /\ s.ts > q.ts
    \/ s.ctime > q.ctime

\* A missing continue: the lock of the new selection is released (mutant of Locks).
LocksDropped(h, p, sel, take) == [r \in Proc |-> IF take /\ r = sel THEN Nobody ELSE lock[r]]

\* The locks after a turn that takes p in place of sel.
Locks(h, p, sel, take) ==
    [r \in Proc |-> IF take /\ r = p THEN h ELSE IF take /\ r = sel THEN Nobody ELSE lock[r]]

\* One turn of the loop over the table: acquire(&p->lock), compare, and either
\* keep this lock and release the one of the old selection, or release it.
Walk(h) ==
    LET c == hart[h]
        q == proc[c.p]
        dyn == DynamicPriority(q)
        take == q.state = "RUNNABLE" /\ (c.sel = 0 \/ Beats(q, dyn, proc[c.sel], c.prio))
        on == [c EXCEPT !.p = IF @ = NPROC THEN 1 ELSE @ + 1,
                        !.pc = IF c.p < NPROC THEN "walk" ELSE "switch",
                        !.best = IF q.state = "RUNNABLE" /\ dyn < @ THEN dyn ELSE @]
    IN
    /\ c.pc = "walk" /\ lock[c.p] = Nobody
    /\ lock' = Locks(h, c.p, c.sel, take)
    /\ hart' = [hart EXCEPT ![h] = IF take THEN [on EXCEPT !.sel = c.p, !.prio = dyn] ELSE on]
    /\ UNCHANGED <<proc, ticks>>

\* Nothing was selected: the walk begins again.
NoneSelected(h) ==
    /\ hart[h].pc = "switch" /\ hart[h].sel = 0
    /\ hart' = [hart EXCEPT ![h] = Start]
    /\ UNCHANGED <<proc, lock, ticks>>

Switch(h) ==
    LET p == hart[h].sel
        q == proc[p]
    IN
    /\ hart[h].pc = "switch" /\ p # 0
    /\ proc' = [proc EXCEPT ![p] = [q EXCEPT !.state = "RUNNING", !.last = ticks,
                                             !.ts = IF q.ts < MaxSched THEN q.ts + 1 ELSE q.ts]]
    /\ hart' = [hart EXCEPT ![h] = [Start EXCEPT !.pc = "resume", !.sel = p]]
    /\ UNCHANGED <<lock, ticks>>

\* forkret() or the return of sched(): release(&p->lock).
Resume(h) ==
    LET p == hart[h].sel IN
    /\ hart[h].pc = "resume" /\ lock[p] = h
    /\ hart' = [hart EXCEPT ![h].pc = "run"] /\ lock' = [lock EXCEPT ![p] = Nobody]
    /\ UNCHANGED <<proc, ticks>>

(***************************************************************************)
(* What a running process does.  The timer does not preempt it.            *)
(***************************************************************************)
\* acquire(&p->lock), sched(), and the scheduler's release().
Leave(h, s) ==
    LET p == hart[h].sel IN
    /\ lock[p] = Nobody
    /\ proc' = [proc EXCEPT ![p].state = s]
    /\ hart' = [hart EXCEPT ![h] = Start]
    /\ UNCHANGED <<lock, ticks>>

Sleep(h) == hart[h].pc = "run" /\ Leave(h, "SLEEPING")
Exit(h) == hart[h].pc = "run" /\ hart[h].sel # 1 /\ Leave(h, "ZOMBIE")
Yield(h) == hart[h].pc = "yield" /\ Leave(h, "RUNNABLE")

\* wakeup() by the process on hart h or by an interrupt in its idle loop.
Wakeup(h, q) ==
    /\ hart[h].pc = "run" \/ hart[h] = Start
    /\ lock[q] = Nobody /\ proc[q].state = "SLEEPING"
    /\ proc' = [proc EXCEPT ![q].state = "RUNNABLE"]
    /\ UNCHANGED <<lock, hart, ticks>>

Fork(h, q) ==
    /\ hart[h].pc = "run" /\ lock[q] = Nobody /\ proc[q].state = "UNUSED"
    /\ proc' = [proc EXCEPT ![q] = NewProc(ticks)]
    /\ UNCHANGED <<lock, hart, ticks>>

is_valid_priority(new) == new >= 0 /\ new <= 100

\* set_priority() of process q by the process on hart h.
set_priority(h, q, new) ==
    /\ hart[h].pc = "run" /\ is_valid_priority(new)
    /\ lock[q] = Nobody /\ proc[q].state # "UNUSED"
    /\ proc' = [proc EXCEPT ![q].sp = new]
    /\ hart' = [hart EXCEPT ![h].pc = IF proc[q].sp < new THEN "yield" ELSE "run"]
    /\ UNCHANGED <<lock, ticks>>

\* clockintr() on an idle moment of every p->lock; the walk is in Clock.
Tick ==
    /\ ticks < MaxTicks /\ ticks' = ticks + 1
    /\ \A p \in Proc : lock[p] = Nobody
    /\ proc' = [p \in Proc |->
                  CASE proc[p].state = "RUNNING"  -> [proc[p] EXCEPT !.rt = @ + 1]
                    [] proc[p].state = "SLEEPING" -> [proc[p] EXCEPT !.st = @ + 1]
                    [] OTHER -> proc[p]]
    /\ UNCHANGED <<lock, hart>>

Next ==
    \/ Tick
    \/ \E h \in Hart :
          \/ Walk(h) \/ NoneSelected(h) \/ Switch(h) \/ Resume(h)
          \/ Sleep(h) \/ Exit(h) \/ Yield(h)
          \/ \E q \in Proc :
                Wakeup(h, q) \/ Fork(h, q) \/ \E new \in NewPriority : set_priority(h, q, new)

Spec == Init /\ [][Next]_vars

-----------------------------------------------------------------------------
\* A hart that is about to run or resume a process holds its lock, and that
\* process is in the state the hart left it in: no other hart can take it
\* between the walk that chose it and the switch.
SelectionStable ==
    \A h \in Hart :
        /\ (hart[h].pc \in {"walk", "switch"} /\ hart[h].sel # 0)
              => lock[hart[h].sel] = h /\ proc[hart[h].sel].state = "RUNNABLE"
        /\ hart[h].pc = "resume" => lock[hart[h].sel] = h

\* A RUNNING process is on exactly one hart, and a hart runs no other process.
Runs(h, p) == hart[h].pc \in {"resume", "run", "yield"} /\ hart[h].sel = p
OneHart ==
    \A p \in Proc :
        /\ proc[p].state = "RUNNING" <=> \E h \in Hart : Runs(h, p)
        /\ \A g, h \in Hart : Runs(g, p) /\ Runs(h, p) => g = h

\* A lock is held only for the process a hart has selected: every lock taken
\* during the walk is given back, whichever of the tests was true.
NoLockLeaks ==
    \A p \in Proc : lock[p] # Nobody =>
        hart[lock[p]].sel = p /\ hart[lock[p]].pc \in {"walk", "switch", "resume"}

\* PBS keeps the lock of its selection until the switch, runs a process on one hart,
\* and gives back every other lock that it takes on its walk.
SafeSelection == TypeOK /\ SelectionStable /\ OneHart /\ NoLockLeaks

\* "Schedule/Select the processes with minimum dynamic priority": no process met
\* on the walk had a smaller one.
SelectsMinimum == \A h \in Hart : hart[h].pc = "switch" => hart[h].prio = hart[h].best

\* proc.h on niceness: "what percentage of time the process was sleeping =
\* stime/(stime + rtime) * 10", which lies between 0 and 10.
NicenessIsAShare ==
    \A p \in Proc : proc[p].state = "RUNNABLE" => Niceness(proc[p]) \in 0..10

\* "In case the priority of the process increases(the value is lower than
\* before), then rescheduling should be done."
RaiseReschedules ==
    [][(\E p \in Proc : proc'[p].sp < proc[p].sp) =>
           \E h \in Hart : hart[h].pc = "run" /\ hart'[h].pc = "yield"]_vars
=============================================================================
