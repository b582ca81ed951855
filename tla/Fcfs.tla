-------------------------------- MODULE Fcfs --------------------------------
(* The scheduler of the FCFS build (proc.c, #ifdef FCFS).  Every hart walks *)
(* the process table; for a RUNNABLE slot whose lock it holds it looks      *)
(* through the whole table, without locks, for a process created earlier,   *)
(* and switches to the last one it found.                                   *)
EXTENDS Integers, FiniteSets

CONSTANTS
    Hart,
    Proc,        \* slots of the table, numbered from 1
    Nobody,
    LowPid,      \* processes with a pid up to this one are never preferred (2)
    MaxPid,      \* bound on the number of forks
    MaxTicks     \* bound on ticks

FcfsAssumption ==
    /\ Proc = 1..Cardinality(Proc) /\ Nobody \notin Hart
    /\ LowPid \in Nat /\ MaxPid \in Nat /\ MaxTicks \in Nat

VARIABLES
    state, ctime, pid,     \* p->state, p->ctime, p->pid
    lock,                  \* hart that holds p->lock, or Nobody
    hart,                  \* hart[h]: place in scheduler(), p, next, selected_proc
    all,                   \* history: processes RUNNABLE since h began its search
    ticks, nextpid

vars == <<state, ctime, pid, lock, hart, all, ticks, nextpid>>

NProc == Cardinality(Proc)
Idle(p) == [pc |-> "scan", p |-> p, next |-> 0, sel |-> 0]

TypeOK ==
    /\ state \in [Proc -> {"UNUSED", "RUNNABLE", "RUNNING", "SLEEPING", "ZOMBIE"}]
    /\ ctime \in [Proc -> 0..MaxTicks] /\ pid \in [Proc -> 0..MaxPid]
    /\ lock \in [Proc -> Hart \cup {Nobody}]
    /\ hart \in [Hart -> [pc : {"scan", "search", "switch", "resume", "run", "panic"},
                          p : Proc, next : 0..NProc, sel : 0..NProc]]
    /\ all \in [Hart -> SUBSET Proc]
    /\ ticks \in 0..MaxTicks /\ nextpid \in 1..MaxPid + 1

Init ==
    /\ state = [p \in Proc |-> IF p = 1 THEN "RUNNABLE" ELSE "UNUSED"]
    /\ ctime = [p \in Proc |-> 0] /\ pid = [p \in Proc |-> IF p = 1 THEN 1 ELSE 0]
    /\ lock = [p \in Proc |-> Nobody]
    /\ hart = [h \in Hart |-> Idle(1)]
    /\ all = [h \in Hart |-> {}]
    /\ ticks = 0 /\ nextpid = 2

\* p leaves or enters the set of RUNNABLE processes.
SetState(p, s) ==
    /\ state' = [state EXCEPT ![p] = s]
    /\ all' = [h \in Hart |-> all[h] \ {p}]

After(p) == IF p = NProc THEN 1 ELSE p + 1

(***************************************************************************)
(* scheduler()                                                             *)
(***************************************************************************)
\* acquire(&p->lock) and the test of p->state; a slot that is not RUNNABLE is
\* released at once.
Scan(h) ==
    LET p == hart[h].p IN
    /\ hart[h].pc = "scan" /\ lock[p] = Nobody
    /\ IF state[p] = "RUNNABLE"
       THEN /\ lock' = [lock EXCEPT ![p] = h]
            /\ hart' = [hart EXCEPT ![h] = [pc |-> "search", p |-> p, next |-> 1, sel |-> p]]
            /\ all' = [all EXCEPT ![h] = {q \in Proc : state[q] = "RUNNABLE"}]
       ELSE hart' = [hart EXCEPT ![h] = Idle(After(p))] /\ UNCHANGED <<lock, all>>
    /\ UNCHANGED <<state, ctime, pid, ticks, nextpid>>

\* The comparison the wrong way round (mutant of Earlier).
EarlierLater(next, p) == state[next] = "RUNNABLE" /\ pid[next] > LowPid /\ ctime[next] > ctime[p]

Earlier(next, p) == state[next] = "RUNNABLE" /\ pid[next] > LowPid /\ ctime[next] < ctime[p]

\* One turn of the inner loop; it holds p->lock and not next->lock.
Search(h) ==
    LET c == hart[h] IN
    /\ c.pc = "search"
    /\ hart' = [hart EXCEPT ![h] =
                  [c EXCEPT !.sel = IF Earlier(c.next, c.p) THEN c.next ELSE @,
                            !.next = IF @ = NProc THEN 0 ELSE @ + 1,
                            !.pc = IF c.next = NProc THEN "switch" ELSE @]]
    /\ UNCHANGED <<state, ctime, pid, lock, all, ticks, nextpid>>

\* p = selected_proc; p->state = RUNNING; swtch().
Switch(h) ==
    LET c == hart[h] IN
    /\ c.pc = "switch"
    /\ state' = [state EXCEPT ![c.sel] = "RUNNING"]
    /\ all' = [g \in Hart |-> IF g = h THEN {} ELSE all[g] \ {c.sel}]
    /\ hart' = [hart EXCEPT ![h] = [pc |-> "resume", p |-> c.sel, next |-> 0, sel |-> 0]]
    /\ UNCHANGED <<ctime, pid, lock, ticks, nextpid>>

\* forkret(), or the return of sched() in sleep(): release(&p->lock), which
\* panics on a hart that does not hold the lock.
Resume(h) ==
    LET p == hart[h].p IN
    /\ hart[h].pc = "resume"
    /\ IF lock[p] = h
       THEN hart' = [hart EXCEPT ![h].pc = "run"] /\ lock' = [lock EXCEPT ![p] = Nobody]
       ELSE hart' = [hart EXCEPT ![h].pc = "panic"] /\ UNCHANGED lock
    /\ UNCHANGED <<state, ctime, pid, all, ticks, nextpid>>

(***************************************************************************)
(* What a running process does; it leaves the hart only of its own accord, *)
(* as the timer does not preempt it in this build.  The scheduler goes on  *)
(* behind the slot it has run.                                             *)
(***************************************************************************)
Leave(h, s) ==
    LET p == hart[h].p IN
    /\ hart[h].pc = "run" /\ lock[p] = Nobody
    /\ SetState(p, s)
    /\ hart' = [hart EXCEPT ![h] = Idle(After(p))]
    /\ UNCHANGED <<ctime, pid, lock, ticks, nextpid>>

Sleep(h) == Leave(h, "SLEEPING")

Exit(h) == hart[h].p # 1 /\ Leave(h, "ZOMBIE")

\* wakeup() of a sleeper by the process on hart h.
Wakeup(h, q) ==
    /\ hart[h].pc = "run" /\ q # hart[h].p
    /\ lock[q] = Nobody /\ state[q] = "SLEEPING"
    /\ SetState(q, "RUNNABLE")
    /\ UNCHANGED <<ctime, pid, lock, hart, ticks, nextpid>>

Fork(h, q) ==
    /\ hart[h].pc = "run" /\ nextpid <= MaxPid
    /\ lock[q] = Nobody /\ state[q] = "UNUSED"
    /\ SetState(q, "RUNNABLE")
    /\ ctime' = [ctime EXCEPT ![q] = ticks] /\ pid' = [pid EXCEPT ![q] = nextpid]
    /\ nextpid' = nextpid + 1
    /\ UNCHANGED <<lock, hart, ticks>>

\* wait() frees the slot of a zombie.
Wait(h, q) ==
    /\ hart[h].pc = "run" /\ q # hart[h].p
    /\ lock[q] = Nobody /\ state[q] = "ZOMBIE"
    /\ SetState(q, "UNUSED")
    /\ pid' = [pid EXCEPT ![q] = 0]
    /\ UNCHANGED <<ctime, lock, hart, ticks, nextpid>>

Tick ==
    /\ ticks < MaxTicks /\ ticks' = ticks + 1
    /\ UNCHANGED <<state, ctime, pid, lock, hart, all, nextpid>>

Next ==
    \/ Tick
    \/ \E h \in Hart :
          \/ Scan(h) \/ Search(h) \/ Switch(h) \/ Resume(h) \/ Sleep(h) \/ Exit(h)
          \/ \E q \in Proc : Wakeup(h, q) \/ Fork(h, q) \/ Wait(h, q)

Spec == Init /\ [][Next]_vars

-----------------------------------------------------------------------------
\* The processes that were RUNNABLE during the whole search of h, may be preferred and
\* were created before the process p that the outer loop stands at.
Candidates(h) == {q \in all[h] : pid[q] > LowPid /\ ctime[q] < ctime[hart[h].p]}

\* The inner loop selects the last of the processes created before p, and p itself if
\* there is none, although it reads state and ctime without the locks: it passes
\* nobody that was RUNNABLE all the time, and prefers nobody younger.
SelectsLastEarlier ==
    \A h \in Hart : hart[h].pc = "switch" =>
        LET c == hart[h] IN
        /\ c.sel = c.p => Candidates(h) = {}
        /\ c.sel \in all[h] \ {c.p} => c.sel \in Candidates(h)
        /\ c.sel # c.p => \A q \in Candidates(h) : q <= c.sel

\* MODIFICATIONS.md: "Selects the process with the lowest creation time", which the
\* code does not: it compares with p and not with the selection so far.
SelectsOldest ==
    \A h \in Hart : (hart[h].pc = "switch" /\ hart[h].sel \in all[h]) =>
        \A q \in Candidates(h) : ctime[hart[h].sel] <= ctime[q]

\* forkret(): "Still holding p->lock from scheduler."  The hart that switches to
\* a process holds its lock.
HoldsLock == \A h \in Hart : hart[h].pc = "resume" => lock[hart[h].p] = h
=============================================================================
