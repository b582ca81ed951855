-------------------------------- MODULE Mlfq --------------------------------
(* The scheduler of the MLFQ build (proc.c, #ifdef MLFQ): its queues, the    *)
(* scheduler's loop, the pushes of fork(), wakeup() and kill(), and what a   *)
(* clock tick does to the queues.  No lock protects the queues, so one step  *)
(* is one turn of a loop over entries, one lock operation, or one reading or *)
(* writing of a size, and other harts and interrupts come in between.        *)
EXTENDS Integers, FiniteSets, FiniteSetsExt

CONSTANTS
    Hart, Hart0, Nobody,   \* the harts, the one that takes clockintr(), and none
    NPROC, NoProc,         \* slots of the process table, 1..NPROC; a null pointer
    NQ,                    \* number of queues (5)
    UINT                   \* 2^32, the number of values of an unsigned int

Proc == 1..NPROC
Q == 0..NQ - 1

MlfqAssumption ==
    /\ Hart0 \in Hart /\ Nobody \notin Hart /\ NoProc \notin Proc
    /\ NPROC \in Nat \ {0} /\ NQ \in Nat \ {0} /\ UINT \in Nat /\ UINT > NQ * NPROC

VARIABLES
    state,    \* p->state
    lock,     \* hart that holds p->lock
    cq,       \* p->cqueue; -1 is the unsigned 2^32 - 1
    entry,    \* MLFQ_queue, [i][j] at place i * NPROC + j
    size,     \* queue_size
    sched,    \* the scheduler of hart h, and the process that it has switched to
    kern,     \* a push or a clock interrupt of hart h, above the scheduler or that process
    dead      \* harts that have panicked

vars == <<state, lock, cq, entry, size, sched, kern, dead>>

\* i, j: the loops' variables; lk: the process whose lock acquire() is called for;
\* sel: selected_proc; p, s, k: remove_from_queue()'s argument, size and index, and
\* then: where it returns to.
Pass == [pc |-> "clean", i |-> 0, j |-> 0, lk |-> NoProc, sel |-> NoProc,
         p |-> NoProc, s |-> 0, k |-> 0, then |-> "clean"]
\* p, q, s, i, j: push_to_queue()'s arguments and variables, or a clock interrupt's.
NoKern == [pc |-> "none", p |-> NoProc, q |-> 0, s |-> 0, i |-> 0, j |-> 0]

TypeOK ==
    LET Ptr == Proc \cup {NoProc} Num == 0..UINT Size == -UINT..UINT IN
    /\ state \in [Proc -> {"UNUSED", "RUNNABLE", "RUNNING", "SLEEPING", "ZOMBIE"}]
    /\ lock \in [Proc -> Hart \cup {Nobody}] /\ cq \in [Proc -> Q \cup {-1}]
    /\ entry \in [0..NQ * NPROC - 1 -> Ptr] /\ size \in [Q -> 0..UINT - 1]
    /\ sched \in [Hart -> [pc : {"clean", "cleanlock", "cleanread", "cleanout", "remove", "find", "shift",
                                 "dec", "age", "select", "sellock", "selread", "decide", "switch", "run",
                                 "back"},
                           i : 0..NQ, j : Num, lk : Ptr, sel : Ptr, p : Ptr, s : Size, k : Num,
                           then : {"clean", "age", "select"}]]
    /\ kern \in [Hart -> [pc : {"none", "read", "search", "store", "inc", "queues", "queuelock", "queueread",
                                "procs"},
                          p : Ptr, q : Q, s : Size, i : 0..NPROC + NQ, j : Num]]
    /\ dead \subseteq Hart

\* userinit() has made the first process RUNNABLE and pushed it.
Init ==
    /\ state = [p \in Proc |-> IF p = 1 THEN "RUNNABLE" ELSE "UNUSED"]
    /\ lock = [p \in Proc |-> Nobody]
    /\ cq = [p \in Proc |-> IF p = 1 THEN 0 ELSE -1]
    /\ entry = [n \in 0..NQ * NPROC - 1 |-> IF n = 0 THEN 1 ELSE NoProc]
    /\ size = [q \in Q |-> IF q = 0 THEN 1 ELSE 0]
    /\ sched = [h \in Hart |-> Pass] /\ kern = [h \in Hart |-> NoKern] /\ dead = {}

\* MLFQ_queue[i][j]; j = NPROC is the first entry of the next queue.
At(i, j) == IF i * NPROC + j \in DOMAIN entry THEN entry[i * NPROC + j] ELSE NoProc

\* A store; a place outside of the array belongs to something else.
Store(n, p) == entry' = IF n \in DOMAIN entry THEN [entry EXCEPT ![n] = p] ELSE entry

\* int s = queue_size[i]: a size that has wrapped around is negative.
AsInt(u) == IF 2 * u < UINT THEN u ELSE u - UINT

\* A page fault on a null pointer, or panic(): the hart keeps its locks and its process,
\* and what it was doing does not matter any more.
Stops(h) ==
    /\ dead' = dead \cup {h} /\ kern' = [kern EXCEPT ![h] = NoKern]
    /\ sched' = [sched EXCEPT ![h] = IF @.pc = "run" THEN @ ELSE Pass]
Dies(h) == Stops(h) /\ UNCHANGED <<state, lock, cq, entry, size>>

InSched(h, pc) == h \notin dead /\ kern[h].pc = "none" /\ sched[h].pc = pc
InKern(h, pc) == h \notin dead /\ kern[h].pc = pc

Free(p) == lock[p] = Nobody
Holds(h) == \E p \in Proc : lock[p] = h

(***************************************************************************)
(* The scheduler.  Both loops over the queues read the entry, wait for the *)
(* lock it leads to, and read the entry again.                             *)
(***************************************************************************)
Goto(h, pc) == sched' = [sched EXCEPT ![h].pc = pc]
NextEntry(h, pc) == sched' = [sched EXCEPT ![h].pc = pc, ![h].j = @ + 1]

\* The next queue with entries after queue i: the sizes of empty ones are read in one
\* step, as only queue 0 ever has entries (OneQueue).
NextQueue(i) == Min({NQ} \cup {q \in Q : q > i /\ size[q] > 0})

\* The tests of a loop at pc; lockpc waits for the entry's lock, end follows the last queue.
Scan(h, pc, lockpc, end) ==
    LET x == sched[h] e == At(x.i, x.j) more == x.i < NQ /\ x.j < size[x.i] IN
    /\ InSched(h, pc)
    /\ IF more /\ e = NoProc
       THEN Dies(h)
       ELSE /\ sched' = [sched EXCEPT ![h] =
                    IF more THEN [x EXCEPT !.pc = lockpc, !.lk = e]
                    ELSE IF NextQueue(x.i) = NQ THEN [x EXCEPT !.pc = end, !.i = 0, !.j = 0]
                    ELSE [x EXCEPT !.i = NextQueue(x.i), !.j = 0]]
            /\ UNCHANGED <<state, lock, cq, entry, size, kern, dead>>

Acquire(h, pc, next) ==
    /\ InSched(h, pc) /\ Free(sched[h].lk)
    /\ lock' = [lock EXCEPT ![sched[h].lk] = h]
    /\ sched' = [sched EXCEPT ![h].pc = next, ![h].lk = NoProc]
    /\ UNCHANGED <<state, cq, entry, size, kern, dead>>

CleanScan(h) == Scan(h, "clean", "cleanlock", "age")
CleanLock(h) == Acquire(h, "cleanlock", "cleanread")

\* release() of a lock that the hart does not hold panics.
CleanRead(h) ==
    LET e == At(sched[h].i, sched[h].j) IN
    /\ InSched(h, "cleanread")
    /\ IF e = NoProc \/ lock[e] # h THEN Dies(h)
       ELSE /\ lock' = [lock EXCEPT ![e] = Nobody]
            /\ IF state[e] \in {"ZOMBIE", "SLEEPING"} THEN Goto(h, "cleanout") ELSE NextEntry(h, "clean")
            /\ UNCHANGED <<state, cq, entry, size, kern, dead>>

\* cqueue = -1 and the call of remove_from_queue(): the entry is read once more,
\* and the lock is not held any more.
CallRemove(h, e, then) ==
    /\ cq' = [cq EXCEPT ![e] = -1]
    /\ sched' = [sched EXCEPT ![h].pc = "remove", ![h].p = e, ![h].then = then,
                              ![h].sel = IF then = "select" THEN e ELSE @]
    /\ UNCHANGED <<state, lock, entry, size, kern, dead>>

CleanOut(h) ==
    LET e == At(sched[h].i, sched[h].j) IN
    /\ InSched(h, "cleanout")
    /\ IF e = NoProc THEN Dies(h) ELSE CallRemove(h, e, "clean")

\* Aging, for queues 1 to 4, without locks; whether the entry has waited for more than
\* 20 ticks is left open.
AgeScan(h) ==
    LET x == sched[h] e == At(x.i, x.j) IN
    /\ InSched(h, "age")
    /\ IF x.i = 0 \/ x.j >= size[x.i]
       THEN /\ sched' = [sched EXCEPT ![h] = IF NextQueue(x.i) = NQ
                                             THEN [x EXCEPT !.pc = "select", !.i = 0, !.j = 0]
                                             ELSE [x EXCEPT !.i = NextQueue(x.i), !.j = 0]]
            /\ UNCHANGED <<state, lock, cq, entry, size, kern, dead>>
       ELSE IF e = NoProc THEN Dies(h)
       ELSE \E old \in BOOLEAN :
            IF old THEN CallRemove(h, e, "age")
            ELSE NextEntry(h, "age") /\ UNCHANGED <<state, lock, cq, entry, size, kern, dead>>

SelectScan(h) == Scan(h, "select", "sellock", "decide")
SelectLock(h) == Acquire(h, "sellock", "selread")

\* The lock of a selected process is kept.
SelectRead(h) ==
    LET e == At(sched[h].i, sched[h].j) IN
    /\ InSched(h, "selread")
    /\ IF e # NoProc /\ state[e] = "RUNNABLE" THEN CallRemove(h, e, "select")
       ELSE IF e = NoProc \/ lock[e] # h THEN Dies(h)
       ELSE /\ lock' = [lock EXCEPT ![e] = Nobody] /\ NextEntry(h, "select")
            /\ UNCHANGED <<state, cq, entry, size, kern, dead>>

\* if (!selected_proc) continue; if (selected_proc->state != RUNNABLE) ... continue;
Decide(h) ==
    LET p == sched[h].sel IN
    /\ InSched(h, "decide")
    /\ IF p # NoProc /\ state[p] # "RUNNABLE" /\ lock[p] # h THEN Dies(h)
       ELSE /\ sched' = [sched EXCEPT ![h] = IF p # NoProc /\ state[p] = "RUNNABLE"
                                             THEN [@ EXCEPT !.pc = "switch"] ELSE Pass]
            /\ lock' = IF p # NoProc /\ state[p] # "RUNNABLE" THEN [lock EXCEPT ![p] = Nobody] ELSE lock
            /\ UNCHANGED <<state, cq, entry, size, kern, dead>>

\* swtch(); the process releases its lock, in sched()'s caller or in forkret().
Switch(h) ==
    LET p == sched[h].sel IN
    /\ InSched(h, "switch")
    /\ state' = [state EXCEPT ![p] = "RUNNING"]
    /\ IF lock[p] = h
       THEN lock' = [lock EXCEPT ![p] = Nobody] /\ Goto(h, "run") /\ UNCHANGED <<kern, dead>>
       ELSE Stops(h) /\ UNCHANGED lock
    /\ UNCHANGED <<cq, entry, size>>

\* remove_from_queue(p, i), and what the loops do next; the selection's loop breaks.
Removed(x) ==
    [Pass EXCEPT !.pc = x.then, !.sel = x.sel,
                 !.i = IF x.then = "select" THEN x.i + 1 ELSE x.i,
                 !.j = IF x.then = "select" THEN 0 ELSE x.j + 1]

\* Where remove_from_queue() returns; aging then pushes the process to queue i - 1.
Return(h) ==
    LET x == sched[h] IN
    /\ sched' = [sched EXCEPT ![h] = Removed(x)]
    /\ IF x.then = "age"
       THEN cq' = [cq EXCEPT ![x.p] = x.i - 1]
            /\ kern' = [kern EXCEPT ![h] = [NoKern EXCEPT !.pc = "read", !.p = x.p, !.q = x.i - 1]]
       ELSE UNCHANGED <<cq, kern>>

RemoveStart(h) ==
    LET s == AsInt(size[sched[h].i]) IN
    /\ InSched(h, "remove")
    /\ IF s = 0 THEN Return(h)
       ELSE sched' = [sched EXCEPT ![h].pc = "find", ![h].s = s, ![h].k = 0] /\ UNCHANGED <<cq, kern>>
    /\ UNCHANGED <<state, lock, entry, size, dead>>

RemoveFind(h) ==
    LET x == sched[h] e == At(x.i, x.k) IN
    /\ InSched(h, "find")
    /\ IF x.k < x.s /\ e = NoProc THEN Dies(h)
       ELSE /\ IF x.k >= x.s THEN Return(h)
               ELSE UNCHANGED <<cq, kern>>
                    /\ sched' = [sched EXCEPT ![h] = IF e = x.p THEN [x EXCEPT !.pc = "shift"]
                                                     ELSE [x EXCEPT !.k = @ + 1]]
            /\ UNCHANGED <<state, lock, entry, size, dead>>

RemoveShift(h) ==
    LET x == sched[h] IN
    /\ InSched(h, "shift")
    /\ Store(x.i * NPROC + x.k, At(x.i, x.k + 1))
    /\ sched' = [sched EXCEPT ![h].k = @ + 1, ![h].pc = IF x.k + 1 = x.s THEN "dec" ELSE @]
    /\ UNCHANGED <<state, lock, cq, size, kern, dead>>

\* queue_size[i]--, from the size read at the start or from one read again: the
\* compiler may do either.
RemoveDec(h) ==
    LET x == sched[h] IN
    /\ InSched(h, "dec")
    /\ \E v \in {x.s, size[x.i]} : size' = [size EXCEPT ![x.i] = (v - 1) % UINT]
    /\ Return(h)
    /\ UNCHANGED <<state, lock, entry, dead>>

(***************************************************************************)
(* push_to_queue(p, q): the search for p's pid goes through the first s    *)
(* entries of every queue, s being the size of queue q.                    *)
(***************************************************************************)
Pushing(h, p) == kern' = [kern EXCEPT ![h] = [NoKern EXCEPT !.pc = "read", !.p = p]]

\* The caller's release(&p->lock); aging has not taken it.
PushDone(h) ==
    /\ kern' = [kern EXCEPT ![h] = NoKern]
    /\ lock' = IF lock[kern[h].p] = h THEN [lock EXCEPT ![kern[h].p] = Nobody] ELSE lock

PushRead(h) ==
    LET s == AsInt(size[kern[h].q]) IN
    /\ InKern(h, "read")
    /\ IF s >= NPROC THEN PushDone(h)
       ELSE /\ kern' = [kern EXCEPT ![h].pc = IF s <= 0 THEN "store" ELSE "search", ![h].s = s]
            /\ UNCHANGED lock
    /\ UNCHANGED <<state, cq, entry, size, sched, dead>>

PushSearch(h) ==
    LET x == kern[h] e == At(x.j, x.i) IN
    /\ InKern(h, "search")
    /\ IF e = NoProc THEN Dies(h)
       ELSE /\ IF e = x.p THEN PushDone(h)
               ELSE /\ kern' = [kern EXCEPT ![h] =
                            IF x.i + 1 < x.s THEN [x EXCEPT !.i = @ + 1]
                            ELSE IF x.j + 1 < NQ THEN [x EXCEPT !.i = 0, !.j = @ + 1]
                            ELSE [x EXCEPT !.pc = "store"]]
                    /\ UNCHANGED lock
            /\ UNCHANGED <<state, cq, entry, size, sched, dead>>

\* With s = -1 the store is to the word before the queue.
PushStore(h) ==
    LET x == kern[h] IN
    /\ InKern(h, "store")
    /\ Store(x.q * NPROC + x.s, x.p)
    /\ kern' = [kern EXCEPT ![h].pc = "inc"]
    /\ UNCHANGED <<state, lock, cq, size, sched, dead>>

PushInc(h) ==
    LET x == kern[h] IN
    /\ InKern(h, "inc")
    /\ \E v \in {x.s, size[x.q]} : size' = [size EXCEPT ![x.q] = (v + 1) % UINT]
    /\ PushDone(h)
    /\ UNCHANGED <<state, cq, entry, sched, dead>>

\* Interrupts are on in hart h, or it runs a process in the kernel: no lock is held.
Interruptible(h) ==
    /\ h \notin dead /\ kern[h].pc = "none" /\ ~Holds(h)
    /\ sched[h].pc \notin {"cleanlock", "sellock"}

Running(h, p) == InSched(h, "run") /\ sched[h].sel = p

\* wakeup() and kill(), by a process or by an interrupt.
Wakeup(h, p) ==
    /\ Interruptible(h) /\ ~Running(h, p) /\ Free(p) /\ state[p] = "SLEEPING"
    /\ state' = [state EXCEPT ![p] = "RUNNABLE"] /\ cq' = [cq EXCEPT ![p] = 0]
    /\ lock' = [lock EXCEPT ![p] = h] /\ Pushing(h, p)
    /\ UNCHANGED <<entry, size, sched, dead>>

Fork(h, p) ==
    /\ InSched(h, "run") /\ ~Holds(h) /\ Free(p) /\ state[p] = "UNUSED"
    /\ state' = [state EXCEPT ![p] = "RUNNABLE"] /\ cq' = [cq EXCEPT ![p] = 0]
    /\ lock' = [lock EXCEPT ![p] = h] /\ Pushing(h, p)
    /\ UNCHANGED <<entry, size, sched, dead>>

\* The state is set before the process has its lock and switches (mutant of Leave).
LeaveUnlocked(h, s) ==
    /\ InSched(h, "run") /\ ~Holds(h)
    /\ state' = [state EXCEPT ![sched[h].sel] = s]
    /\ UNCHANGED <<lock, cq, entry, size, sched, kern, dead>>

\* sleep() or exit() up to the scheduler's release() after swtch().
Leave(h, s) ==
    LET p == sched[h].sel IN
    /\ InSched(h, "run") /\ ~Holds(h) /\ Free(p)
    /\ state' = [state EXCEPT ![p] = s] /\ Goto(h, "back")
    /\ UNCHANGED <<lock, cq, entry, size, kern, dead>>

Sleep(h) == Leave(h, "SLEEPING")
Exit(h) == sched[h].sel # 1 /\ Leave(h, "ZOMBIE")

\* The scheduler's second look at the process, under its lock.  To insert it back with
\* cqueue = -1 is push_to_queue(p, -1), outside of the arrays: undefined behaviour, which
\* stops the hart or changes something else.
Back(h) ==
    LET p == sched[h].sel IN
    /\ InSched(h, "back") /\ Free(p)
    /\ \/ state[p] = "RUNNABLE" /\ cq[p] = -1 /\ Dies(h)
       \/ /\ sched' = [sched EXCEPT ![h] = Pass]
          /\ UNCHANGED <<state, lock, cq, entry, size, kern, dead>>

Wait(h, p) ==
    /\ InSched(h, "run") /\ ~Holds(h) /\ Free(p) /\ state[p] = "ZOMBIE"
    /\ state' = [state EXCEPT ![p] = "UNUSED"]
    /\ UNCHANGED <<lock, cq, entry, size, sched, kern, dead>>

(***************************************************************************)
(* clockintr() on hart 0: update_time() goes through the queues, and       *)
(* updatetime() through the process table.                                 *)
(***************************************************************************)
Tick ==
    /\ Interruptible(Hart0) /\ kern' = [kern EXCEPT ![Hart0].pc = "queues"]
    /\ UNCHANGED <<state, lock, cq, entry, size, sched, dead>>

TickScan ==
    LET h == Hart0 x == kern[h] e == At(x.i, x.j) more == x.j < size[x.i] IN
    /\ InKern(h, "queues")
    /\ IF more /\ e = NoProc THEN Dies(h)
       ELSE /\ kern' = [kern EXCEPT ![h] =
                    IF more THEN [x EXCEPT !.pc = "queuelock", !.p = e]
                    ELSE IF NextQueue(x.i) = NQ THEN [x EXCEPT !.pc = "procs", !.i = 1, !.j = 0]
                    ELSE [x EXCEPT !.i = NextQueue(x.i), !.j = 0]]
            /\ UNCHANGED <<state, lock, cq, entry, size, sched, dead>>

TickLock ==
    LET h == Hart0 IN
    /\ InKern(h, "queuelock") /\ Free(kern[h].p)
    /\ lock' = [lock EXCEPT ![kern[h].p] = h] /\ kern' = [kern EXCEPT ![h].pc = "queueread"]
    /\ UNCHANGED <<state, cq, entry, size, sched, dead>>

TickRead ==
    LET h == Hart0 x == kern[h] e == At(x.i, x.j) IN
    /\ InKern(h, "queueread")
    /\ IF e = NoProc \/ lock[e] # h THEN Dies(h)
       ELSE /\ lock' = [lock EXCEPT ![e] = Nobody]
            /\ kern' = [kern EXCEPT ![h].pc = "queues", ![h].p = NoProc, ![h].j = @ + 1]
            /\ UNCHANGED <<state, cq, entry, size, sched, dead>>

\* myproc()->ticks_in_queues[myproc()->cqueue]++, when process p is RUNNING; the
\* hart faults, with p's lock, when it has no process or the index is 2^32 - 1.
IndexFault(p) ==
    /\ state[p] = "RUNNING"
    /\ sched[Hart0].pc # "run" \/ cq[sched[Hart0].sel] = -1

TickProc ==
    LET h == Hart0 p == kern[h].i IN
    /\ InKern(h, "procs") /\ Free(p)
    /\ IF IndexFault(p)
       THEN lock' = [lock EXCEPT ![p] = h] /\ Stops(h)
       ELSE /\ kern' = [kern EXCEPT ![h] = IF p = NPROC THEN NoKern ELSE [@ EXCEPT !.i = p + 1]]
            /\ UNCHANGED <<lock, sched, dead>>
    /\ UNCHANGED <<state, cq, entry, size>>

\* A process becomes RUNNABLE.
Ready == \E h \in Hart, p \in Proc : Wakeup(h, p) \/ Fork(h, p)

clockintr == Tick \/ TickScan \/ TickLock \/ TickRead \/ TickProc

Other ==
    \E h \in Hart :
        \/ CleanScan(h) \/ CleanLock(h) \/ CleanRead(h) \/ CleanOut(h) \/ AgeScan(h)
        \/ SelectScan(h) \/ SelectLock(h) \/ SelectRead(h) \/ Decide(h) \/ Switch(h) \/ Back(h)
        \/ RemoveStart(h) \/ RemoveFind(h) \/ RemoveShift(h) \/ RemoveDec(h)
        \/ PushRead(h) \/ PushSearch(h) \/ PushStore(h) \/ PushInc(h) \/ Sleep(h) \/ Exit(h)
        \/ \E p \in Proc : Wait(h, p)

Next == Ready \/ clockintr \/ Other

Spec == Init /\ [][Next]_vars

-----------------------------------------------------------------------------
\* The queue entries of process p.
Places(p) == {n \in DOMAIN entry : entry[n] = p /\ n % NPROC < size[n \div NPROC]}

\* A process runs on one hart at most, in state RUNNING and with cqueue = -1, although
\* entries change while a hart waits for the lock of the process it has found: a hart that
\* then selects another process does not hold that one's lock, and release() stops it.
\* (So the slice test of usertrap() and kerneltrap(), cqueue_time >= 1 << cqueue, compares
\* with 2^31, and a process is never preempted.)
RunsOnce ==
    \A h \in Hart : sched[h].pc = "run" =>
        /\ state[sched[h].sel] = "RUNNING" /\ cq[sched[h].sel] = -1
        /\ \A g \in Hart \ {h} : sched[g].pc = "run" => sched[g].sel # sched[h].sel

\* Every process is pushed to queue 0, and the other queues have no entries: nothing moves
\* a process down, and aging finds nothing to move up.
OneQueue ==
    /\ \A q \in Q \ {0} : size[q] = 0
    /\ \A n \in DOMAIN entry : n >= NPROC => entry[n] = NoProc

\* Of the processes whose lock is free, the RUNNABLE ones are in the queues exactly once
\* and no other is: "PROCESS IS RUNNABLE AGAIN ... INSERT BACK INTO QUEUE STRUCTURE".
\* Interrupts that push between any two steps of the scheduler do not disturb this on one
\* hart; on two harts it fails.
RunnableQueued ==
    \A p \in Proc : Free(p) => (state[p] = "RUNNABLE" <=> Cardinality(Places(p)) = 1)

\* "Queue is empty": remove_from_queue() takes nothing from an empty queue, so a size does
\* not wrap around.  It fails on two harts.
SizesHold == \A q \in Q : size[q] <= NPROC

\* ticks_in_queues: "ticks spent by the process in each queue".  The element that a clock
\* tick increments is one of the array.  It fails on one hart.
IndexInQueues == \A p \in Proc : InKern(Hart0, "procs") => ~IndexFault(p)

\* "Process already exists in the given queue": the search of push_to_queue() reads
\* entries of the queues and no null pointers.  It fails on one hart.
PushReadsEntries == \A h \in Hart : InKern(h, "search") => At(kern[h].j, kern[h].i) # NoProc
=============================================================================
