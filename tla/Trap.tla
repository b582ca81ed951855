-------------------------------- MODULE Trap --------------------------------
(* Traps in the RR build (trap.c, with sched() and forkret() of proc.c): the   *)
(* registers of each hart that a trap changes, the trap frame and the kernel   *)
(* stack of each process, which moves between harts when it yields or sleeps.  *)
(* The hardware's part of a trap and of sret is external.  A step with         *)
(* interrupts off cannot be interrupted on its hart, so that code is one step. *)
(* What is not read again (cause, goal, trap frame) is cleared.                *)
EXTENDS Integers

CONSTANTS
    Hart, Proc, Nobody

ASSUME TrapAssumption == Nobody \notin Hart \cup Proc

VARIABLES
    h,        \* h[x]: user mode, SIE, SPP, SPIE, sepc, stvec, and the process cur on hart x
    p,        \* p[q]: place at in the kernel (or "user"), cause of the trap, kerneltrap's
              \* place kt and saved registers, intena, trap frame (epc, hartid), user pc
    killed,
    asleep    \* the processes SLEEPING in a system call

vars == <<h, p, killed, asleep>>

\* The user program is a loop of two instructions.
Pc == {"even", "odd"}
Inc(pc) == IF pc = "even" THEN "odd" ELSE "even"
Place == {"user", "enter", "syscall", "after", "ret", "frame", "sret", "exited"}

TypeOK ==
    /\ h \in [Hart -> [user : BOOLEAN, sie : BOOLEAN, spp : {"U", "S"}, spie : BOOLEAN,
                       sepc : Pc \cup Place \cup {"scheduler"}, stvec : {"uservec", "kernelvec"},
                       cur : Proc \cup {Nobody}]]
    /\ p \in [Proc -> [at : Place \cup {"scheduler"}, cause : {"ecall", "timer", "device"}, kt : {"none", "trap", "away", "back"},
                       sepc : Pc \cup Place \cup {"scheduler"}, spp : {"U", "S"}, spie : BOOLEAN,
                       intena : BOOLEAN, epc : Pc, hartid : Hart \cup {Nobody}, pc : Pc, goal : Pc]]
    /\ killed \in [Proc -> BOOLEAN] /\ asleep \subseteq Proc

\* Harts are in their schedulers; new processes begin in forkret(), with the
\* scheduler's interrupt state.
Init ==
    /\ h = [x \in Hart |-> [user |-> FALSE, sie |-> TRUE, spp |-> "S", spie |-> TRUE, sepc |-> "scheduler",
                            stvec |-> "kernelvec", cur |-> Nobody]]
    /\ \E on \in BOOLEAN :
          p = [q \in Proc |-> [at |-> "ret", cause |-> "ecall", kt |-> "none", sepc |-> "even", spp |-> "S", spie |-> TRUE,
                               intena |-> on, epc |-> "even", hartid |-> Nobody, pc |-> "even", goal |-> "even"]]
    /\ killed = [q \in Proc |-> FALSE] /\ asleep = {}

\* Process q runs on hart x, at a place of the kernel and not inside kerneltrap().
On(x, q) == h[x].cur = q
At(x, q, l) == On(x, q) /\ ~h[x].user /\ p[q].at = l /\ p[q].kt = "none"
SetP(q, rec) == p' = [p EXCEPT ![q] = rec]
SetH(x, rec) == h' = [h EXCEPT ![x] = rec]

\* sched() to the scheduler, which enables interrupts.
Away(x, rec) == SetH(x, [rec EXCEPT !.cur = Nobody, !.sie = TRUE])

(***************************************************************************)
(* Hardware                                                                *)
(***************************************************************************)
\* The trap of hart x, from a place of user or kernel code.
Trapped(x, from, spp) == [h[x] EXCEPT !.user = FALSE, !.sie = FALSE, !.spie = h[x].sie, !.spp = spp, !.sepc = from]

UserTrap(x, q, cause) ==
    /\ On(x, q) /\ h[x].user
    /\ SetH(x, Trapped(x, p[q].pc, "U"))
    /\ SetP(q, [p[q] EXCEPT !.at = "enter", !.cause = cause, !.hartid = Nobody, !.goal = IF cause = "ecall" THEN Inc(p[q].pc) ELSE p[q].pc])
    /\ UNCHANGED <<killed, asleep>>

KernelInterrupt(x, q) ==
    /\ On(x, q) /\ ~h[x].user /\ h[x].sie
    /\ SetH(x, Trapped(x, p[q].at, "S"))
    /\ SetP(q, [p[q] EXCEPT !.kt = "trap"])
    /\ UNCHANGED <<killed, asleep>>

\* An interrupt in the scheduler, from its start to its end: the registers change.
SchedulerInterrupt(x) ==
    /\ h[x].cur = Nobody
    /\ SetH(x, [h[x] EXCEPT !.sepc = "scheduler", !.spp = "S", !.spie = TRUE])
    /\ UNCHANGED <<p, killed, asleep>>

(***************************************************************************)
(* usertrap() and usertrapret()                                            *)
(***************************************************************************)
Exit(x, q, rec) == SetP(q, [p[q] EXCEPT !.at = "exited", !.pc = "even", !.goal = "even"]) /\ Away(x, rec)

\* The return address of a system call is the call itself (mutant of NextPc).
NextPcSame(q, pc) == pc

\* The instruction after the ecall; an interrupted one is done again.
NextPc(q, pc) == IF p[q].cause = "ecall" THEN Inc(pc) ELSE pc

usertrap(x, q) ==
    LET rec == [h[x] EXCEPT !.stvec = "kernelvec"]
        ecall == p[q].cause = "ecall"
    IN
    /\ At(x, q, "enter") /\ h[x].spp = "U"
    /\ IF ecall /\ killed[q] THEN Exit(x, q, rec)
       ELSE /\ SetP(q, [p[q] EXCEPT !.epc = NextPc(q, h[x].sepc), !.at = IF ecall THEN "syscall" ELSE "after"])
            /\ SetH(x, [rec EXCEPT !.sie = ecall])
    /\ UNCHANGED <<killed, asleep>>

\* The system call is done, or it sleeps on the way; a kill() may have come since it
\* looked at p->killed, if it does.
Served(x, q) ==
    /\ At(x, q, "syscall")
    /\ SetP(q, [p[q] EXCEPT !.at = "after"])
    /\ UNCHANGED <<h, killed, asleep>>

Sleep(x, q) ==
    /\ At(x, q, "syscall")
    /\ SetP(q, [p[q] EXCEPT !.intena = h[x].sie])
    /\ Away(x, h[x])
    /\ asleep' = asleep \cup {q}
    /\ UNCHANGED killed

syscall(x, q) == Served(x, q) \/ Sleep(x, q)

\* A killed process goes back to its program (mutant of MustExit).
MustExitNot(q) == FALSE

MustExit(q) == killed[q]

After(x, q) ==
    /\ At(x, q, "after")
    /\ \/ MustExit(q) /\ Exit(x, q, h[x])
       \/ /\ ~MustExit(q) /\ p[q].cause = "timer"
          /\ SetP(q, [p[q] EXCEPT !.at = "ret", !.cause = "ecall", !.intena = h[x].sie]) /\ Away(x, h[x])
       \/ ~MustExit(q) /\ p[q].cause # "timer" /\ SetP(q, [p[q] EXCEPT !.at = "ret", !.cause = "ecall"]) /\ UNCHANGED h
    /\ UNCHANGED <<killed, asleep>>

IntrOff(x) == [h[x] EXCEPT !.sie = FALSE]

usertrapret(x, q) ==
    /\ At(x, q, "ret")
    /\ SetH(x, IntrOff(x))
    /\ SetP(q, [p[q] EXCEPT !.at = "frame"])
    /\ UNCHANGED <<killed, asleep>>

\* The rest of usertrapret(): the vector, the trap frame and the registers for sret.
Frame(x, q) ==
    /\ At(x, q, "frame")
    /\ SetH(x, [h[x] EXCEPT !.stvec = "uservec", !.spp = "U", !.spie = TRUE, !.sepc = p[q].epc])
    /\ SetP(q, [p[q] EXCEPT !.at = "sret", !.hartid = x])
    /\ UNCHANGED <<killed, asleep>>

\* userret: the program goes on where sepc says.
userret(x, q) ==
    /\ At(x, q, "sret")
    /\ SetH(x, [h[x] EXCEPT !.user = TRUE, !.sie = h[x].spie, !.sepc = "even"])
    /\ SetP(q, [p[q] EXCEPT !.at = "user", !.pc = h[x].sepc, !.epc = "even", !.goal = "even"])
    /\ UNCHANGED <<killed, asleep>>

(***************************************************************************)
(* kerneltrap(), and the scheduler                                         *)
(***************************************************************************)
\* The registers are saved; after a timer interrupt the process yields.
kerneltrap(x, q, timer) ==
    LET saved == [p[q] EXCEPT !.sepc = h[x].sepc, !.spp = h[x].spp, !.spie = h[x].spie] IN
    /\ On(x, q) /\ p[q].kt = "trap"
    /\ IF timer /\ p[q].at # "exited" THEN SetP(q, [saved EXCEPT !.kt = "away", !.intena = h[x].sie]) /\ Away(x, h[x])
       ELSE SetP(q, [saved EXCEPT !.kt = "back"]) /\ UNCHANGED h
    /\ UNCHANGED <<killed, asleep>>

Restored(x, q) == [h[x] EXCEPT !.sepc = p[q].sepc, !.spp = p[q].spp, !.spie = p[q].spie]

\* The end of kerneltrap() and the sret of kernelvec.
KernelReturn(x, q) ==
    LET r == Restored(x, q) IN
    /\ On(x, q) /\ p[q].kt = "back"
    /\ SetH(x, [r EXCEPT !.user = r.spp = "U", !.sie = r.spie])
    /\ SetP(q, [p[q] EXCEPT !.kt = "none", !.at = r.sepc, !.sepc = "even", !.spp = "S", !.spie = TRUE])
    /\ UNCHANGED <<killed, asleep>>

\* scheduler(): any RUNNABLE process; it goes on with its own intena.
Dispatch(x, q) ==
    /\ h[x].cur = Nobody /\ p[q].at # "exited" /\ q \notin asleep /\ \A y \in Hart : h[y].cur # q
    /\ SetH(x, [h[x] EXCEPT !.cur = q, !.sie = p[q].intena])
    /\ SetP(q, [p[q] EXCEPT !.kt = IF @ = "away" THEN "back" ELSE @])
    /\ UNCHANGED <<killed, asleep>>

\* kill() wakes a process that is SLEEPING at that moment.
Kill(q) ==
    /\ ~killed[q] /\ p[q].at # "exited"
    /\ killed' = [killed EXCEPT ![q] = TRUE]
    /\ asleep' = asleep \ {q}
    /\ UNCHANGED <<h, p>>

\* wakeup() on the channel of q.
Wakeup(q) ==
    /\ q \in asleep
    /\ asleep' = asleep \ {q}
    /\ UNCHANGED <<h, p, killed>>

Kernel(x, q) ==
    \/ usertrap(x, q) \/ syscall(x, q) \/ After(x, q) \/ usertrapret(x, q) \/ Frame(x, q) \/ userret(x, q)
    \/ KernelReturn(x, q) \/ \E timer \in BOOLEAN : kerneltrap(x, q, timer)

\* A step of usertrap(), its system call or usertrapret().
KernelStep(x, q) ==
    \/ usertrap(x, q) \/ After(x, q) \/ usertrapret(x, q) \/ Frame(x, q) \/ userret(x, q) \/ syscall(x, q)

Next ==
    \/ \E x \in Hart : SchedulerInterrupt(x)
    \/ \E x \in Hart, q \in Proc :
          \/ KernelInterrupt(x, q) \/ Kernel(x, q) \/ Dispatch(x, q)
          \/ \E cause \in {"ecall", "timer", "device"} : UserTrap(x, q, cause)
    \/ \E q \in Proc : Kill(q) \/ Wakeup(q)

Spec == Init /\ [][Next]_vars

\* Harts run, and switch to every process that is RUNNABLE; among the interrupts of a
\* program is again and again the timer's, and interrupts leave the kernel time for its
\* own steps.  Nothing says that a sleeping process is ever woken.
FairSpec ==
    /\ Spec
    /\ \A q \in Proc :
          /\ WF_vars(\E x \in Hart : KernelReturn(x, q) \/ \E timer \in BOOLEAN : kerneltrap(x, q, timer))
          /\ SF_vars(\E x \in Hart : KernelStep(x, q))
          /\ SF_vars(\E x \in Hart : UserTrap(x, q, "timer"))
          /\ SF_vars(\E x \in Hart : Dispatch(x, q))

-----------------------------------------------------------------------------
\* The panics of usertrap() and kerneltrap() are unreachable: a hart in user mode
\* traps to uservec with its own number in the trap frame, a hart in the kernel
\* with interrupts on traps to kernelvec, and SPP tells which it was.
RightVector ==
    \A x \in Hart, q \in Proc :
        On(x, q) =>
            /\ h[x].user => h[x].stvec = "uservec" /\ h[x].sie /\ p[q].hartid = x
            /\ ~h[x].user /\ h[x].sie => h[x].stvec = "kernelvec"
            /\ At(x, q, "enter") => h[x].spp = "U"
            /\ p[q].kt = "trap" => h[x].spp = "S" /\ ~h[x].sie

\* A program goes on behind its system call, or with the instruction that was
\* interrupted, whatever traps the kernel took meanwhile and on whichever hart.
UserResumes == \A x \in Hart, q \in Proc : At(x, q, "sret") => h[x].sepc = p[q].goal

\* kerneltrap() returns to the kernel code that was interrupted, although its
\* yield() can end on another hart whose registers hold another trap.
ReturnStep ==
    \A x \in Hart, q \in Proc :
        KernelReturn(x, q) => p'[q].at = p[q].at /\ ~h'[x].user /\ h'[x].sie

\* A trap is taken through the right vector, and the program or the kernel code that
\* was interrupted goes on where it should, on whichever hart.
TrapsReturn == [](TypeOK /\ RightVector /\ UserResumes) /\ [][ReturnStep]_vars

\* A killed process that is not inside a system call exits, also when its program never
\* calls the kernel; inside one, it exits unless the call goes to sleep after the kill().
KilledExits ==
    \A q \in Proc :
        /\ killed[q] /\ p[q].at # "syscall" ~> p[q].at = "exited"
        /\ killed[q] /\ q \notin asleep ~> p[q].at = "exited" \/ q \in asleep
=============================================================================
