----------------------------- MODULE TrapProofs -----------------------------
(***************************************************************************)
(* Proofs about Trap, for any number of harts and processes: traps go to   *)
(* the right vector and return to where they were taken, although a        *)
(* process changes harts inside kerneltrap() and in its system calls.      *)
(***************************************************************************)
EXTENDS Trap, TLAPS

KernelPc == Pc \cup Place \cup {"scheduler"}
HartRecord ==
    [user : BOOLEAN, sie : BOOLEAN, spp : {"U", "S"}, spie : BOOLEAN, sepc : KernelPc,
     stvec : {"uservec", "kernelvec"}, cur : Proc \cup {Nobody}]
ProcRecord ==
    [at : Place \cup {"scheduler"}, cause : {"ecall", "timer", "device"},
     kt : {"none", "trap", "away", "back"}, sepc : KernelPc, spp : {"U", "S"}, spie : BOOLEAN,
     intena : BOOLEAN, epc : Pc, hartid : Hart \cup {Nobody}, pc : Pc, goal : Pc]

HartOK == h \in [Hart -> HartRecord]
ProcOK == p \in [Proc -> ProcRecord]
KilledOK == killed \in [Proc -> BOOLEAN]
AsleepOK == asleep \subseteq Proc

\* Where interrupts may be on in the kernel.
Inner == {"syscall", "after", "ret"}

\* A process is on one hart.
Alone == \A x, y \in Hart : h[x].cur = h[y].cur /\ h[x].cur # Nobody => x = y

\* A hart in its scheduler.
Idle == \A x \in Hart : h[x].cur = Nobody => ~h[x].user /\ h[x].stvec = "kernelvec"

\* The registers c of hart x say where its process, with the record s, is.
Control(x, c, s) ==
    /\ s.at \in {"user", "enter", "frame", "sret"} \cup Inner
    /\ c.user <=> s.at = "user"
    /\ s.at \in {"user", "enter", "sret"} <=> c.stvec = "uservec"
    /\ s.at = "user" => c.sie
    /\ s.at \in {"enter", "frame", "sret"} => ~c.sie
    /\ s.at \in {"user", "sret"} => s.hartid = x
    /\ s.kt # "away"
    /\ s.kt # "none" => s.at \in Inner /\ ~c.sie
Registers(c, s) ==
    /\ s.kt = "trap" => c.spp = "S" /\ c.spie /\ c.sepc = s.at
    /\ s.at = "enter" => c.spp = "U" /\ c.sepc = s.pc
    /\ s.at = "sret" => c.spp = "U" /\ c.spie /\ c.sepc = s.epc
Running ==
    \A x \in Hart, q \in Proc : On(x, q) => Control(x, h[x], p[q]) /\ Registers(h[x], p[q])

\* What kerneltrap() has saved on the stack.
Saved(s) ==
    s.kt \in {"away", "back"} =>
        /\ s.at \in Inner /\ s.sepc = s.at /\ s.spp = "S" /\ s.spie
        /\ s.kt = "away" => ~s.intena

\* The trap frame holds the place to return to.
Goal(s) ==
    /\ s.at \in {"frame", "sret"} \cup Inner => s.epc = s.goal
    /\ s.at = "enter" => s.goal = IF s.cause = "ecall" THEN Inc(s.pc) ELSE s.pc
Stacks == \A q \in Proc : Saved(p[q]) /\ Goal(p[q])

\* A process that is on no hart.
Left(s) == s.kt = "away" \/ (s.kt = "none" /\ s.at \in {"syscall", "ret", "exited"})
Waiting == \A q \in Proc : (\A x \in Hart : ~On(x, q)) => Left(p[q])

IInv == HartOK /\ ProcOK /\ KilledOK /\ Alone /\ Idle /\ Running /\ Stacks /\ Waiting

-----------------------------------------------------------------------------
\* The invariant has the types.
LEMMA TypeParts == IInv /\ AsleepOK => TypeOK
BY DEF AsleepOK, IInv, HartOK, ProcOK, KilledOK, TypeOK, HartRecord, ProcRecord, KernelPc

\* A step of process q on hart x that leaves them with the records c and s: what c and s
\* say of each other is all there is to show.
LEMMA StepOn ==
    ASSUME IInv, NEW x \in Hart, NEW q \in Proc, On(x, q),
           NEW c \in HartRecord, NEW s \in ProcRecord, Saved(s), Goal(s),
           \/ c.cur = q /\ Control(x, c, s) /\ Registers(c, s)
           \/ c.cur = Nobody /\ ~c.user /\ c.stvec = "kernelvec" /\ Left(s),
           h' = [h EXCEPT ![x] = c], p' = [p EXCEPT ![q] = s], UNCHANGED killed
    PROVE  IInv'
<1>1. HartOK' /\ ProcOK' /\ KilledOK'
  BY DEF IInv, HartOK, ProcOK, KilledOK
<1>2. /\ h'[x] = c /\ \A y \in Hart : y # x => h'[y] = h[y]
      /\ p'[q] = s /\ \A r \in Proc : r # q => p'[r] = p[r]
  BY DEF IInv, HartOK, ProcOK
<1>3. Nobody \notin Proc
  BY TrapAssumption
<1>4. \A y \in Hart : y # x => h[y].cur # q
  BY <1>3 DEF IInv, Alone, On
<1>5. Alone'
  BY <1>2, <1>3, <1>4 DEF IInv, Alone, On
<1>6. Idle'
  BY <1>2, <1>3 DEF IInv, Idle
<1>7. Running'
  <2> SUFFICES ASSUME NEW y \in Hart, NEW r \in Proc, h'[y].cur = r
               PROVE  Control(y, h'[y], p'[r]) /\ Registers(h'[y], p'[r])
    BY DEF Running, On
  <2>1. CASE y = x
    BY <1>2, <1>3, <2>1
  <2>2. CASE y # x
    BY <1>2, <1>4, <2>2 DEF IInv, Running, On
  <2> QED
    BY <2>1, <2>2
<1>8. Stacks'
  BY <1>2 DEF IInv, Stacks
<1>9. Waiting'
  BY <1>2, <1>3 DEF IInv, Waiting, On
<1> QED
  BY <1>1, <1>5, <1>6, <1>7, <1>8, <1>9 DEF IInv

\* What the invariant says of a process and its hart.
LEMMA Facts ==
    ASSUME IInv, NEW x \in Hart, NEW q \in Proc, On(x, q)
    PROVE  /\ h[x] \in HartRecord /\ p[q] \in ProcRecord /\ h[x].cur = q
           /\ Control(x, h[x], p[q]) /\ Registers(h[x], p[q]) /\ Saved(p[q]) /\ Goal(p[q])
           /\ h = [h EXCEPT ![x] = h[x]] /\ p = [p EXCEPT ![q] = p[q]]
BY DEF IInv, HartOK, ProcOK, Running, Stacks, On

-----------------------------------------------------------------------------
(* The steps. *)

\* A trap of the program.
LEMMA UserTrapStep ==
    ASSUME IInv, NEW x \in Hart, NEW q \in Proc,
           NEW cause \in {"ecall", "timer", "device"}, UserTrap(x, q, cause)
    PROVE  IInv'
<1>1. On(x, q)
  BY DEF UserTrap, At
<1> DEFINE c == h[x]
           s == p[q]
           g == IF cause = "ecall" THEN Inc(s.pc) ELSE s.pc
           d == [c EXCEPT !.user = FALSE, !.sie = FALSE, !.spie = c.sie, !.spp = "U", !.sepc = s.pc]
           t == [s EXCEPT !.at = "enter", !.cause = cause, !.hartid = Nobody, !.goal = g]
<1>2. h' = [h EXCEPT ![x] = d] /\ p' = [p EXCEPT ![q] = t] /\ UNCHANGED killed
  BY <1>1, Facts DEF UserTrap, SetH, SetP, Trapped
<1>3. c.user
  BY DEF UserTrap, At
<1>4. /\ c \in HartRecord /\ s \in ProcRecord /\ c.cur = q
      /\ Control(x, c, s) /\ Registers(c, s) /\ Saved(s) /\ Goal(s)
  BY <1>1, Facts
<1> HIDE DEF c, s
<1>5. g \in Pc
  BY <1>4 DEF Pc, Inc, ProcRecord
<1>6. g = (IF cause = "ecall" THEN Inc(s.pc) ELSE s.pc)
  OBVIOUS
<1> HIDE DEF g
<1>7. d \in HartRecord
  BY <1>3, <1>4, TrapAssumption DEF HartRecord, ProcRecord, KernelPc, Pc
<1>8. t \in ProcRecord
  BY <1>4, <1>5 DEF ProcRecord, Place
<1>9. /\ d.user = FALSE /\ d.sie = FALSE /\ d.spp = "U" /\ d.spie = c.sie
      /\ d.sepc = s.pc /\ d.stvec = c.stvec /\ d.cur = c.cur
  BY <1>3, <1>4 DEF HartRecord
<1>10. /\ t.at = "enter" /\ t.cause = cause /\ t.kt = s.kt /\ t.sepc = s.sepc
      /\ t.spp = s.spp /\ t.spie = s.spie
  BY <1>3, <1>4 DEF ProcRecord
<1>11. /\ t.intena = s.intena /\ t.epc = s.epc /\ t.hartid = Nobody /\ t.pc = s.pc
      /\ t.goal = g
  BY <1>3, <1>4 DEF ProcRecord
<1> HIDE DEF d, t
<1>12. Saved(t) /\ Goal(t)
  BY <1>3, <1>4, <1>6, <1>9, <1>10, <1>11 DEF Saved, Goal, Inner, Control, Registers
<1>13. d.cur = q /\ Control(x, d, t) /\ Registers(d, t)
  BY <1>3, <1>4, <1>6, <1>9, <1>10, <1>11
     DEF Control, Registers, Saved, Goal, Inner, HartRecord, ProcRecord
<1> QED
  BY <1>1, <1>2, <1>7, <1>8, <1>12, <1>13, StepOn

\* An interrupt in kernel code.
LEMMA KernelInterruptStep ==
    ASSUME IInv, NEW x \in Hart, NEW q \in Proc,
           KernelInterrupt(x, q)
    PROVE  IInv'
<1>1. On(x, q)
  BY DEF KernelInterrupt, At
<1> DEFINE c == h[x]
           s == p[q]
           d == [c EXCEPT !.user = FALSE, !.sie = FALSE, !.spie = c.sie, !.spp = "S", !.sepc = s.at]
           t == [s EXCEPT !.kt = "trap"]
<1>2. h' = [h EXCEPT ![x] = d] /\ p' = [p EXCEPT ![q] = t] /\ UNCHANGED killed
  BY <1>1, Facts DEF KernelInterrupt, SetH, SetP, Trapped
<1>3. ~c.user /\ c.sie
  BY DEF KernelInterrupt, At
<1>4. /\ c \in HartRecord /\ s \in ProcRecord /\ c.cur = q
      /\ Control(x, c, s) /\ Registers(c, s) /\ Saved(s) /\ Goal(s)
  BY <1>1, Facts
<1> HIDE DEF c, s
<1>5. d \in HartRecord
  BY <1>3, <1>4, TrapAssumption DEF HartRecord, ProcRecord, KernelPc, Pc
<1>6. t \in ProcRecord
  BY <1>3, <1>4 DEF HartRecord, ProcRecord, KernelPc, Place, Pc
<1>7. /\ d.user = FALSE /\ d.sie = FALSE /\ d.spp = "S" /\ d.spie = c.sie
      /\ d.sepc = s.at /\ d.stvec = c.stvec /\ d.cur = c.cur
  BY <1>3, <1>4 DEF HartRecord
<1>8. /\ t.at = s.at /\ t.cause = s.cause /\ t.kt = "trap" /\ t.sepc = s.sepc
      /\ t.spp = s.spp /\ t.spie = s.spie
  BY <1>3, <1>4 DEF ProcRecord
<1>9. /\ t.intena = s.intena /\ t.epc = s.epc /\ t.hartid = s.hartid /\ t.pc = s.pc
      /\ t.goal = s.goal
  BY <1>3, <1>4 DEF ProcRecord
<1> HIDE DEF d, t
<1>10. Saved(t) /\ Goal(t)
  BY <1>3, <1>4, <1>7, <1>8, <1>9 DEF Saved, Goal, Inner, Control, Registers
<1>11. d.cur = q /\ Control(x, d, t) /\ Registers(d, t)
  BY <1>3, <1>4, <1>7, <1>8, <1>9
     DEF Control, Registers, Saved, Goal, Inner, HartRecord, ProcRecord
<1> QED
  BY <1>1, <1>2, <1>5, <1>6, <1>10, <1>11, StepOn

\* usertrap() of a process that was killed before its system call.
LEMMA usertrapExit ==
    ASSUME IInv, NEW x \in Hart, NEW q \in Proc,
           usertrap(x, q), p[q].cause = "ecall", killed[q]
    PROVE  IInv'
<1>1. On(x, q)
  BY DEF usertrap, At
<1> DEFINE c == h[x]
           s == p[q]
           d == [[c EXCEPT !.stvec = "kernelvec"] EXCEPT !.cur = Nobody, !.sie = TRUE]
           t == [s EXCEPT !.at = "exited", !.pc = "even", !.goal = "even"]
<1>2. h' = [h EXCEPT ![x] = d] /\ p' = [p EXCEPT ![q] = t] /\ UNCHANGED killed
  BY <1>1, Facts DEF usertrap, Exit, SetH, SetP, Away
<1>3. s.at = "enter" /\ s.kt = "none" /\ ~c.user
  BY DEF usertrap, At
<1>4. /\ c \in HartRecord /\ s \in ProcRecord /\ c.cur = q
      /\ Control(x, c, s) /\ Registers(c, s) /\ Saved(s) /\ Goal(s)
  BY <1>1, Facts
<1> HIDE DEF c, s
<1>5. d \in HartRecord
  BY <1>3, <1>4, TrapAssumption DEF HartRecord, ProcRecord, KernelPc, Pc
<1>6. t \in ProcRecord
  BY <1>3, <1>4 DEF HartRecord, ProcRecord, KernelPc, Place, Pc
<1>7. /\ d.user = c.user /\ d.sie = TRUE /\ d.spp = c.spp /\ d.spie = c.spie
      /\ d.sepc = c.sepc /\ d.stvec = "kernelvec" /\ d.cur = Nobody
  BY <1>3, <1>4 DEF HartRecord
<1>8. /\ t.at = "exited" /\ t.cause = s.cause /\ t.kt = s.kt /\ t.sepc = s.sepc
      /\ t.spp = s.spp /\ t.spie = s.spie
  BY <1>3, <1>4 DEF ProcRecord
<1>9. /\ t.intena = s.intena /\ t.epc = s.epc /\ t.hartid = s.hartid /\ t.pc = "even"
      /\ t.goal = "even"
  BY <1>3, <1>4 DEF ProcRecord
<1> HIDE DEF d, t
<1>10. Saved(t) /\ Goal(t)
  BY <1>3, <1>4, <1>7, <1>8, <1>9 DEF Saved, Goal, Inner, Control, Registers
<1>11. d.cur = Nobody /\ ~d.user /\ d.stvec = "kernelvec" /\ Left(t)
  BY <1>3, <1>4, <1>7, <1>8, <1>9 DEF Control, Left, Inner, HartRecord
<1> QED
  BY <1>1, <1>2, <1>5, <1>6, <1>10, <1>11, StepOn

\* usertrap() up to the system call, the device or the tick.
LEMMA usertrapGo ==
    ASSUME IInv, NEW x \in Hart, NEW q \in Proc,
           usertrap(x, q), ~(p[q].cause = "ecall" /\ killed[q])
    PROVE  IInv'
<1>1. On(x, q)
  BY DEF usertrap, At
<1> DEFINE c == h[x]
           s == p[q]
           d == [[c EXCEPT !.stvec = "kernelvec"] EXCEPT !.sie = s.cause = "ecall"]
           t == [s EXCEPT !.epc = IF s.cause = "ecall" THEN Inc(c.sepc) ELSE c.sepc,
                             !.at = IF s.cause = "ecall" THEN "syscall" ELSE "after"]
<1>2. h' = [h EXCEPT ![x] = d] /\ p' = [p EXCEPT ![q] = t] /\ UNCHANGED killed
  BY <1>1, Facts DEF usertrap, NextPc, SetH, SetP
<1>3. s.at = "enter" /\ s.kt = "none" /\ ~c.user
  BY DEF usertrap, At
<1>4. /\ c \in HartRecord /\ s \in ProcRecord /\ c.cur = q
      /\ Control(x, c, s) /\ Registers(c, s) /\ Saved(s) /\ Goal(s)
  BY <1>1, Facts
<1> HIDE DEF c, s
<1>5. d \in HartRecord
  BY <1>3, <1>4, TrapAssumption DEF HartRecord, ProcRecord, KernelPc, Pc, Inc, Registers
<1>6. t \in ProcRecord
  BY <1>3, <1>4 DEF HartRecord, ProcRecord, KernelPc, Place, Pc, Inc, Registers
<1>7. /\ d.user = c.user /\ d.sie = (s.cause = "ecall") /\ d.spp = c.spp /\ d.spie = c.spie
      /\ d.sepc = c.sepc /\ d.stvec = "kernelvec" /\ d.cur = c.cur
  BY <1>3, <1>4 DEF HartRecord
<1>8. /\ t.at = (IF s.cause = "ecall" THEN "syscall" ELSE "after") /\ t.cause = s.cause /\ t.kt = s.kt /\ t.sepc = s.sepc
      /\ t.spp = s.spp /\ t.spie = s.spie
  BY <1>3, <1>4 DEF ProcRecord
<1>9. /\ t.intena = s.intena /\ t.epc = (IF s.cause = "ecall" THEN Inc(c.sepc) ELSE c.sepc) /\ t.hartid = s.hartid /\ t.pc = s.pc
      /\ t.goal = s.goal
  BY <1>3, <1>4 DEF ProcRecord
<1> HIDE DEF d, t
<1>10. Saved(t) /\ Goal(t)
  BY <1>3, <1>4, <1>7, <1>8, <1>9 DEF Saved, Goal, Inner, Control, Registers
<1>11. d.cur = q /\ Control(x, d, t) /\ Registers(d, t)
  BY <1>3, <1>4, <1>7, <1>8, <1>9
     DEF Control, Registers, Saved, Goal, Inner, HartRecord, ProcRecord
<1> QED
  BY <1>1, <1>2, <1>5, <1>6, <1>10, <1>11, StepOn

\* syscall() returns.
LEMMA ServedStep ==
    ASSUME IInv, NEW x \in Hart, NEW q \in Proc,
           Served(x, q)
    PROVE  IInv'
<1>1. On(x, q)
  BY DEF Served, At
<1> DEFINE c == h[x]
           s == p[q]
           d == c
           t == [s EXCEPT !.at = "after"]
<1>2. h' = [h EXCEPT ![x] = d] /\ p' = [p EXCEPT ![q] = t] /\ UNCHANGED killed
  BY <1>1, Facts DEF Served, SetH, SetP
<1>3. s.at = "syscall" /\ s.kt = "none" /\ ~c.user
  BY DEF Served, At
<1>4. /\ c \in HartRecord /\ s \in ProcRecord /\ c.cur = q
      /\ Control(x, c, s) /\ Registers(c, s) /\ Saved(s) /\ Goal(s)
  BY <1>1, Facts
<1> HIDE DEF c, s
<1>5. d \in HartRecord
  BY <1>3, <1>4, TrapAssumption DEF HartRecord, ProcRecord, KernelPc, Pc
<1>6. t \in ProcRecord
  BY <1>3, <1>4 DEF HartRecord, ProcRecord, KernelPc, Place, Pc
<1>7. /\ d.user = c.user /\ d.sie = c.sie /\ d.spp = c.spp /\ d.spie = c.spie
      /\ d.sepc = c.sepc /\ d.stvec = c.stvec /\ d.cur = c.cur
  BY <1>3, <1>4 DEF HartRecord
<1>8. /\ t.at = "after" /\ t.cause = s.cause /\ t.kt = s.kt /\ t.sepc = s.sepc
      /\ t.spp = s.spp /\ t.spie = s.spie
  BY <1>3, <1>4 DEF ProcRecord
<1>9. /\ t.intena = s.intena /\ t.epc = s.epc /\ t.hartid = s.hartid /\ t.pc = s.pc
      /\ t.goal = s.goal
  BY <1>3, <1>4 DEF ProcRecord
<1> HIDE DEF d, t
<1>10. Saved(t) /\ Goal(t)
  BY <1>3, <1>4, <1>7, <1>8, <1>9 DEF Saved, Goal, Inner, Control, Registers
<1>11. d.cur = q /\ Control(x, d, t) /\ Registers(d, t)
  BY <1>3, <1>4, <1>7, <1>8, <1>9
     DEF Control, Registers, Saved, Goal, Inner, HartRecord, ProcRecord
<1> QED
  BY <1>1, <1>2, <1>5, <1>6, <1>10, <1>11, StepOn

\* sleep() inside a system call.
LEMMA SleepStep ==
    ASSUME IInv, NEW x \in Hart, NEW q \in Proc,
           Sleep(x, q)
    PROVE  IInv'
<1>1. On(x, q)
  BY DEF Sleep, At
<1> DEFINE c == h[x]
           s == p[q]
           d == [c EXCEPT !.cur = Nobody, !.sie = TRUE]
           t == [s EXCEPT !.intena = c.sie]
<1>2. h' = [h EXCEPT ![x] = d] /\ p' = [p EXCEPT ![q] = t] /\ UNCHANGED killed
  BY <1>1, Facts DEF Sleep, SetH, SetP, Away
<1>3. s.at = "syscall" /\ s.kt = "none" /\ ~c.user
  BY DEF Sleep, At
<1>4. /\ c \in HartRecord /\ s \in ProcRecord /\ c.cur = q
      /\ Control(x, c, s) /\ Registers(c, s) /\ Saved(s) /\ Goal(s)
  BY <1>1, Facts
<1> HIDE DEF c, s
<1>5. d \in HartRecord
  BY <1>3, <1>4, TrapAssumption DEF HartRecord, ProcRecord, KernelPc, Pc
<1>6. t \in ProcRecord
  BY <1>3, <1>4 DEF HartRecord, ProcRecord, KernelPc, Place, Pc
<1>7. /\ d.user = c.user /\ d.sie = TRUE /\ d.spp = c.spp /\ d.spie = c.spie
      /\ d.sepc = c.sepc /\ d.stvec = c.stvec /\ d.cur = Nobody
  BY <1>3, <1>4 DEF HartRecord
<1>8. /\ t.at = s.at /\ t.cause = s.cause /\ t.kt = s.kt /\ t.sepc = s.sepc
      /\ t.spp = s.spp /\ t.spie = s.spie
  BY <1>3, <1>4 DEF ProcRecord
<1>9. /\ t.intena = c.sie /\ t.epc = s.epc /\ t.hartid = s.hartid /\ t.pc = s.pc
      /\ t.goal = s.goal
  BY <1>3, <1>4 DEF ProcRecord
<1> HIDE DEF d, t
<1>10. Saved(t) /\ Goal(t)
  BY <1>3, <1>4, <1>7, <1>8, <1>9 DEF Saved, Goal, Inner, Control, Registers
<1>11. d.cur = Nobody /\ ~d.user /\ d.stvec = "kernelvec" /\ Left(t)
  BY <1>3, <1>4, <1>7, <1>8, <1>9 DEF Control, Left, Inner, HartRecord
<1> QED
  BY <1>1, <1>2, <1>5, <1>6, <1>10, <1>11, StepOn

\* exit() of a process that was killed.
LEMMA AfterExit ==
    ASSUME IInv, NEW x \in Hart, NEW q \in Proc,
           After(x, q), MustExit(q)
    PROVE  IInv'
<1>1. On(x, q)
  BY DEF After, At
<1> DEFINE c == h[x]
           s == p[q]
           d == [c EXCEPT !.cur = Nobody, !.sie = TRUE]
           t == [s EXCEPT !.at = "exited", !.pc = "even", !.goal = "even"]
<1>2. h' = [h EXCEPT ![x] = d] /\ p' = [p EXCEPT ![q] = t] /\ UNCHANGED killed
  BY <1>1, Facts DEF After, Exit, SetH, SetP, Away
<1>3. s.at = "after" /\ s.kt = "none" /\ ~c.user
  BY DEF After, At
<1>4. /\ c \in HartRecord /\ s \in ProcRecord /\ c.cur = q
      /\ Control(x, c, s) /\ Registers(c, s) /\ Saved(s) /\ Goal(s)
  BY <1>1, Facts
<1> HIDE DEF c, s
<1>5. d \in HartRecord
  BY <1>3, <1>4, TrapAssumption DEF HartRecord, ProcRecord, KernelPc, Pc
<1>6. t \in ProcRecord
  BY <1>3, <1>4 DEF HartRecord, ProcRecord, KernelPc, Place, Pc
<1>7. /\ d.user = c.user /\ d.sie = TRUE /\ d.spp = c.spp /\ d.spie = c.spie
      /\ d.sepc = c.sepc /\ d.stvec = c.stvec /\ d.cur = Nobody
  BY <1>3, <1>4 DEF HartRecord
<1>8. /\ t.at = "exited" /\ t.cause = s.cause /\ t.kt = s.kt /\ t.sepc = s.sepc
      /\ t.spp = s.spp /\ t.spie = s.spie
  BY <1>3, <1>4 DEF ProcRecord
<1>9. /\ t.intena = s.intena /\ t.epc = s.epc /\ t.hartid = s.hartid /\ t.pc = "even"
      /\ t.goal = "even"
  BY <1>3, <1>4 DEF ProcRecord
<1> HIDE DEF d, t
<1>10. Saved(t) /\ Goal(t)
  BY <1>3, <1>4, <1>7, <1>8, <1>9 DEF Saved, Goal, Inner, Control, Registers
<1>11. d.cur = Nobody /\ ~d.user /\ d.stvec = "kernelvec" /\ Left(t)
  BY <1>3, <1>4, <1>7, <1>8, <1>9 DEF Control, Left, Inner, HartRecord
<1> QED
  BY <1>1, <1>2, <1>5, <1>6, <1>10, <1>11, StepOn

\* yield() of usertrap().
LEMMA AfterTimer ==
    ASSUME IInv, NEW x \in Hart, NEW q \in Proc,
           After(x, q), ~MustExit(q), p[q].cause = "timer"
    PROVE  IInv'
<1>1. On(x, q)
  BY DEF After, At
<1> DEFINE c == h[x]
           s == p[q]
           d == [c EXCEPT !.cur = Nobody, !.sie = TRUE]
           t == [s EXCEPT !.at = "ret", !.cause = "ecall", !.intena = c.sie]
<1>2. h' = [h EXCEPT ![x] = d] /\ p' = [p EXCEPT ![q] = t] /\ UNCHANGED killed
  BY <1>1, Facts DEF After, SetH, SetP, Away
<1>3. s.at = "after" /\ s.kt = "none" /\ ~c.user
  BY DEF After, At
<1>4. /\ c \in HartRecord /\ s \in ProcRecord /\ c.cur = q
      /\ Control(x, c, s) /\ Registers(c, s) /\ Saved(s) /\ Goal(s)
  BY <1>1, Facts
<1> HIDE DEF c, s
<1>5. d \in HartRecord
  BY <1>3, <1>4, TrapAssumption DEF HartRecord, ProcRecord, KernelPc, Pc
<1>6. t \in ProcRecord
  BY <1>3, <1>4 DEF HartRecord, ProcRecord, KernelPc, Place, Pc
<1>7. /\ d.user = c.user /\ d.sie = TRUE /\ d.spp = c.spp /\ d.spie = c.spie
      /\ d.sepc = c.sepc /\ d.stvec = c.stvec /\ d.cur = Nobody
  BY <1>3, <1>4 DEF HartRecord
<1>8. /\ t.at = "ret" /\ t.cause = "ecall" /\ t.kt = s.kt /\ t.sepc = s.sepc
      /\ t.spp = s.spp /\ t.spie = s.spie
  BY <1>3, <1>4 DEF ProcRecord
<1>9. /\ t.intena = c.sie /\ t.epc = s.epc /\ t.hartid = s.hartid /\ t.pc = s.pc
      /\ t.goal = s.goal
  BY <1>3, <1>4 DEF ProcRecord
<1> HIDE DEF d, t
<1>10. Saved(t) /\ Goal(t)
  BY <1>3, <1>4, <1>7, <1>8, <1>9 DEF Saved, Goal, Inner, Control, Registers
<1>11. d.cur = Nobody /\ ~d.user /\ d.stvec = "kernelvec" /\ Left(t)
  BY <1>3, <1>4, <1>7, <1>8, <1>9 DEF Control, Left, Inner, HartRecord
<1> QED
  BY <1>1, <1>2, <1>5, <1>6, <1>10, <1>11, StepOn

\* On to usertrapret().
LEMMA AfterGo ==
    ASSUME IInv, NEW x \in Hart, NEW q \in Proc,
           After(x, q), ~MustExit(q), p[q].cause # "timer"
    PROVE  IInv'
<1>1. On(x, q)
  BY DEF After, At
<1> DEFINE c == h[x]
           s == p[q]
           d == c
           t == [s EXCEPT !.at = "ret", !.cause = "ecall"]
<1>2. h' = [h EXCEPT ![x] = d] /\ p' = [p EXCEPT ![q] = t] /\ UNCHANGED killed
  BY <1>1, Facts DEF After, SetH, SetP
<1>3. s.at = "after" /\ s.kt = "none" /\ ~c.user
  BY DEF After, At
<1>4. /\ c \in HartRecord /\ s \in ProcRecord /\ c.cur = q
      /\ Control(x, c, s) /\ Registers(c, s) /\ Saved(s) /\ Goal(s)
  BY <1>1, Facts
<1> HIDE DEF c, s
<1>5. d \in HartRecord
  BY <1>3, <1>4, TrapAssumption DEF HartRecord, ProcRecord, KernelPc, Pc
<1>6. t \in ProcRecord
  BY <1>3, <1>4 DEF HartRecord, ProcRecord, KernelPc, Place, Pc
<1>7. /\ d.user = c.user /\ d.sie = c.sie /\ d.spp = c.spp /\ d.spie = c.spie
      /\ d.sepc = c.sepc /\ d.stvec = c.stvec /\ d.cur = c.cur
  BY <1>3, <1>4 DEF HartRecord
<1>8. /\ t.at = "ret" /\ t.cause = "ecall" /\ t.kt = s.kt /\ t.sepc = s.sepc
      /\ t.spp = s.spp /\ t.spie = s.spie
  BY <1>3, <1>4 DEF ProcRecord
<1>9. /\ t.intena = s.intena /\ t.epc = s.epc /\ t.hartid = s.hartid /\ t.pc = s.pc
      /\ t.goal = s.goal
  BY <1>3, <1>4 DEF ProcRecord
<1> HIDE DEF d, t
<1>10. Saved(t) /\ Goal(t)
  BY <1>3, <1>4, <1>7, <1>8, <1>9 DEF Saved, Goal, Inner, Control, Registers
<1>11. d.cur = q /\ Control(x, d, t) /\ Registers(d, t)
  BY <1>3, <1>4, <1>7, <1>8, <1>9
     DEF Control, Registers, Saved, Goal, Inner, HartRecord, ProcRecord
<1> QED
  BY <1>1, <1>2, <1>5, <1>6, <1>10, <1>11, StepOn

\* usertrapret() turns interrupts off.
LEMMA usertrapretStep ==
    ASSUME IInv, NEW x \in Hart, NEW q \in Proc,
           usertrapret(x, q)
    PROVE  IInv'
<1>1. On(x, q)
  BY DEF usertrapret, At
<1> DEFINE c == h[x]
           s == p[q]
           d == [c EXCEPT !.sie = FALSE]
           t == [s EXCEPT !.at = "frame"]
<1>2. h' = [h EXCEPT ![x] = d] /\ p' = [p EXCEPT ![q] = t] /\ UNCHANGED killed
  BY <1>1, Facts DEF usertrapret, IntrOff, SetH, SetP
<1>3. s.at = "ret" /\ s.kt = "none" /\ ~c.user
  BY DEF usertrapret, At
<1>4. /\ c \in HartRecord /\ s \in ProcRecord /\ c.cur = q
      /\ Control(x, c, s) /\ Registers(c, s) /\ Saved(s) /\ Goal(s)
  BY <1>1, Facts
<1> HIDE DEF c, s
<1>5. d \in HartRecord
  BY <1>3, <1>4, TrapAssumption DEF HartRecord, ProcRecord, KernelPc, Pc
<1>6. t \in ProcRecord
  BY <1>3, <1>4 DEF HartRecord, ProcRecord, KernelPc, Place, Pc
<1>7. /\ d.user = c.user /\ d.sie = FALSE /\ d.spp = c.spp /\ d.spie = c.spie
      /\ d.sepc = c.sepc /\ d.stvec = c.stvec /\ d.cur = c.cur
  BY <1>3, <1>4 DEF HartRecord
<1>8. /\ t.at = "frame" /\ t.cause = s.cause /\ t.kt = s.kt /\ t.sepc = s.sepc
      /\ t.spp = s.spp /\ t.spie = s.spie
  BY <1>3, <1>4 DEF ProcRecord
<1>9. /\ t.intena = s.intena /\ t.epc = s.epc /\ t.hartid = s.hartid /\ t.pc = s.pc
      /\ t.goal = s.goal
  BY <1>3, <1>4 DEF ProcRecord
<1> HIDE DEF d, t
<1>10. Saved(t) /\ Goal(t)
  BY <1>3, <1>4, <1>7, <1>8, <1>9 DEF Saved, Goal, Inner, Control, Registers
<1>11. d.cur = q /\ Control(x, d, t) /\ Registers(d, t)
  BY <1>3, <1>4, <1>7, <1>8, <1>9
     DEF Control, Registers, Saved, Goal, Inner, HartRecord, ProcRecord
<1> QED
  BY <1>1, <1>2, <1>5, <1>6, <1>10, <1>11, StepOn

\* usertrapret() sets the vector, the trap frame and the registers.
LEMMA FrameStep ==
    ASSUME IInv, NEW x \in Hart, NEW q \in Proc,
           Frame(x, q)
    PROVE  IInv'
<1>1. On(x, q)
  BY DEF Frame, At
<1> DEFINE c == h[x]
           s == p[q]
           d == [c EXCEPT !.stvec = "uservec", !.spp = "U", !.spie = TRUE, !.sepc = s.epc]
           t == [s EXCEPT !.at = "sret", !.hartid = x]
<1>2. h' = [h EXCEPT ![x] = d] /\ p' = [p EXCEPT ![q] = t] /\ UNCHANGED killed
  BY <1>1, Facts DEF Frame, SetH, SetP
<1>3. s.at = "frame" /\ s.kt = "none" /\ ~c.user
  BY DEF Frame, At
<1>4. /\ c \in HartRecord /\ s \in ProcRecord /\ c.cur = q
      /\ Control(x, c, s) /\ Registers(c, s) /\ Saved(s) /\ Goal(s)
  BY <1>1, Facts
<1> HIDE DEF c, s
<1>5. d \in HartRecord
  BY <1>3, <1>4, TrapAssumption DEF HartRecord, ProcRecord, KernelPc, Pc
<1>6. t \in ProcRecord
  BY <1>3, <1>4 DEF HartRecord, ProcRecord, KernelPc, Place, Pc
<1>7. /\ d.user = c.user /\ d.sie = c.sie /\ d.spp = "U" /\ d.spie = TRUE
      /\ d.sepc = s.epc /\ d.stvec = "uservec" /\ d.cur = c.cur
  BY <1>3, <1>4 DEF HartRecord
<1>8. /\ t.at = "sret" /\ t.cause = s.cause /\ t.kt = s.kt /\ t.sepc = s.sepc
      /\ t.spp = s.spp /\ t.spie = s.spie
  BY <1>3, <1>4 DEF ProcRecord
<1>9. /\ t.intena = s.intena /\ t.epc = s.epc /\ t.hartid = x /\ t.pc = s.pc
      /\ t.goal = s.goal
  BY <1>3, <1>4 DEF ProcRecord
<1> HIDE DEF d, t
<1>10. Saved(t) /\ Goal(t)
  BY <1>3, <1>4, <1>7, <1>8, <1>9 DEF Saved, Goal, Inner, Control, Registers
<1>11. d.cur = q /\ Control(x, d, t) /\ Registers(d, t)
  BY <1>3, <1>4, <1>7, <1>8, <1>9
     DEF Control, Registers, Saved, Goal, Inner, HartRecord, ProcRecord
<1> QED
  BY <1>1, <1>2, <1>5, <1>6, <1>10, <1>11, StepOn

\* The sret to the program.
LEMMA userretStep ==
    ASSUME IInv, NEW x \in Hart, NEW q \in Proc,
           userret(x, q)
    PROVE  IInv'
<1>1. On(x, q)
  BY DEF userret, At
<1> DEFINE c == h[x]
           s == p[q]
           d == [c EXCEPT !.user = TRUE, !.sie = c.spie, !.sepc = "even"]
           t == [s EXCEPT !.at = "user", !.pc = c.sepc, !.epc = "even", !.goal = "even"]
<1>2. h' = [h EXCEPT ![x] = d] /\ p' = [p EXCEPT ![q] = t] /\ UNCHANGED killed
  BY <1>1, Facts DEF userret, SetH, SetP
<1>3. s.at = "sret" /\ s.kt = "none" /\ ~c.user
  BY DEF userret, At
<1>4. /\ c \in HartRecord /\ s \in ProcRecord /\ c.cur = q
      /\ Control(x, c, s) /\ Registers(c, s) /\ Saved(s) /\ Goal(s)
  BY <1>1, Facts
<1> HIDE DEF c, s
<1>5. d \in HartRecord
  BY <1>3, <1>4, TrapAssumption DEF HartRecord, ProcRecord, KernelPc, Pc, Registers
<1>6. t \in ProcRecord
  BY <1>3, <1>4 DEF HartRecord, ProcRecord, KernelPc, Place, Pc, Registers
<1>7. /\ d.user = TRUE /\ d.sie = c.spie /\ d.spp = c.spp /\ d.spie = c.spie
      /\ d.sepc = "even" /\ d.stvec = c.stvec /\ d.cur = c.cur
  BY <1>3, <1>4 DEF HartRecord
<1>8. /\ t.at = "user" /\ t.cause = s.cause /\ t.kt = s.kt /\ t.sepc = s.sepc
      /\ t.spp = s.spp /\ t.spie = s.spie
  BY <1>3, <1>4 DEF ProcRecord
<1>9. /\ t.intena = s.intena /\ t.epc = "even" /\ t.hartid = s.hartid /\ t.pc = c.sepc
      /\ t.goal = "even"
  BY <1>3, <1>4 DEF ProcRecord
<1> HIDE DEF d, t
<1>10. Saved(t) /\ Goal(t)
  BY <1>3, <1>4, <1>7, <1>8, <1>9 DEF Saved, Goal, Inner, Control, Registers
<1>11. d.cur = q /\ Control(x, d, t) /\ Registers(d, t)
  BY <1>3, <1>4, <1>7, <1>8, <1>9
     DEF Control, Registers, Saved, Goal, Inner, HartRecord, ProcRecord
<1> QED
  BY <1>1, <1>2, <1>5, <1>6, <1>10, <1>11, StepOn

\* kerneltrap() saves the registers and yields.
LEMMA kerneltrapTimer ==
    ASSUME IInv, NEW x \in Hart, NEW q \in Proc,
           kerneltrap(x, q, TRUE), p[q].at # "exited"
    PROVE  IInv'
<1>1. On(x, q)
  BY DEF kerneltrap, At
<1> DEFINE c == h[x]
           s == p[q]
           d == [c EXCEPT !.cur = Nobody, !.sie = TRUE]
           t == [[s EXCEPT !.sepc = c.sepc, !.spp = c.spp, !.spie = c.spie] EXCEPT !.kt = "away", !.intena = c.sie]
<1>2. h' = [h EXCEPT ![x] = d] /\ p' = [p EXCEPT ![q] = t] /\ UNCHANGED killed
  BY <1>1, Facts DEF kerneltrap, SetH, SetP, Away
<1>3. s.kt = "trap"
  BY DEF kerneltrap, At
<1>4. /\ c \in HartRecord /\ s \in ProcRecord /\ c.cur = q
      /\ Control(x, c, s) /\ Registers(c, s) /\ Saved(s) /\ Goal(s)
  BY <1>1, Facts
<1> HIDE DEF c, s
<1>5. d \in HartRecord
  BY <1>3, <1>4, TrapAssumption DEF HartRecord, ProcRecord, KernelPc, Pc
<1>6. t \in ProcRecord
  BY <1>3, <1>4 DEF HartRecord, ProcRecord, KernelPc, Place, Pc
<1>7. /\ d.user = c.user /\ d.sie = TRUE /\ d.spp = c.spp /\ d.spie = c.spie
      /\ d.sepc = c.sepc /\ d.stvec = c.stvec /\ d.cur = Nobody
  BY <1>3, <1>4 DEF HartRecord
<1>8. /\ t.at = s.at /\ t.cause = s.cause /\ t.kt = "away" /\ t.sepc = c.sepc
      /\ t.spp = c.spp /\ t.spie = c.spie
  BY <1>3, <1>4 DEF ProcRecord
<1>9. /\ t.intena = c.sie /\ t.epc = s.epc /\ t.hartid = s.hartid /\ t.pc = s.pc
      /\ t.goal = s.goal
  BY <1>3, <1>4 DEF ProcRecord
<1> HIDE DEF d, t
<1>10. Saved(t) /\ Goal(t)
  BY <1>3, <1>4, <1>7, <1>8, <1>9 DEF Saved, Goal, Inner, Control, Registers
<1>11. d.cur = Nobody /\ ~d.user /\ d.stvec = "kernelvec" /\ Left(t)
  BY <1>3, <1>4, <1>7, <1>8, <1>9 DEF Control, Left, Inner, HartRecord
<1> QED
  BY <1>1, <1>2, <1>5, <1>6, <1>10, <1>11, StepOn

\* kerneltrap() of another interrupt.
LEMMA kerneltrapBack ==
    ASSUME IInv, NEW x \in Hart, NEW q \in Proc,
           NEW timer \in BOOLEAN, kerneltrap(x, q, timer), ~(timer /\ p[q].at # "exited")
    PROVE  IInv'
<1>1. On(x, q)
  BY DEF kerneltrap, At
<1> DEFINE c == h[x]
           s == p[q]
           d == c
           t == [[s EXCEPT !.sepc = c.sepc, !.spp = c.spp, !.spie = c.spie] EXCEPT !.kt = "back"]
<1>2. h' = [h EXCEPT ![x] = d] /\ p' = [p EXCEPT ![q] = t] /\ UNCHANGED killed
  BY <1>1, Facts DEF kerneltrap, SetH, SetP
<1>3. s.kt = "trap"
  BY DEF kerneltrap, At
<1>4. /\ c \in HartRecord /\ s \in ProcRecord /\ c.cur = q
      /\ Control(x, c, s) /\ Registers(c, s) /\ Saved(s) /\ Goal(s)
  BY <1>1, Facts
<1> HIDE DEF c, s
<1>5. d \in HartRecord
  BY <1>3, <1>4, TrapAssumption DEF HartRecord, ProcRecord, KernelPc, Pc
<1>6. t \in ProcRecord
  BY <1>3, <1>4 DEF HartRecord, ProcRecord, KernelPc, Place, Pc
<1>7. /\ d.user = c.user /\ d.sie = c.sie /\ d.spp = c.spp /\ d.spie = c.spie
      /\ d.sepc = c.sepc /\ d.stvec = c.stvec /\ d.cur = c.cur
  BY <1>3, <1>4 DEF HartRecord
<1>8. /\ t.at = s.at /\ t.cause = s.cause /\ t.kt = "back" /\ t.sepc = c.sepc
      /\ t.spp = c.spp /\ t.spie = c.spie
  BY <1>3, <1>4 DEF ProcRecord
<1>9. /\ t.intena = s.intena /\ t.epc = s.epc /\ t.hartid = s.hartid /\ t.pc = s.pc
      /\ t.goal = s.goal
  BY <1>3, <1>4 DEF ProcRecord
<1> HIDE DEF d, t
<1>10. Saved(t) /\ Goal(t)
  BY <1>3, <1>4, <1>7, <1>8, <1>9 DEF Saved, Goal, Inner, Control, Registers
<1>11. d.cur = q /\ Control(x, d, t) /\ Registers(d, t)
  BY <1>3, <1>4, <1>7, <1>8, <1>9
     DEF Control, Registers, Saved, Goal, Inner, HartRecord, ProcRecord
<1> QED
  BY <1>1, <1>2, <1>5, <1>6, <1>10, <1>11, StepOn

\* The registers are restored, and the sret goes to the kernel code.
LEMMA KernelReturnStep ==
    ASSUME IInv, NEW x \in Hart, NEW q \in Proc,
           KernelReturn(x, q)
    PROVE  IInv'
<1>1. On(x, q)
  BY DEF KernelReturn, At
<1> DEFINE c == h[x]
           s == p[q]
           r == [c EXCEPT !.sepc = s.sepc, !.spp = s.spp, !.spie = s.spie]
           d == [[c EXCEPT !.sepc = s.sepc, !.spp = s.spp, !.spie = s.spie] EXCEPT !.user = r.spp = "U", !.sie = r.spie]
           t == [s EXCEPT !.kt = "none", !.at = r.sepc, !.sepc = "even", !.spp = "S", !.spie = TRUE]
<1>2. h' = [h EXCEPT ![x] = d] /\ p' = [p EXCEPT ![q] = t] /\ UNCHANGED killed
  BY <1>1, Facts DEF KernelReturn, Restored, SetH, SetP
<1>3. s.kt = "back"
  BY DEF KernelReturn, At
<1>4. /\ c \in HartRecord /\ s \in ProcRecord /\ c.cur = q
      /\ Control(x, c, s) /\ Registers(c, s) /\ Saved(s) /\ Goal(s)
  BY <1>1, Facts
<1> HIDE DEF c, s
<1>5. r.sepc = s.sepc /\ r.spp = s.spp /\ r.spie = s.spie
  BY <1>4 DEF HartRecord
<1>6. d \in HartRecord
  BY <1>3, <1>4, <1>5, TrapAssumption DEF HartRecord, ProcRecord, KernelPc, Pc, Saved, Inner
<1>7. t \in ProcRecord
  BY <1>3, <1>4, <1>5 DEF HartRecord, ProcRecord, KernelPc, Place, Pc, Saved, Inner
<1>8. /\ d.user = (s.spp = "U") /\ d.sie = s.spie /\ d.spp = s.spp /\ d.spie = s.spie
      /\ d.sepc = s.sepc /\ d.stvec = c.stvec /\ d.cur = c.cur
  BY <1>3, <1>4, <1>5 DEF HartRecord
<1>9. /\ t.at = s.sepc /\ t.cause = s.cause /\ t.kt = "none" /\ t.sepc = "even"
      /\ t.spp = "S" /\ t.spie = TRUE
  BY <1>3, <1>4, <1>5 DEF ProcRecord
<1>10. /\ t.intena = s.intena /\ t.epc = s.epc /\ t.hartid = s.hartid /\ t.pc = s.pc
      /\ t.goal = s.goal
  BY <1>3, <1>4 DEF ProcRecord
<1> HIDE DEF d, t
<1>11. Saved(t) /\ Goal(t)
  BY <1>3, <1>4, <1>8, <1>9, <1>10 DEF Saved, Goal, Inner, Control, Registers
<1>12. d.cur = q /\ Control(x, d, t) /\ Registers(d, t)
  BY <1>3, <1>4, <1>8, <1>9, <1>10
     DEF Control, Registers, Saved, Goal, Inner, HartRecord, ProcRecord
<1> QED
  BY <1>1, <1>2, <1>6, <1>7, <1>11, <1>12, StepOn

\* The scheduler gives hart x to process q.
LEMMA DispatchStep ==
    ASSUME IInv, NEW x \in Hart, NEW q \in Proc, Dispatch(x, q)
    PROVE  IInv'
<1> DEFINE c == h[x]
           s == p[q]
           k == IF s.kt = "away" THEN "back" ELSE s.kt
           d == [c EXCEPT !.cur = q, !.sie = s.intena]
           t == [s EXCEPT !.kt = k]
<1>1. /\ c \in HartRecord /\ s \in ProcRecord /\ Saved(s) /\ Goal(s) /\ Left(s)
      /\ ~c.user /\ c.stvec = "kernelvec" /\ s.at # "exited" /\ c.cur = Nobody
      /\ \A y \in Hart : h[y].cur # q
  BY DEF Dispatch, IInv, HartOK, ProcOK, Stacks, Waiting, Idle, On
<1>2. h' = [h EXCEPT ![x] = d] /\ p' = [p EXCEPT ![q] = t] /\ UNCHANGED killed
  BY DEF Dispatch, SetH, SetP
<1> HIDE DEF c, s
<1>3. /\ k \in {"none", "trap", "back"} /\ (k = "none" <=> s.kt = "none")
      /\ k = "back" <=> s.kt \in {"away", "back"}
  BY <1>1 DEF ProcRecord
<1> HIDE DEF k
<1>4. d \in HartRecord /\ t \in ProcRecord
  BY <1>1, <1>3 DEF HartRecord, ProcRecord
<1>5. /\ d.user = c.user /\ d.sie = s.intena /\ d.stvec = c.stvec /\ d.cur = q
  BY <1>1 DEF HartRecord
<1>6. /\ t.at = s.at /\ t.cause = s.cause /\ t.kt = k /\ t.sepc = s.sepc /\ t.spp = s.spp /\ t.spie = s.spie
  BY <1>1 DEF ProcRecord
<1>7. /\ t.epc = s.epc /\ t.pc = s.pc /\ t.goal = s.goal
  BY <1>1 DEF ProcRecord
<1> HIDE DEF d, t
<1>8. s.at \in Inner /\ (s.kt = "none" \/ (s.kt = "away" /\ ~s.intena))
  BY <1>1 DEF Left, Saved, Inner, ProcRecord
<1>9. Saved(t) /\ Goal(t)
  BY <1>1, <1>3, <1>6, <1>7 DEF Saved, Goal, Inner
<1>10. k = "none" \/ (k = "back" /\ ~s.intena)
  BY <1>3, <1>8
<1>11. Control(x, d, t) /\ Registers(d, t)
  BY <1>1, <1>5, <1>6, <1>8, <1>10 DEF Control, Registers, Inner
<1>12. HartOK' /\ ProcOK' /\ KilledOK'
  BY <1>2, <1>4 DEF IInv, HartOK, ProcOK, KilledOK
<1>13. /\ h'[x] = d /\ \A y \in Hart : y # x => h'[y] = h[y]
       /\ p'[q] = t /\ \A r \in Proc : r # q => p'[r] = p[r]
  BY <1>2 DEF IInv, HartOK, ProcOK
<1>14. Alone'
  BY <1>1, <1>5, <1>13 DEF IInv, Alone
<1>15. Idle'
  BY <1>5, <1>13, TrapAssumption DEF IInv, Idle
<1>16. Running'
  BY <1>1, <1>5, <1>11, <1>13 DEF IInv, Running, On
<1>17. Stacks'
  BY <1>9, <1>13 DEF IInv, Stacks
<1>18. Waiting'
  <2> SUFFICES ASSUME NEW r \in Proc, \A y \in Hart : h'[y].cur # r
               PROVE  Left(p'[r])
    BY DEF Waiting, On
  <2>1. r # q
    BY <1>5, <1>13
  <2>2. \A y \in Hart : h[y].cur # r
    BY <1>1, <1>13, TrapAssumption DEF c
  <2> QED
    BY <1>13, <2>1, <2>2 DEF IInv, Waiting, On
<1> QED
  BY <1>12, <1>14, <1>15, <1>16, <1>17, <1>18 DEF IInv

\* An interrupt of the scheduler changes only registers that hold nothing.
LEMMA SchedulerStep ==
    ASSUME IInv, NEW x \in Hart, SchedulerInterrupt(x)
    PROVE  IInv'
<1> DEFINE c == h[x]
           d == [c EXCEPT !.sepc = "scheduler", !.spp = "S", !.spie = TRUE]
<1>1. c \in HartRecord /\ c.cur = Nobody
  BY DEF SchedulerInterrupt, IInv, HartOK
<1>2. h' = [h EXCEPT ![x] = d] /\ UNCHANGED <<p, killed>>
  BY DEF SchedulerInterrupt, SetH
<1> HIDE DEF c
<1>3. d \in HartRecord
  BY <1>1 DEF HartRecord, KernelPc
<1>4. d.user = c.user /\ d.stvec = c.stvec /\ d.cur = c.cur
  BY <1>1 DEF HartRecord
<1> HIDE DEF d
<1>5. HartOK' /\ ProcOK' /\ KilledOK'
  BY <1>2, <1>3 DEF IInv, HartOK, ProcOK, KilledOK
<1>6. h'[x] = d /\ (\A y \in Hart : y # x => h'[y] = h[y]) /\ p' = p
  BY <1>2 DEF IInv, HartOK
<1>7. \A y \in Hart : /\ h'[y].cur = h[y].cur /\ h'[y].user = h[y].user /\ h'[y].stvec = h[y].stvec
                      /\ h[y].cur # Nobody => h'[y] = h[y]
  BY <1>1, <1>4, <1>6 DEF c
<1>8. Alone' /\ Idle' /\ Stacks' /\ Waiting'
  BY <1>6, <1>7 DEF IInv, Alone, Idle, Stacks, Waiting, On
<1>9. Running'
  BY <1>6, <1>7, TrapAssumption DEF IInv, Running, On
<1> QED
  BY <1>5, <1>8, <1>9 DEF IInv

\* A kill sets a flag only.
LEMMA KillStep ==
    ASSUME IInv, NEW q \in Proc, Kill(q)
    PROVE  IInv'
BY DEF Kill, IInv, HartOK, ProcOK, KilledOK, Alone, Idle, Running, Stacks, Waiting, On

\* wakeup(), which changes no register and no stack.
LEMMA WakeupStep ==
    ASSUME IInv, NEW q \in Proc, Wakeup(q)
    PROVE  IInv'
BY DEF Wakeup, IInv, HartOK, ProcOK, KilledOK, Alone, Idle, Running, Stacks, Waiting, On

-----------------------------------------------------------------------------
(* The theorem. *)

\* The invariant holds in the initial states.
LEMMA InitIInv == Init => IInv
<1> SUFFICES ASSUME Init
             PROVE  IInv
  OBVIOUS
<1>1. HartOK /\ KilledOK
  BY DEF Init, HartOK, KilledOK, HartRecord, KernelPc
<1>2. ProcOK
  BY DEF Init, ProcOK, ProcRecord, KernelPc, Place, Pc
<1>3. \A x \in Hart : h[x].cur = Nobody /\ ~h[x].user /\ h[x].stvec = "kernelvec"
  BY DEF Init
<1>4. \A q \in Proc : p[q].at = "ret" /\ p[q].kt = "none" /\ p[q].epc = p[q].goal
  BY DEF Init
<1>5. Alone /\ Idle /\ Running
  BY <1>3, TrapAssumption DEF Alone, Idle, Running, On
<1>6. Stacks /\ Waiting
  BY <1>4 DEF Stacks, Waiting, Saved, Goal, Left, Inner
<1> QED
  BY <1>1, <1>2, <1>5, <1>6 DEF IInv

\* Every step preserves the invariant.
LEMMA NextIInv == IInv /\ [Next]_vars => IInv'
<1> SUFFICES ASSUME IInv, [Next]_vars
             PROVE  IInv'
  OBVIOUS
<1>1. CASE \E x \in Hart : SchedulerInterrupt(x)
  BY <1>1, SchedulerStep
<1>2. CASE \E q \in Proc : Kill(q) \/ Wakeup(q)
  BY <1>2, KillStep, WakeupStep
<1>3. ASSUME NEW x \in Hart, NEW q \in Proc, Kernel(x, q)
      PROVE  IInv'
  <2>1. CASE usertrap(x, q)
    BY <2>1, usertrapExit, usertrapGo
  <2>2. CASE syscall(x, q)
    BY <2>2, ServedStep, SleepStep DEF syscall
  <2>3. CASE After(x, q)
    BY <2>3, AfterExit, AfterTimer, AfterGo
  <2>4. CASE usertrapret(x, q) \/ Frame(x, q) \/ userret(x, q)
    BY <2>4, usertrapretStep, FrameStep, userretStep
  <2>5. CASE KernelReturn(x, q)
    BY <2>5, KernelReturnStep
  <2>6. ASSUME NEW timer \in BOOLEAN, kerneltrap(x, q, timer)
        PROVE  IInv'
    <3>1. CASE timer /\ p[q].at # "exited"
      <4>1. timer = TRUE
        BY <3>1
      <4> QED
        BY <2>6, <3>1, <4>1, kerneltrapTimer
    <3>2. CASE ~(timer /\ p[q].at # "exited")
      BY <2>6, <3>2, kerneltrapBack
    <3> QED
      BY <3>1, <3>2
  <2> QED
    BY <1>3, <2>1, <2>2, <2>3, <2>4, <2>5, <2>6 DEF Kernel
<1>4. ASSUME NEW x \in Hart, NEW q \in Proc,
             \/ KernelInterrupt(x, q) \/ Dispatch(x, q)
             \/ \E cause \in {"ecall", "timer", "device"} : UserTrap(x, q, cause)
      PROVE  IInv'
  BY <1>4, KernelInterruptStep, DispatchStep, UserTrapStep
<1>5. CASE UNCHANGED vars
  BY <1>5 DEF vars, IInv, HartOK, ProcOK, KilledOK, Alone, Idle, Running, Stacks, Waiting, On
<1> QED
  BY <1>1, <1>2, <1>3, <1>4, <1>5 DEF Next

\* Only processes sleep.
LEMMA AsleepStep == AsleepOK /\ [Next]_vars => AsleepOK'
<1> SUFFICES ASSUME AsleepOK, [Next]_vars
             PROVE  AsleepOK'
  OBVIOUS
<1>1. CASE \E x \in Hart : SchedulerInterrupt(x)
  BY <1>1 DEF SchedulerInterrupt, AsleepOK
<1>2. CASE \E q \in Proc : Kill(q) \/ Wakeup(q)
  BY <1>2 DEF Kill, Wakeup, AsleepOK
<1>3. ASSUME NEW x \in Hart, NEW q \in Proc, Kernel(x, q)
      PROVE  AsleepOK'
  <2>1. CASE Sleep(x, q)
    BY <2>1 DEF Sleep, AsleepOK
  <2>2. CASE UNCHANGED asleep
    BY <2>2 DEF AsleepOK
  <2> QED
    BY <1>3, <2>1, <2>2 DEF Kernel, usertrap, syscall, Served, After, usertrapret, Frame, userret,
                            KernelReturn, kerneltrap
<1>4. ASSUME NEW x \in Hart, NEW q \in Proc,
             \/ KernelInterrupt(x, q) \/ Dispatch(x, q)
             \/ \E cause \in {"ecall", "timer", "device"} : UserTrap(x, q, cause)
      PROVE  AsleepOK'
  BY <1>4 DEF KernelInterrupt, Dispatch, UserTrap, AsleepOK
<1>5. CASE UNCHANGED vars
  BY <1>5 DEF vars, AsleepOK
<1> QED
  BY <1>1, <1>2, <1>3, <1>4, <1>5 DEF Next

\* What the invariant says of the vectors and of the place to return to.
LEMMA Vectors == IInv => RightVector /\ UserResumes
<1> SUFFICES ASSUME IInv, NEW x \in Hart, NEW q \in Proc, On(x, q)
             PROVE  /\ h[x].user => h[x].stvec = "uservec" /\ h[x].sie /\ p[q].hartid = x
                    /\ ~h[x].user /\ h[x].sie => h[x].stvec = "kernelvec"
                    /\ At(x, q, "enter") => h[x].spp = "U"
                    /\ p[q].kt = "trap" => h[x].spp = "S" /\ ~h[x].sie
                    /\ At(x, q, "sret") => h[x].sepc = p[q].goal
  BY DEF RightVector, UserResumes, At
<1>1. /\ h[x] \in HartRecord /\ Control(x, h[x], p[q]) /\ Registers(h[x], p[q]) /\ Goal(p[q])
  BY Facts
<1>2. h[x].stvec \in {"uservec", "kernelvec"}
  BY <1>1 DEF HartRecord
<1> QED
  BY <1>1, <1>2 DEF Control, Registers, Goal, At, Inner

\* The registers that kerneltrap() restores are the ones its trap left.
LEMMA Returns == IInv /\ [Next]_vars => [ReturnStep]_vars
<1> SUFFICES ASSUME IInv, NEW x \in Hart, NEW q \in Proc, KernelReturn(x, q)
             PROVE  p'[q].at = p[q].at /\ ~h'[x].user /\ h'[x].sie
  BY DEF ReturnStep
<1> DEFINE c == h[x]
           s == p[q]
           r == [c EXCEPT !.sepc = s.sepc, !.spp = s.spp, !.spie = s.spie]
           d == [r EXCEPT !.user = r.spp = "U", !.sie = r.spie]
           t == [s EXCEPT !.kt = "none", !.at = r.sepc, !.sepc = "even", !.spp = "S", !.spie = TRUE]
<1>1. On(x, q) /\ s.kt = "back"
  BY DEF KernelReturn
<1>2. h' = [h EXCEPT ![x] = d] /\ p' = [p EXCEPT ![q] = t]
  BY DEF KernelReturn, Restored, SetH, SetP
<1>3. c \in HartRecord /\ s \in ProcRecord /\ Saved(s)
  BY <1>1, Facts
<1>4. h'[x] = d /\ p'[q] = t
  BY <1>2 DEF IInv, HartOK, ProcOK
<1> HIDE DEF c, s
<1>5. r.sepc = s.sepc /\ r.spp = s.spp /\ r.spie = s.spie
  BY <1>3 DEF HartRecord
<1>6. d.user = (r.spp = "U") /\ d.sie = r.spie /\ t.at = r.sepc
  BY <1>3 DEF HartRecord, ProcRecord
<1> HIDE DEF r, d, t
<1>7. t.at = s.at /\ ~d.user /\ d.sie
  BY <1>1, <1>3, <1>5, <1>6 DEF Saved
<1> QED
  BY <1>4, <1>7 DEF s

\* A trap from user mode enters usertrap() and a trap from the kernel kerneltrap(), so
\* that neither panics; the program goes on at the place its trap frame kept, and
\* kernel code that was interrupted goes on where it was, in supervisor mode and with
\* interrupts on, although yield() inside kerneltrap() moves it to another hart.
THEOREM TrapSafety == Spec => TrapsReturn
<1>1. Init => IInv /\ AsleepOK
  BY InitIInv DEF Init, AsleepOK
<1>2. IInv /\ AsleepOK /\ [Next]_vars => IInv' /\ AsleepOK'
  BY NextIInv, AsleepStep
<1>3. IInv /\ AsleepOK => TypeOK /\ RightVector /\ UserResumes
  BY TypeParts, Vectors
<1>4. IInv /\ [Next]_vars => [ReturnStep]_vars
  BY Returns
<1> QED
  BY <1>1, <1>2, <1>3, <1>4, PTL DEF Spec, TrapsReturn
=============================================================================
