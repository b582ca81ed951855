----------------------------- MODULE ProcLocks -----------------------------
(***************************************************************************)
(* Every step of Proc preserves the types, the agreement of states and     *)
(* thread positions, the ownership of locks and CPUs, and the pids.        *)
(***************************************************************************)
EXTENDS Proc, TLAPS

\* Slots and cursors as the steps use them, so that the intervals stay folded.
LEMMA SlotFacts ==
    /\ initproc \in Slot
    /\ NoProc \notin Slot
    /\ 0 \in Cursor
    /\ \A x \in Cursor : x < NPROC => x \in Slot /\ x + 1 \in Cursor
    /\ \A x \in Cursor : x \in Nat /\ x <= NPROC
    /\ \A x \in Slot : x \in Nat /\ x < NPROC
BY NPROCAssumption DEF Slot, Cursor, NoProc, initproc

\* A cursor that has passed one more slot has passed that slot and the ones before.
LEMMA PassedSlot ==
    \A q, x \in Slot : /\ q < x + 1 <=> q < x \/ q = x
                       /\ x + 1 > q <=> x > q \/ x = q
BY NPROCAssumption DEF Slot

USE DEF At, Goto, Free, tableVars, lockVars, localVars, RetLabels, ExitLabels, WaitLabels

\* Every step keeps the types; reparent()'s cursor stays in range because a slot
\* was found before wakeup(initproc) was called.
LEMMA TypeStep ==
    ASSUME IInv, NEW c \in CPU, NEW p \in Slot, Step(c, p)
    PROVE  TypeOK'
<1> USE SlotFacts, CPUAssumption, BoundAssumption DEF IInv, TypeOK, States, Preemptible, Labels
<1>1. CASE Switch(c, p)
  <2>1. CASE Yield(c, p)
    BY <2>1 DEF Yield
  <2>2. CASE YieldRet(c, p)
    BY <2>2 DEF YieldRet
  <2>3. CASE SchedPick(c, p) \/ SwtchBack(c, p) \/ Forkret(c, p)
    BY <2>3 DEF SchedPick, SwtchBack, Forkret
  <2> QED
    BY <1>1, <2>1, <2>2, <2>3 DEF Switch
<1>2. CASE Trap(c, p)
  <2>1. CASE Syscall(c, p)
    BY <2>1 DEF Syscall
  <2>2. CASE UsertrapKilled(c, p) \/ UsertrapFault(c, p) \/ Sysret(c, p)
    BY <2>2 DEF UsertrapKilled, UsertrapFault, Sysret
  <2> QED
    BY <1>2, <2>1, <2>2 DEF Trap
<1>3. CASE Fork(c, p)
  <2>1. CASE ForkScan(c, p)
    BY <2>1 DEF ForkScan
  <2>2. CASE ForkAlloc(c, p)
    BY <2>2 DEF ForkAlloc
  <2>3. CASE ForkNoMemory(c, p)
    BY <2>3 DEF ForkNoMemory
  <2>4. CASE ForkNoSlot(c, p) \/ ForkPublish(c, p) \/ ForkRunnable(c, p)
    BY <2>4 DEF ForkNoSlot, ForkPublish, ForkRunnable
  <2> QED
    BY <1>3, <2>1, <2>2, <2>3, <2>4 DEF Fork
<1>4. CASE Exit(c, p)
  <2>1. CASE Reparent(c, p)
    BY <2>1 DEF Reparent
  <2>2. CASE Wakeup(c, p)
    BY <2>2 DEF Wakeup, WakeSlot
  <2>3. CASE WakeupDone(c, p)
    BY <2>3 DEF WakeupDone, ExitInv
  <2>4. CASE ReparentDone(c, p) \/ ExitZombie(c, p)
    BY <2>4 DEF ReparentDone, ExitZombie
  <2>5. CASE ExitInit(c, p) \/ PanicSpin(c, p) \/ ExitEnter(c, p)
    BY <2>5 DEF ExitInit, PanicSpin, ExitEnter, vars
  <2> QED
    BY <1>4, <2>1, <2>2, <2>3, <2>4, <2>5 DEF Exit
<1>5. CASE Wait(c, p)
  <2>1. CASE WaitScan(c, p)
    BY <2>1 DEF WaitScan
  <2>2. CASE WaitReap(c, p)
    BY <2>2 DEF WaitReap
  <2>3. CASE WaitFail(c, p)
    BY <2>3 DEF WaitFail
  <2>5. CASE WaitSleepy(c, p)
    BY <2>5 DEF WaitSleepy
  <2>4. CASE WaitEnter(c, p) \/ Sleep(c, p) \/ SleepRet(c, p)
    BY <2>4 DEF WaitEnter, Sleep, SleepRet
  <2> QED
    BY <1>5, <2>1, <2>2, <2>3, <2>4, <2>5 DEF Wait
<1>6. CASE Kill(c, p)
  <2>1. CASE KillScan(c, p)
    BY <2>1 DEF KillScan
  <2>2. CASE KillHit(c, p)
    BY <2>2 DEF KillHit
  <2>3. CASE KillMiss(c, p)
    BY <2>3 DEF KillMiss
  <2> QED
    BY <1>6, <2>1, <2>2, <2>3 DEF Kill
<1> QED
  BY <1>1, <1>2, <1>3, <1>4, <1>5, <1>6 DEF Step

\* The state of a slot and the position of its thread agree.
LEMMA StateStep ==
    ASSUME IInv, NEW c \in CPU, NEW p \in Slot, Step(c, p)
    PROVE  StateInv'
<1> USE SlotFacts, CPUAssumption DEF IInv, TypeOK, StateInv
<1>1. CASE Switch(c, p)
  <2>1. CASE YieldRet(c, p)
    BY <2>1 DEF YieldRet, Preemptible
  <2>2. CASE \/ SchedPick(c, p)
             \/ SwtchBack(c, p)
             \/ Forkret(c, p)
             \/ Yield(c, p)
    BY <2>2 DEF SchedPick, SwtchBack, Forkret, Yield, Preemptible
  <2> QED
    BY <1>1, <2>1, <2>2 DEF Switch
<1>2. CASE Trap(c, p)
  BY <1>2 DEF Trap, UsertrapKilled, UsertrapFault, Syscall, Sysret
<1>3. CASE Fork(c, p)
  <2>1. CASE ForkRunnable(c, p)
    BY <2>1 DEF ForkRunnable, ForkInv, Where
  <2>2. CASE \/ ForkScan(c, p)
             \/ ForkNoSlot(c, p)
             \/ ForkAlloc(c, p)
             \/ ForkNoMemory(c, p)
             \/ ForkPublish(c, p)
    BY <2>2 DEF ForkScan, ForkNoSlot, ForkAlloc, ForkNoMemory, ForkPublish
  <2> QED
    BY <1>3, <2>1, <2>2 DEF Fork
<1>4. CASE Exit(c, p)
  BY <1>4 DEF Exit, ExitInit, PanicSpin, vars, ExitEnter, Reparent, ReparentDone,
              Wakeup, WakeSlot, WakeupDone, ExitZombie
<1>5. CASE Wait(c, p)
  BY <1>5 DEF Wait, WaitEnter, WaitScan, WaitReap, WaitFail, WaitSleepy, Sleep, SleepRet
<1>6. CASE Kill(c, p)
  BY <1>6 DEF Kill, KillScan, KillHit, KillMiss
<1> QED
  BY <1>1, <1>2, <1>3, <1>4, <1>5, <1>6 DEF Step

\* A slot is picked only while its lock is free, so by no second CPU.
LEMMA CpuStep ==
    ASSUME IInv, NEW c \in CPU, NEW p \in Slot, Step(c, p)
    PROVE  CpuInv'
<1> USE SlotFacts, CPUAssumption DEF IInv, TypeOK, CpuInv
<1>1. CASE Switch(c, p)
  <2>1. CASE SchedPick(c, p)
    BY <2>1 DEF SchedPick, LockInv
  <2>2. CASE \/ SwtchBack(c, p)
             \/ Forkret(c, p)
             \/ Yield(c, p)
             \/ YieldRet(c, p)
    BY <2>2 DEF SwtchBack, Forkret, Yield, Preemptible, YieldRet, Preemptible
  <2> QED
    BY <1>1, <2>1, <2>2 DEF Switch
<1>2. CASE Trap(c, p)
  BY <1>2 DEF Trap, UsertrapKilled, UsertrapFault, Syscall, Sysret
<1>3. CASE Fork(c, p)
  BY <1>3 DEF Fork, ForkScan, ForkNoSlot, ForkAlloc, ForkNoMemory, ForkPublish,
              ForkRunnable
<1>4. CASE Exit(c, p)
  BY <1>4 DEF Exit, ExitInit, PanicSpin, vars, ExitEnter, Reparent, ReparentDone,
              Wakeup, WakeSlot, WakeupDone, ExitZombie
<1>5. CASE Wait(c, p)
  BY <1>5 DEF Wait, WaitEnter, WaitScan, WaitReap, WaitFail, WaitSleepy, Sleep, SleepRet
<1>6. CASE Kill(c, p)
  BY <1>6 DEF Kill, KillScan, KillHit, KillMiss
<1> QED
  BY <1>1, <1>2, <1>3, <1>4, <1>5, <1>6 DEF Step

\* Which CPU holds which lock follows from where the threads are.
LEMMA LockStep ==
    ASSUME IInv, NEW c \in CPU, NEW p \in Slot, Step(c, p)
    PROVE  LockInv'
<1> USE SlotFacts, CPUAssumption DEF IInv, TypeOK, LockInv
<1>1. CASE Switch(c, p)
  <2>1. CASE SchedPick(c, p)
    BY <2>1 DEF SchedPick, StateInv
  <2>2. CASE Yield(c, p)
    BY <2>2 DEF Yield, Preemptible, CpuInv
  <2>3. CASE YieldRet(c, p)
    BY <2>3 DEF YieldRet, Preemptible
  <2>4. CASE \/ SwtchBack(c, p)
             \/ Forkret(c, p)
    BY <2>4 DEF SwtchBack, Forkret
  <2> QED
    BY <1>1, <2>1, <2>2, <2>3, <2>4 DEF Switch
<1>2. CASE Trap(c, p)
  BY <1>2 DEF Trap, UsertrapKilled, UsertrapFault, Syscall, Sysret
<1>3. CASE Fork(c, p)
  <2>1. CASE ForkRunnable(c, p)
    BY <2>1 DEF ForkRunnable, ForkInv, Where
  <2>2. CASE \/ ForkScan(c, p)
             \/ ForkNoSlot(c, p)
             \/ ForkAlloc(c, p)
             \/ ForkNoMemory(c, p)
             \/ ForkPublish(c, p)
    BY <2>2 DEF ForkScan, ForkNoSlot, ForkAlloc, ForkNoMemory, ForkPublish
  <2> QED
    BY <1>3, <2>1, <2>2 DEF Fork
<1>4. CASE Exit(c, p)
  <2>1. CASE ExitEnter(c, p)
    BY <2>1 DEF ExitEnter, CpuInv
  <2>2. CASE \/ ExitInit(c, p)
             \/ PanicSpin(c, p)
             \/ Reparent(c, p)
             \/ ReparentDone(c, p)
             \/ Wakeup(c, p)
             \/ WakeupDone(c, p)
             \/ ExitZombie(c, p)
    BY <2>2 DEF ExitInit, PanicSpin, vars, Reparent, ReparentDone, Wakeup, WakeSlot,
                WakeupDone, ExitZombie
  <2> QED
    BY <1>4, <2>1, <2>2 DEF Exit
<1>5. CASE Wait(c, p)
  <2>1. CASE WaitEnter(c, p)
    BY <2>1 DEF WaitEnter, CpuInv
  <2>2. CASE \/ WaitScan(c, p)
             \/ WaitReap(c, p)
             \/ WaitFail(c, p)
             \/ WaitSleepy(c, p)
             \/ Sleep(c, p)
             \/ SleepRet(c, p)
    BY <2>2 DEF WaitScan, WaitReap, WaitFail, WaitSleepy, Sleep, SleepRet
  <2> QED
    BY <1>5, <2>1, <2>2 DEF Wait
<1>6. CASE Kill(c, p)
  BY <1>6 DEF Kill, KillScan, KillHit, KillMiss
<1> QED
  BY <1>1, <1>2, <1>3, <1>4, <1>5, <1>6 DEF Step

\* A loop starts at slot 0 and leaves its cursor at 0.
LEMMA LocalStep ==
    ASSUME IInv, NEW c \in CPU, NEW p \in Slot, Step(c, p)
    PROVE  LocalInv'
<1> USE SlotFacts, CPUAssumption DEF IInv, TypeOK, LocalInv, Where
<1>1. CASE Switch(c, p)
  BY <1>1 DEF Switch, SchedPick, SwtchBack, Forkret, Yield, Preemptible, YieldRet,
              Preemptible
<1>2. CASE Trap(c, p)
  BY <1>2 DEF Trap, UsertrapKilled, UsertrapFault, Syscall, Sysret
<1>3. CASE Fork(c, p)
  <2>1. CASE ForkAlloc(c, p)
    BY <2>1 DEF ForkAlloc, StateInv
  <2>2. CASE \/ ForkScan(c, p)
             \/ ForkNoSlot(c, p)
             \/ ForkNoMemory(c, p)
             \/ ForkPublish(c, p)
             \/ ForkRunnable(c, p)
    BY <2>2 DEF ForkScan, ForkNoSlot, ForkNoMemory, ForkPublish, ForkRunnable
  <2> QED
    BY <1>3, <2>1, <2>2 DEF Fork
<1>4. CASE Exit(c, p)
  BY <1>4 DEF Exit, ExitInit, PanicSpin, vars, ExitEnter, Reparent, ReparentDone,
              Wakeup, WakeSlot, WakeupDone, ExitZombie
<1>5. CASE Wait(c, p)
  <2>1. CASE WaitReap(c, p)
    BY <2>1 DEF WaitReap, StateInv
  <2>2. CASE \/ WaitEnter(c, p)
             \/ WaitScan(c, p)
             \/ WaitFail(c, p)
             \/ WaitSleepy(c, p)
             \/ Sleep(c, p)
             \/ SleepRet(c, p)
    BY <2>2 DEF WaitEnter, WaitScan, WaitFail, WaitSleepy, Sleep, SleepRet
  <2> QED
    BY <1>5, <2>1, <2>2 DEF Wait
<1>6. CASE Kill(c, p)
  BY <1>6 DEF Kill, KillScan, KillHit, KillMiss
<1> QED
  BY <1>1, <1>2, <1>3, <1>4, <1>5, <1>6 DEF Step

\* A pid in the table is below nextpid, so a fresh one is new.
LEMMA PidStep ==
    ASSUME IInv, NEW c \in CPU, NEW p \in Slot, Step(c, p)
    PROVE  PidInv'
<1> USE SlotFacts, CPUAssumption DEF IInv, TypeOK, PidInv, PidsUnique
<1>1. CASE Switch(c, p)
  BY <1>1 DEF Switch, SchedPick, SwtchBack, Forkret, Yield, Preemptible, YieldRet,
              Preemptible
<1>2. CASE Trap(c, p)
  BY <1>2 DEF Trap, UsertrapKilled, UsertrapFault, Syscall, Sysret
<1>3. CASE Fork(c, p)
  <2>1. CASE ForkRunnable(c, p)
    BY <2>1 DEF ForkRunnable, ForkInv, Where
  <2>2. CASE \/ ForkScan(c, p)
             \/ ForkNoSlot(c, p)
             \/ ForkAlloc(c, p)
             \/ ForkNoMemory(c, p)
             \/ ForkPublish(c, p)
    BY <2>2 DEF ForkScan, ForkNoSlot, ForkAlloc, ForkNoMemory, ForkPublish
  <2> QED
    BY <1>3, <2>1, <2>2 DEF Fork
<1>4. CASE Exit(c, p)
  BY <1>4 DEF Exit, ExitInit, PanicSpin, vars, ExitEnter, Reparent, ReparentDone,
              Wakeup, WakeSlot, WakeupDone, ExitZombie
<1>5. CASE Wait(c, p)
  <2>1. CASE WaitReap(c, p)
    BY <2>1 DEF WaitReap
  <2>2. CASE \/ WaitEnter(c, p) \/ WaitScan(c, p) \/ WaitFail(c, p)
             \/ WaitSleepy(c, p) \/ Sleep(c, p) \/ SleepRet(c, p)
    BY <2>2 DEF WaitEnter, WaitScan, WaitFail, WaitSleepy, Sleep, SleepRet
  <2> QED
    BY <1>5, <2>1, <2>2 DEF Wait
<1>6. CASE Kill(c, p)
  BY <1>6 DEF Kill, KillScan, KillHit, KillMiss
<1> QED
  BY <1>1, <1>2, <1>3, <1>4, <1>5, <1>6 DEF Step

\* One thread at a time is in the part of exit() or wait() that holds wait_lock.
LEMMA WaitLockOwner ==
    ASSUME IInv, NEW p \in Slot, pc[p] \in ExitLabels \cup WaitLabels,
                 NEW q \in Slot, pc[q] \in ExitLabels \cup WaitLabels
    PROVE  p = q
<1>1. state[p] = "RUNNING" /\ state[q] = "RUNNING"
  BY DEF IInv, TypeOK, StateInv, States
<1>2. PICK c \in CPU : cpuproc[c] = p
  BY <1>1 DEF IInv, CpuInv
<1>3. PICK d \in CPU : cpuproc[d] = q
  BY <1>1 DEF IInv, CpuInv
<1> QED
  BY <1>1, <1>2, <1>3 DEF IInv, LockInv

=============================================================================
