----------------------------- MODULE ProcProofs -----------------------------
(***************************************************************************)
(* IInv is an inductive invariant of Proc, for every table size, every set *)
(* of CPUs and every bound; the safety properties of Proc follow from it.  *)
(* One lemma per conjunct of IInv, here or in ProcLocks, says that every   *)
(* step preserves it.                                                      *)
(***************************************************************************)
EXTENDS ProcLocks

USE DEF At, Goto, Free, tableVars, lockVars, localVars, RetLabels, ExitLabels, WaitLabels

-----------------------------------------------------------------------------
(* The process tree, and what fork(), exit() and wait() have established at    *)
(* each of their steps.                                                        *)

\* A USED slot has exactly one forking thread.
LEMMA ForkStep ==
    ASSUME IInv, NEW c \in CPU, NEW p \in Slot, Step(c, p)
    PROVE  ForkInv'
<1> USE SlotFacts, CPUAssumption DEF IInv, TypeOK, ForkInv, Where
<1>1. CASE Switch(c, p)
  BY <1>1 DEF Switch, SchedPick, SwtchBack, Forkret, Yield, Preemptible, YieldRet,
              Preemptible
<1>2. CASE Trap(c, p)
  BY <1>2 DEF Trap, UsertrapKilled, UsertrapFault, Syscall, Sysret
<1>3. CASE Fork(c, p)
  <2>1. CASE ForkAlloc(c, p)
    BY <2>1 DEF ForkAlloc, StateInv, TreeInv, ParentAlive
  <2>2. CASE \/ ForkScan(c, p)
             \/ ForkNoSlot(c, p)
             \/ ForkNoMemory(c, p)
             \/ ForkPublish(c, p)
             \/ ForkRunnable(c, p)
    BY <2>2 DEF ForkScan, ForkNoSlot, ForkNoMemory, ForkPublish, ForkRunnable
  <2> QED
    BY <1>3, <2>1, <2>2 DEF Fork
<1>4. CASE Exit(c, p)
  BY <1>4 DEF Exit, ExitInit, PanicSpin, vars, ExitEnter, Reparent, ReparentDone,
              Wakeup, WakeSlot, WakeupDone, ExitZombie
<1>5. CASE Wait(c, p)
  <2>1. CASE WaitReap(c, p)
    BY <2>1 DEF WaitReap, StateInv
  <2>2. CASE \/ WaitEnter(c, p)
             \/ WaitScan(c, p)
             \/ WaitFail(c, p)
             \/ WaitSleepy(c, p)
             \/ Sleep(c, p)
             \/ SleepRet(c, p)
    BY <2>2 DEF WaitEnter, WaitScan, WaitFail, WaitSleepy, Sleep, SleepRet
  <2> QED
    BY <1>5, <2>1, <2>2 DEF Wait
<1>6. CASE Kill(c, p)
  BY <1>6 DEF Kill, KillScan, KillHit, KillMiss
<1> QED
  BY <1>1, <1>2, <1>3, <1>4, <1>5, <1>6 DEF Step

\* The parent of a process stays alive: exit() leaves no child behind.
LEMMA TreeStep ==
    ASSUME IInv, NEW c \in CPU, NEW p \in Slot, Step(c, p)
    PROVE  TreeInv'
<1> USE SlotFacts, CPUAssumption DEF IInv, TypeOK, TreeInv, ParentAlive
<1>1. CASE Switch(c, p)
  BY <1>1 DEF Switch, SchedPick, SwtchBack, Forkret, Yield, Preemptible, YieldRet,
              Preemptible
<1>2. CASE Trap(c, p)
  BY <1>2 DEF Trap, UsertrapKilled, UsertrapFault, Syscall, Sysret
<1>3. CASE Fork(c, p)
  <2>1. CASE ForkPublish(c, p)
    BY <2>1 DEF ForkPublish, ForkInv, Where
  <2>2. CASE ForkRunnable(c, p)
    BY <2>2 DEF ForkRunnable, ForkInv, Where
  <2>3. CASE \/ ForkScan(c, p)
             \/ ForkNoSlot(c, p)
             \/ ForkAlloc(c, p)
             \/ ForkNoMemory(c, p)
    BY <2>3 DEF ForkScan, ForkNoSlot, ForkAlloc, ForkNoMemory
  <2> QED
    BY <1>3, <2>1, <2>2, <2>3 DEF Fork
<1>4. CASE Exit(c, p)
  <2>1. CASE ExitZombie(c, p)
    BY <2>1 DEF ExitZombie, ExitInv
  <2>2. CASE \/ ExitInit(c, p)
             \/ PanicSpin(c, p)
             \/ ExitEnter(c, p)
             \/ Reparent(c, p)
             \/ ReparentDone(c, p)
             \/ Wakeup(c, p)
             \/ WakeupDone(c, p)
    BY <2>2 DEF ExitInit, PanicSpin, vars, ExitEnter, Reparent, ReparentDone, Wakeup,
                WakeSlot, WakeupDone
  <2> QED
    BY <1>4, <2>1, <2>2 DEF Exit
<1>5. CASE Wait(c, p)
  BY <1>5 DEF Wait, WaitEnter, WaitScan, WaitReap, WaitFail, WaitSleepy, Sleep, SleepRet
<1>6. CASE Kill(c, p)
  BY <1>6 DEF Kill, KillScan, KillHit, KillMiss
<1> QED
  BY <1>1, <1>2, <1>3, <1>4, <1>5, <1>6 DEF Step

\* What the cursor of reparent() has passed is no child of p, nor is the slot that
\* has just been given to init.
LEMMA ReparentSelf ==
    ASSUME IInv, NEW c \in CPU, NEW p \in Slot, Reparent(c, p)
    PROVE  ExitInv!(p)'
<1> USE SlotFacts DEF IInv, TypeOK
<1>1. /\ i[p] \in Slot /\ pc[p] = "reparent" /\ p # initproc
      /\ \A q \in Slot : q < i[p] => parent[q] # p
  BY DEF Reparent, ExitInv
<1>2. CASE parent[i[p]] = p
  <2>1. pc'[p] = "reparent_wake" /\ i' = i /\ j' = j /\ j[p] = 0
    BY <1>1, <1>2 DEF Reparent, LocalInv
  <2>2. \A q \in Slot : q <= i[p] => parent'[q] # p
    BY <1>1, <1>2 DEF Reparent
  <2> QED
    BY <1>1, <2>1, <2>2
<1>3. CASE parent[i[p]] # p
  <2>1. pc'[p] = "reparent" /\ i'[p] = i[p] + 1 /\ parent' = parent
    BY <1>1, <1>3 DEF Reparent
  <2> QED
    BY <1>1, <1>3, <2>1, PassedSlot
<1> QED
  BY <1>2, <1>3

\* What the cursor of wakeup() has passed is not asleep.
LEMMA WakeupSelf ==
    ASSUME IInv, NEW c \in CPU, NEW p \in Slot, Wakeup(c, p)
    PROVE  ExitInv!(p)'
<1> USE SlotFacts DEF IInv, TypeOK
<1>1. /\ j[p] \in Slot /\ j'[p] = j[p] + 1 /\ pc' = pc /\ i' = i /\ parent' = parent
      /\ p # initproc
  BY DEF Wakeup, ExitInv
<1>2. \A q \in Slot : state[q] # "SLEEPING" => state'[q] # "SLEEPING"
  BY <1>1 DEF Wakeup, WakeSlot
<1>3. CASE pc[p] = "reparent_wake"
  <2>1. j[p] = initproc => state'[initproc] # "SLEEPING"
    BY <1>1, <1>3 DEF Wakeup, WakeSlot, StateInv
  <2> QED
    BY <1>1, <1>2, <1>3, <2>1, PassedSlot DEF ExitInv
<1>4. CASE pc[p] = "exit_wake"
  <2>1. parent[p] \in Slot /\ parent[p] # p
    BY <1>1, <1>4 DEF Wakeup, TreeInv, ParentAlive, ExitInv
  <2>2. j[p] = parent[p] => state'[parent[p]] # "SLEEPING"
    BY <1>1, <1>4, <2>1 DEF Wakeup, WakeSlot, StateInv
  <2> QED
    BY <1>1, <1>2, <1>4, <2>1, <2>2, PassedSlot DEF ExitInv
<1> QED
  BY <1>3, <1>4 DEF Wakeup

\* What the cursor of wait() has passed is no zombie child of p.
LEMMA WaitScanSelf ==
    ASSUME IInv, NEW c \in CPU, NEW p \in Slot, WaitScan(c, p)
    PROVE  WaitInv!(p)'
<1> USE SlotFacts DEF IInv, TypeOK
<1>1. /\ i[p] \in Slot /\ i'[p] = i[p] + 1 /\ pc' = pc /\ pc[p] = "wait_scan"
      /\ parent' = parent /\ state' = state
      /\ parent[i[p]] = p => state[i[p]] # "ZOMBIE"
      /\ havekids'[p] => havekids[p] \/ parent[i[p]] = p
  BY DEF WaitScan
<1> QED
  BY <1>1, PassedSlot DEF WaitInv

\* A step keeps what exit() has established if it moves no thread of exit(), gives
\* no child to such a thread or to a zombie, and puts nobody to sleep.
LEMMA ExitFrame ==
    ASSUME IInv,
           \A r \in Slot : pc'[r] \in ExitLabels \cup {"zombie"} =>
               pc'[r] = pc[r] /\ i'[r] = i[r] /\ j'[r] = j[r] /\ parent'[r] = parent[r],
           \A q, r \in Slot : parent'[q] = r /\ parent[q] # r =>
               pc'[r] \notin ExitLabels \cup {"zombie"},
           \A q \in Slot : state'[q] = "SLEEPING" => state[q] = "SLEEPING"
    PROVE  ExitInv'
<1> SUFFICES ASSUME NEW r \in Slot, pc'[r] \in ExitLabels \cup {"zombie"}
             PROVE  ExitInv!(r)'
  BY DEF ExitInv
<1>1. pc'[r] = pc[r] /\ i'[r] = i[r] /\ j'[r] = j[r] /\ parent'[r] = parent[r]
  OBVIOUS
<1>2. \A q \in Slot : parent[q] # r => parent'[q] # r
  OBVIOUS
<1>3. pc[r] \in ExitLabels => parent[r] \in Slot
  BY DEF IInv, TypeOK, TreeInv, ParentAlive, StateInv, ExitInv
<1> QED
  BY <1>1, <1>2, <1>3, SlotFacts DEF IInv, ExitInv

\* wait_lock keeps what exit() has established until it is a zombie.
LEMMA ExitStep ==
    ASSUME IInv, NEW c \in CPU, NEW p \in Slot, Step(c, p)
    PROVE  ExitInv'
<1> USE SlotFacts DEF IInv, TypeOK
<1>1. CASE Switch(c, p)
  BY <1>1, ExitFrame DEF Switch, SchedPick, SwtchBack, Forkret, Yield, YieldRet, Preemptible
<1>2. CASE Trap(c, p)
  BY <1>2, ExitFrame DEF Trap, UsertrapKilled, UsertrapFault, Syscall, Sysret
<1>3. CASE Fork(c, p)
  <2>1. CASE ForkPublish(c, p)
    <3>1. pc[arg[p]] = "forkret" /\ arg[p] \in Slot
      BY <2>1 DEF ForkPublish, ForkInv, Where, StateInv
    <3> QED
      BY <2>1, <3>1, ExitFrame DEF ForkPublish
  <2>2. CASE \/ ForkScan(c, p) \/ ForkNoSlot(c, p) \/ ForkAlloc(c, p)
             \/ ForkNoMemory(c, p) \/ ForkRunnable(c, p)
    BY <2>2, ExitFrame DEF ForkScan, ForkNoSlot, ForkAlloc, ForkNoMemory, ForkRunnable,
                           StateInv
  <2> QED
    BY <1>3, <2>1, <2>2 DEF Fork
<1>4. CASE Exit(c, p)
  <2>1. CASE ExitInit(c, p) \/ PanicSpin(c, p)
    BY <2>1, ExitFrame DEF ExitInit, PanicSpin, vars
  <2>2. CASE ExitEnter(c, p)
    BY <2>2 DEF ExitEnter, ExitInv, LocalInv, Where
  <2>3. CASE Reparent(c, p)
    <3>1. \A r \in Slot : pc[r] \in ExitLabels => r = p
      BY <2>3, WaitLockOwner DEF Reparent
    <3>2. ExitInv!(p)'
      BY <2>3, ReparentSelf
    <3>3. ASSUME NEW r \in Slot, r # p PROVE ExitInv!(r)'
      BY <2>3, <3>1, <3>3 DEF Reparent, ExitInv, TreeInv, StateInv
    <3> QED
      BY <3>2, <3>3 DEF ExitInv
  <2>4. CASE ReparentDone(c, p)
    BY <2>4 DEF ReparentDone, ExitInv, LocalInv, Where, TreeInv, ParentAlive
  <2>5. CASE Wakeup(c, p)
    <3>1. \A r \in Slot : pc[r] \in ExitLabels => r = p
      BY <2>5, WaitLockOwner DEF Wakeup
    <3>2. ExitInv!(p)'
      BY <2>5, WakeupSelf
    <3>3. ASSUME NEW r \in Slot, r # p PROVE ExitInv!(r)'
      BY <2>5, <3>1, <3>3 DEF Wakeup, ExitInv
    <3> QED
      BY <3>2, <3>3 DEF ExitInv
  <2>6. CASE WakeupDone(c, p)
    BY <2>6 DEF WakeupDone, ExitInv, TreeInv, ParentAlive
  <2>7. CASE ExitZombie(c, p)
    BY <2>7 DEF ExitZombie, ExitInv
  <2> QED
    BY <1>4, <2>1, <2>2, <2>3, <2>4, <2>5, <2>6, <2>7 DEF Exit
<1>5. CASE Wait(c, p)
  <2>1. CASE Sleep(c, p)
    <3>1. \A r \in Slot : pc[r] \notin ExitLabels
      BY <2>1, WaitLockOwner DEF Sleep
    <3> QED
      BY <2>1, <3>1 DEF Sleep, ExitInv
  <2>2. CASE \/ WaitEnter(c, p) \/ WaitScan(c, p) \/ WaitReap(c, p) \/ WaitFail(c, p)
             \/ WaitSleepy(c, p) \/ SleepRet(c, p)
    BY <2>2, ExitFrame DEF WaitEnter, WaitScan, WaitReap, WaitFail, WaitSleepy, SleepRet
  <2> QED
    BY <1>5, <2>1, <2>2 DEF Wait
<1>6. CASE Kill(c, p)
  BY <1>6, ExitFrame DEF Kill, KillScan, KillHit, KillMiss
<1> QED
  BY <1>1, <1>2, <1>3, <1>4, <1>5, <1>6 DEF Step

\* wait_lock keeps what the scan of wait() has seen until it sleeps.
LEMMA WaitStep ==
    ASSUME IInv, NEW c \in CPU, NEW p \in Slot, Step(c, p)
    PROVE  WaitInv'
<1> USE SlotFacts, CPUAssumption DEF IInv, TypeOK, WaitInv
<1>1. CASE Switch(c, p)
  <2>1. CASE YieldRet(c, p)
    BY <2>1 DEF YieldRet, Preemptible
  <2>2. CASE \/ SchedPick(c, p)
             \/ SwtchBack(c, p)
             \/ Forkret(c, p)
             \/ Yield(c, p)
    BY <2>2 DEF SchedPick, SwtchBack, Forkret, Yield, Preemptible
  <2> QED
    BY <1>1, <2>1, <2>2 DEF Switch
<1>2. CASE Trap(c, p)
  BY <1>2 DEF Trap, UsertrapKilled, UsertrapFault, Syscall, Sysret
<1>3. CASE Fork(c, p)
  <2>1. CASE ForkNoMemory(c, p)
    BY <2>1 DEF ForkNoMemory, TreeInv, ParentAlive
  <2>2. CASE ForkPublish(c, p)
    BY <2>2 DEF ForkPublish, ForkInv, Where
  <2>3. CASE \/ ForkScan(c, p)
             \/ ForkNoSlot(c, p)
             \/ ForkAlloc(c, p)
             \/ ForkRunnable(c, p)
    BY <2>3 DEF ForkScan, ForkNoSlot, ForkAlloc, ForkRunnable
  <2> QED
    BY <1>3, <2>1, <2>2, <2>3 DEF Fork
<1>4. CASE Exit(c, p)
  <2>1. CASE Reparent(c, p)
    <3>1. \A r \in Slot : pc[r] \notin WaitLabels
      BY <2>1, WaitLockOwner DEF Reparent
    <3> QED
      BY <2>1, <3>1 DEF Reparent
  <2>2. CASE ExitZombie(c, p)
    <3>1. \A r \in Slot : pc[r] \notin WaitLabels
      BY <2>2, WaitLockOwner DEF ExitZombie
    <3> QED
      BY <2>2, <3>1 DEF ExitZombie
  <2>3. CASE \/ ExitInit(c, p)
             \/ PanicSpin(c, p)
             \/ ExitEnter(c, p)
             \/ ReparentDone(c, p)
             \/ Wakeup(c, p)
             \/ WakeupDone(c, p)
    BY <2>3 DEF ExitInit, PanicSpin, vars, ExitEnter, ReparentDone, Wakeup, WakeSlot,
                WakeupDone
  <2> QED
    BY <1>4, <2>1, <2>2, <2>3 DEF Exit
<1>5. CASE Wait(c, p)
  <2>1. CASE WaitEnter(c, p)
    BY <2>1 DEF WaitEnter, LocalInv, Where
  <2>2. CASE WaitScan(c, p)
    <3>1. WaitInv!(p)'
      BY <2>2, WaitScanSelf
    <3>2. ASSUME NEW r \in Slot, r # p PROVE WaitInv!(r)'
      BY <2>2, <3>2 DEF WaitScan
    <3> QED
      BY <3>1, <3>2
  <2>3. CASE \/ WaitReap(c, p)
             \/ WaitFail(c, p)
             \/ WaitSleepy(c, p)
             \/ Sleep(c, p)
             \/ SleepRet(c, p)
    BY <2>3 DEF WaitReap, WaitFail, WaitSleepy, Sleep, SleepRet
  <2> QED
    BY <1>5, <2>1, <2>2, <2>3 DEF Wait
<1>6. CASE Kill(c, p)
  BY <1>6 DEF Kill, KillScan, KillHit, KillMiss
<1> QED
  BY <1>1, <1>2, <1>3, <1>4, <1>5, <1>6 DEF Step

-----------------------------------------------------------------------------
(* Wakeups, and the theorems. *)

\* exit() wakes the parent before it is a zombie, under wait_lock throughout.
LEMMA WakeStep ==
    ASSUME IInv, NEW c \in CPU, NEW p \in Slot, Step(c, p)
    PROVE  NoLostWakeup'
<1> USE SlotFacts, CPUAssumption DEF IInv, TypeOK, NoLostWakeup
<1>1. CASE Switch(c, p)
  BY <1>1 DEF Switch, SchedPick, SwtchBack, Forkret, Yield, Preemptible, YieldRet,
              Preemptible
<1>2. CASE Trap(c, p)
  BY <1>2 DEF Trap, UsertrapKilled, UsertrapFault, Syscall, Sysret
<1>3. CASE Fork(c, p)
  <2>1. CASE ForkRunnable(c, p)
    BY <2>1 DEF ForkRunnable, ForkInv, Where
  <2>2. CASE \/ ForkScan(c, p)
             \/ ForkNoSlot(c, p)
             \/ ForkAlloc(c, p)
             \/ ForkNoMemory(c, p)
             \/ ForkPublish(c, p)
    BY <2>2 DEF ForkScan, ForkNoSlot, ForkAlloc, ForkNoMemory, ForkPublish
  <2> QED
    BY <1>3, <2>1, <2>2 DEF Fork
<1>4. CASE Exit(c, p)
  <2>1. CASE Reparent(c, p)
    BY <2>1 DEF Reparent, LocalInv, Where
  <2>2. CASE Wakeup(c, p)
    BY <2>2 DEF Wakeup, WakeSlot, StateInv, TreeInv, ParentAlive
  <2>3. CASE ExitZombie(c, p)
    BY <2>3 DEF ExitZombie, ExitInv
  <2>4. CASE \/ ExitInit(c, p)
             \/ PanicSpin(c, p)
             \/ ExitEnter(c, p)
             \/ ReparentDone(c, p)
             \/ WakeupDone(c, p)
    BY <2>4 DEF ExitInit, PanicSpin, vars, ExitEnter, ReparentDone, WakeupDone
  <2> QED
    BY <1>4, <2>1, <2>2, <2>3, <2>4 DEF Exit
<1>5. CASE Wait(c, p)
  <2>1. CASE Sleep(c, p)
    BY <2>1 DEF Sleep, WaitInv
  <2>2. CASE \/ WaitEnter(c, p)
             \/ WaitScan(c, p)
             \/ WaitReap(c, p)
             \/ WaitFail(c, p)
             \/ WaitSleepy(c, p)
             \/ SleepRet(c, p)
    BY <2>2 DEF WaitEnter, WaitScan, WaitReap, WaitFail, WaitSleepy, SleepRet
  <2> QED
    BY <1>5, <2>1, <2>2 DEF Wait
<1>6. CASE Kill(c, p)
  BY <1>6 DEF Kill, KillScan, KillHit, KillMiss
<1> QED
  BY <1>1, <1>2, <1>3, <1>4, <1>5, <1>6 DEF Step

\* Only the parent frees a child, and only a process that exits gives one away.
LEMMA ChildStep ==
    ASSUME IInv, NEW c \in CPU, NEW p \in Slot, Step(c, p)
    PROVE  SleeperHasChild'
<1> USE SlotFacts, CPUAssumption DEF IInv, TypeOK, SleeperHasChild
<1>1. CASE Switch(c, p)
  BY <1>1 DEF Switch, SchedPick, SwtchBack, Forkret, Yield, Preemptible, YieldRet,
              Preemptible
<1>2. CASE Trap(c, p)
  BY <1>2 DEF Trap, UsertrapKilled, UsertrapFault, Syscall, Sysret
<1>3. CASE Fork(c, p)
  <2>1. CASE ForkPublish(c, p)
    BY <2>1 DEF ForkPublish, ForkInv, Where
  <2>2. CASE \/ ForkScan(c, p)
             \/ ForkNoSlot(c, p)
             \/ ForkAlloc(c, p)
             \/ ForkNoMemory(c, p)
             \/ ForkRunnable(c, p)
    BY <2>2 DEF ForkScan, ForkNoSlot, ForkAlloc, ForkNoMemory, ForkRunnable
  <2> QED
    BY <1>3, <2>1, <2>2 DEF Fork
<1>4. CASE Exit(c, p)
  BY <1>4 DEF Exit, ExitInit, PanicSpin, vars, ExitEnter, Reparent, ReparentDone,
              Wakeup, WakeSlot, WakeupDone, ExitZombie
<1>5. CASE Wait(c, p)
  <2>1. CASE Sleep(c, p)
    BY <2>1 DEF Sleep, TreeInv, ParentAlive, WaitInv
  <2>2. CASE \/ WaitEnter(c, p)
             \/ WaitScan(c, p)
             \/ WaitReap(c, p)
             \/ WaitFail(c, p)
             \/ WaitSleepy(c, p)
             \/ SleepRet(c, p)
    BY <2>2 DEF WaitEnter, WaitScan, WaitReap, WaitFail, WaitSleepy, SleepRet
  <2> QED
    BY <1>5, <2>1, <2>2 DEF Wait
<1>6. CASE Kill(c, p)
  BY <1>6 DEF Kill, KillScan, KillHit, KillMiss
<1> QED
  BY <1>1, <1>2, <1>3, <1>4, <1>5, <1>6 DEF Step

-----------------------------------------------------------------------------

\* The state left by userinit() satisfies the invariant.
LEMMA InitIInv == Init => IInv
<1> USE SlotFacts DEF Init, Where
<1> SUFFICES ASSUME Init PROVE IInv
  OBVIOUS
<1>1. TypeOK
  BY DEF TypeOK, States, Preemptible, Labels
<1>2. StateInv /\ CpuInv /\ LocalInv /\ ForkInv
  BY DEF StateInv, CpuInv, LocalInv, ForkInv
<1>3. LockInv
  BY CPUAssumption DEF LockInv
<1>4. PidInv /\ TreeInv
  BY DEF PidInv, PidsUnique, TreeInv, ParentAlive
<1>5. ExitInv /\ WaitInv /\ NoLostWakeup /\ SleeperHasChild
  BY DEF ExitInv, WaitInv, NoLostWakeup, SleeperHasChild
<1> QED
  BY <1>1, <1>2, <1>3, <1>4, <1>5 DEF IInv

\* Every step of every thread on every CPU preserves the invariant.
LEMMA NextIInv == IInv /\ [Next]_vars => IInv'
<1> SUFFICES ASSUME IInv, [Next]_vars PROVE IInv'
  OBVIOUS
<1>1. CASE Next
  <2>1. PICK c \in CPU, p \in Slot : Step(c, p)
    BY <1>1 DEF Next
  <2> QED
    BY <2>1, TypeStep, StateStep, CpuStep, LockStep, LocalStep, PidStep, ForkStep,
       TreeStep, ExitStep, WaitStep, WakeStep, ChildStep DEF IInv
<1>2. CASE UNCHANGED vars
  <2> USE <1>2 DEF vars, IInv
  <2>1. TypeOK'
    BY DEF TypeOK
  <2>2. StateInv' /\ CpuInv'
    BY DEF StateInv, CpuInv, Where
  <2>3. LockInv' /\ LocalInv'
    BY DEF LockInv, LocalInv, Where
  <2>4. PidInv' /\ ForkInv' /\ TreeInv'
    BY DEF PidInv, PidsUnique, ForkInv, TreeInv, ParentAlive, Where
  <2>5. ExitInv' /\ WaitInv'
    BY DEF ExitInv, WaitInv
  <2>6. NoLostWakeup' /\ SleeperHasChild'
    BY DEF NoLostWakeup, SleeperHasChild
  <2> QED
    BY <2>1, <2>2, <2>3, <2>4, <2>5, <2>6
<1> QED
  BY <1>1, <1>2

\* The process table is always in a state the inductive invariant describes.
THEOREM Invariance == Spec => []IInv
BY InitIInv, NextIInv, PTL DEF Spec

\* The table, the locks and the threads' locals keep their types.
THEOREM TypeCorrect == Spec => []TypeOK
<1>1. IInv => TypeOK
  BY DEF IInv
<1> QED
  BY <1>1, Invariance, PTL

\* No process runs on two CPUs, and no slot is rescheduled or freed while a CPU
\* is still on its kernel stack.
THEOREM StackSafety == Spec => []StackExclusive
<1>1. IInv => StackExclusive
  BY SlotFacts DEF IInv, StackExclusive, CpuInv, LockInv
<1> QED
  BY <1>1, Invariance, PTL

\* The panics of sched() about locks are unreachable.
THEOREM SchedSafety == Spec => []SchedLocks
<1>1. IInv => SchedLocks
  BY SlotFacts, CPUAssumption DEF IInv, TypeOK, SchedLocks, CpuInv, LockInv
<1> QED
  BY <1>1, Invariance, PTL

\* exit()'s wakeup() of the parent cannot fall between wait()'s scan of the table and its
\* sleep().
THEOREM WakeupSafety == Spec => []NoLostWakeup
<1>1. IInv => NoLostWakeup
  BY DEF IInv
<1> QED
  BY <1>1, Invariance, PTL

\* Whoever sleeps in wait() has a child whose exit() will wake it up.
THEOREM SleeperSafety == Spec => []SleeperHasChild
<1>1. IInv => SleeperHasChild
  BY DEF IInv
<1> QED
  BY <1>1, Invariance, PTL

\* reparent() leaves nobody below a parent that is gone.
THEOREM TreeSafety == Spec => []ParentAlive
<1>1. IInv => ParentAlive
  BY DEF IInv, TreeInv
<1> QED
  BY <1>1, Invariance, PTL

\* allocpid() gives no two slots in use the same pid.
THEOREM PidSafety == Spec => []PidsUnique
<1>1. IInv => PidsUnique
  BY DEF IInv, PidInv
<1> QED
  BY <1>1, Invariance, PTL

\* A zombie is freed by its parent, inside wait(), and by nothing else.
THEOREM ReapSafety == Spec => ZombieReapedByParent
<1> DEFINE A == \A q \in Slot : state[q] = "ZOMBIE" /\ state'[q] # "ZOMBIE" =>
                    /\ state'[q] = "UNUSED"
                    /\ \E c \in CPU : wait_lock = c /\ cpuproc[c] = parent[q]
<1>1. IInv /\ [Next]_vars => [A]_vars
  <2> SUFFICES ASSUME IInv, Next PROVE A
    OBVIOUS
  <2>1. PICK c \in CPU, p \in Slot : Step(c, p)
    BY DEF Next
  <2> USE SlotFacts, CPUAssumption DEF IInv, TypeOK, StateInv, LockInv, ForkInv, Where
  <2>2. CASE Switch(c, p)
    BY <2>2 DEF Switch, SchedPick, SwtchBack, Forkret, Yield, YieldRet
  <2>3. CASE Trap(c, p)
    BY <2>3 DEF Trap, UsertrapKilled, UsertrapFault, Syscall, Sysret
  <2>4. CASE Fork(c, p)
    BY <2>4 DEF Fork, ForkScan, ForkNoSlot, ForkAlloc, ForkNoMemory, ForkPublish,
                ForkRunnable
  <2>5. CASE Exit(c, p)
    <3>1. CASE ExitInit(c, p) \/ PanicSpin(c, p) \/ ExitEnter(c, p)
      BY <3>1 DEF ExitInit, PanicSpin, ExitEnter, vars
    <3>2. CASE Reparent(c, p) \/ ReparentDone(c, p)
      BY <3>2 DEF Reparent, ReparentDone
    <3>3. CASE Wakeup(c, p) \/ WakeupDone(c, p)
      BY <3>3 DEF Wakeup, WakeSlot, WakeupDone
    <3>4. CASE ExitZombie(c, p)
      BY <3>4 DEF ExitZombie
    <3> QED
      BY <2>5, <3>1, <3>2, <3>3, <3>4 DEF Exit
  <2>6. CASE Wait(c, p)
    <3>1. CASE WaitEnter(c, p) \/ WaitScan(c, p) \/ WaitFail(c, p)
      BY <3>1 DEF WaitEnter, WaitScan, WaitFail
    <3>2. CASE WaitReap(c, p)
      BY <3>2 DEF WaitReap
    <3>3. CASE WaitSleepy(c, p) \/ Sleep(c, p) \/ SleepRet(c, p)
      BY <3>3 DEF WaitSleepy, Sleep, SleepRet
    <3> QED
      BY <2>6, <3>1, <3>2, <3>3 DEF Wait
  <2>7. CASE Kill(c, p)
    BY <2>7 DEF Kill, KillScan, KillHit, KillMiss
  <2> QED
    BY <2>1, <2>2, <2>3, <2>4, <2>5, <2>6, <2>7 DEF Step
<1> QED
  BY <1>1, Invariance, PTL DEF Spec, ZombieReapedByParent
=============================================================================
