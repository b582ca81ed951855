------------------------------ MODULE PbsProofs ------------------------------
(***************************************************************************)
(* Proofs about Pbs, for any number of harts and slots: the lock of the    *)
(* selection protects it until the switch, no process runs on two harts,   *)
(* and no lock that the walk takes is lost.                                *)
(***************************************************************************)
EXTENDS Pbs, TLAPS

States == {"UNUSED", "RUNNABLE", "RUNNING", "SLEEPING", "ZOMBIE"}
ProcRecord ==
    [state : States, sp : 0..100, ts : 0..MaxSched, last : 0..MaxTicks,
     ctime : 0..MaxTicks, rt : 0..MaxTicks, st : 0..MaxTicks]
HartRecord ==
    [pc : {"walk", "switch", "resume", "run", "yield"},
     p : Proc, sel : 0..NPROC, prio : 0..101, best : 0..101]

\* The parts of TypeOK; the times of a process are no later than now.
ProcOK == proc \in [Proc -> ProcRecord]
LockOK == lock \in [Proc -> Hart \cup {Nobody}]
HartOK == hart \in [Hart -> HartRecord]
TickOK ==
    /\ ticks \in 0..MaxTicks
    /\ \A p \in Proc : proc[p].last <= ticks /\ proc[p].ctime <= ticks
                       /\ proc[p].rt <= ticks /\ proc[p].st <= ticks

\* A hart that runs something runs a slot of the table.
RunsSlot == \A h \in Hart : hart[h].pc \in {"resume", "run", "yield"} => hart[h].sel \in Proc

IInv ==
    /\ ProcOK /\ LockOK /\ HartOK /\ TickOK /\ RunsSlot
    /\ SelectionStable /\ OneHart /\ NoLockLeaks

-----------------------------------------------------------------------------
(* Types. *)

LEMMA TypeParts == IInv => TypeOK
BY DEF IInv, ProcOK, LockOK, HartOK, TickOK, TypeOK, ProcRecord, HartRecord, States

LEMMA SlotFacts == NPROC \in Nat \ {0} /\ 1 \in Proc /\ Nobody \notin Hart
BY PbsAssumption DEF Proc

\* The priority that the walk computes is one of the table's, whatever the times are.
LEMMA PriorityRange ==
    ASSUME NEW q \in ProcRecord
    PROVE  DynamicPriority(q) \in 0..100
<1> UINT \in Nat \ {0}
  BY PbsAssumption
<1> q.rt \in Int /\ q.st \in Int /\ q.last \in Int /\ q.sp \in Int
  BY PbsAssumption DEF ProcRecord
<1>1. Niceness(q) \in Int
  <2>1. PICK r \in Nat, s \in Nat : r = (q.rt - q.last) % UINT /\ s = (q.st - q.last) % UINT
    OBVIOUS
  <2>2. CASE (r + s) % UINT = 0
    BY <2>1, <2>2 DEF Niceness
  <2>3. CASE (r + s) % UINT # 0
    <3>1. (r + s) % UINT \in Nat \ {0}
      BY <2>3
    <3>2. PICK d \in Nat \ {0} : d = (r + s) % UINT
      BY <3>1
    <3>3. r \div d \in Int
      OBVIOUS
    <3>4. PICK e \in Int : e = r \div d
      BY <3>3
    <3>5. (e * 10) % UINT \in Int
      OBVIOUS
    <3> QED
      BY <2>1, <2>3, <3>2, <3>4, <3>5 DEF Niceness
  <2> QED
    BY <2>2, <2>3
<1>2. PICK n \in Int : n = Niceness(q)
  BY <1>1
<1>3. (q.sp - n + 5) % UINT \in Int
  OBVIOUS
<1>4. PICK u \in Int : u = (q.sp - n + 5) % UINT
  BY <1>3
<1>5. ToInt(u) \in Int
  BY DEF ToInt
<1>6. PICK x \in Int : x = ToInt((q.sp - Niceness(q) + 5) % UINT)
  BY <1>2, <1>4, <1>5
<1>7. DynamicPriority(q) = IF x > 100 THEN 100 ELSE IF x < 0 THEN 0 ELSE x
  BY <1>6 DEF DynamicPriority
<1> QED
  BY <1>7

-----------------------------------------------------------------------------
(* The steps. *)

\* A new state leaves the other fields alone.
LEMMA StateChange ==
    ASSUME ProcOK, TickOK, NEW p \in Proc, NEW x \in States, proc' = [proc EXCEPT ![p].state = x],
           UNCHANGED ticks
    PROVE  ProcOK' /\ TickOK'
BY DEF ProcOK, TickOK, ProcRecord

\* Records of processes: the times never pass the clock, and priorities stay in range.
LEMMA ProcStep == ASSUME IInv, Next PROVE ProcOK' /\ TickOK'
<1> USE DEF IInv
<1>1. ASSUME NEW h \in Hart, Walk(h) PROVE ProcOK' /\ TickOK'
  BY <1>1 DEF Walk, ProcOK, TickOK
<1>2. ASSUME NEW h \in Hart, NoneSelected(h) PROVE ProcOK' /\ TickOK'
  BY <1>2 DEF NoneSelected, ProcOK, TickOK
<1>3. ASSUME NEW h \in Hart, Switch(h) PROVE ProcOK' /\ TickOK'
  <2>1. hart[h].sel \in Proc
    BY <1>3, SlotFacts DEF Switch, HartOK, HartRecord, Proc
  <2> DEFINE p == hart[h].sel
             n == IF proc[p].ts < MaxSched THEN proc[p].ts + 1 ELSE proc[p].ts
             r == [proc[p] EXCEPT !.state = "RUNNING", !.last = ticks, !.ts = n]
  <2>4. proc' = [proc EXCEPT ![p] = r] /\ ticks' = ticks
    BY <1>3 DEF Switch
  <2>5. proc[p] \in ProcRecord /\ ticks \in 0..MaxTicks
    BY <2>1 DEF ProcOK, TickOK
  <2>6. n \in 0..MaxSched
    BY <2>5, PbsAssumption DEF ProcRecord
  <2> HIDE DEF n
  <2>7. /\ r \in ProcRecord /\ r.last = ticks
        /\ r.ctime = proc[p].ctime /\ r.rt = proc[p].rt /\ r.st = proc[p].st
    BY <2>5, <2>6 DEF ProcRecord, States
  <2> HIDE DEF r, p
  <2>8. ProcOK'
    BY <2>1, <2>4, <2>7 DEF ProcOK
  <2>9. TickOK'
    BY <2>4, <2>5, <2>7 DEF ProcOK, TickOK
  <2> QED
    BY <2>8, <2>9
<1>4. ASSUME NEW h \in Hart, Resume(h) PROVE ProcOK' /\ TickOK'
  BY <1>4 DEF Resume, ProcOK, TickOK
<1>5. ASSUME NEW h \in Hart, Sleep(h) PROVE ProcOK' /\ TickOK'
  <2>1. hart[h].sel \in Proc
    BY <1>5 DEF Sleep, RunsSlot
  <2> QED
    BY <1>5, <2>1, StateChange DEF Sleep, Leave, TickOK, States
<1>6. ASSUME NEW h \in Hart, Exit(h) PROVE ProcOK' /\ TickOK'
  <2>1. hart[h].sel \in Proc
    BY <1>6 DEF Exit, RunsSlot
  <2> QED
    BY <1>6, <2>1, StateChange DEF Exit, Leave, TickOK, States
<1>7. ASSUME NEW h \in Hart, Yield(h) PROVE ProcOK' /\ TickOK'
  <2>1. hart[h].sel \in Proc
    BY <1>7 DEF Yield, RunsSlot
  <2> QED
    BY <1>7, <2>1, StateChange DEF Yield, Leave, TickOK, States
<1>8. ASSUME NEW h \in Hart, NEW q \in Proc, Wakeup(h, q) PROVE ProcOK' /\ TickOK'
  BY <1>8, StateChange DEF Wakeup, States
<1>9. ASSUME NEW h \in Hart, NEW q \in Proc, Fork(h, q) PROVE ProcOK' /\ TickOK'
  BY <1>9, PbsAssumption DEF Fork, NewProc, States, ProcOK, TickOK, ProcRecord
<1>10. ASSUME NEW h \in Hart, NEW q \in Proc, NEW new \in NewPriority, set_priority(h, q, new) PROVE ProcOK' /\ TickOK'
  <2>1. new \in 0..100
    BY <1>10, PbsAssumption DEF set_priority, is_valid_priority
  <2> QED
    BY <1>10, <2>1 DEF set_priority, ProcOK, TickOK, ProcRecord
<1>11. ASSUME Tick PROVE ProcOK' /\ TickOK'
  BY <1>11, PbsAssumption DEF Tick, ProcOK, TickOK, ProcRecord
<1> QED
  BY <1>1, <1>2, <1>3, <1>4, <1>5, <1>6, <1>7, <1>8, <1>9, <1>10, <1>11 DEF Next

\* Locks are held by harts.
LEMMA LockStep == ASSUME IInv, Next PROVE LockOK'
<1> USE DEF IInv
<1>1. ASSUME NEW h \in Hart, Walk(h) PROVE LockOK'
  BY <1>1 DEF Walk, Locks, LockOK
<1>2. ASSUME NEW h \in Hart, NoneSelected(h) PROVE LockOK'
  BY <1>2 DEF NoneSelected, LockOK
<1>3. ASSUME NEW h \in Hart, Switch(h) PROVE LockOK'
  BY <1>3 DEF Switch, LockOK
<1>4. ASSUME NEW h \in Hart, Resume(h) PROVE LockOK'
  BY <1>4 DEF Resume, LockOK
<1>5. ASSUME NEW h \in Hart, Sleep(h) PROVE LockOK'
  BY <1>5 DEF Sleep, Leave, LockOK
<1>6. ASSUME NEW h \in Hart, Exit(h) PROVE LockOK'
  BY <1>6 DEF Exit, Leave, LockOK
<1>7. ASSUME NEW h \in Hart, Yield(h) PROVE LockOK'
  BY <1>7 DEF Yield, Leave, LockOK
<1>8. ASSUME NEW h \in Hart, NEW q \in Proc, Wakeup(h, q) PROVE LockOK'
  BY <1>8 DEF Wakeup, LockOK
<1>9. ASSUME NEW h \in Hart, NEW q \in Proc, Fork(h, q) PROVE LockOK'
  BY <1>9 DEF Fork, LockOK
<1>10. ASSUME NEW h \in Hart, NEW q \in Proc, NEW new \in NewPriority, set_priority(h, q, new) PROVE LockOK'
  BY <1>10 DEF set_priority, LockOK
<1>11. ASSUME Tick PROVE LockOK'
  BY <1>11 DEF Tick, LockOK
<1> QED
  BY <1>1, <1>2, <1>3, <1>4, <1>5, <1>6, <1>7, <1>8, <1>9, <1>10, <1>11 DEF Next

LEMMA StartRecord == Start \in HartRecord
BY SlotFacts DEF Start, HartRecord

LEMMA WalkRecord ==
    ASSUME NEW c \in HartRecord, NEW x \in Proc, NEW y \in {"walk", "switch"}, NEW z \in 0..101
    PROVE  [c EXCEPT !.p = x, !.pc = y, !.best = z] \in HartRecord
BY DEF HartRecord

LEMMA TakeRecord ==
    ASSUME NEW c \in HartRecord, NEW x \in 0..NPROC, NEW y \in 0..101
    PROVE  [c EXCEPT !.sel = x, !.prio = y] \in HartRecord
BY DEF HartRecord

\* The locals of the scheduler keep their types.
LEMMA HartStep == ASSUME IInv, Next PROVE HartOK'
<1> USE DEF IInv
<1>1. ASSUME NEW h \in Hart, Walk(h) PROVE HartOK'
  <2> DEFINE c == hart[h]
             dyn == DynamicPriority(proc[c.p])
             x == IF c.p = NPROC THEN 1 ELSE c.p + 1
             y == IF c.p < NPROC THEN "walk" ELSE "switch"
             z == IF proc[c.p].state = "RUNNABLE" /\ dyn < c.best THEN dyn ELSE c.best
             on == [c EXCEPT !.p = x, !.pc = y, !.best = z]
  <2>1. c \in HartRecord /\ c.p \in Proc /\ c.best \in 0..101 /\ proc[c.p] \in ProcRecord
    BY DEF HartOK, HartRecord, ProcOK
  <2>2. dyn \in 0..101
    BY <2>1, PriorityRange
  <2>3. x \in Proc /\ y \in {"walk", "switch"} /\ z \in 0..101
    <3> HIDE DEF dyn
    <3> QED
      BY <2>1, <2>2, SlotFacts DEF Proc
  <2>4. hart' = [hart EXCEPT ![h] = on] \/ hart' = [hart EXCEPT ![h] = [on EXCEPT !.sel = c.p, !.prio = dyn]]
    BY <1>1 DEF Walk
  <2> HIDE DEF c, dyn, x, y, z
  <2>5. on \in HartRecord
    BY <2>1, <2>3, WalkRecord
  <2> HIDE DEF on
  <2>6. c.p \in 0..NPROC
    BY <2>1, SlotFacts DEF Proc
  <2>7. [on EXCEPT !.sel = c.p, !.prio = dyn] \in HartRecord
    BY <2>2, <2>5, <2>6, TakeRecord
  <2> QED
    BY <2>4, <2>5, <2>7 DEF HartOK
<1>2. ASSUME NEW h \in Hart, NoneSelected(h) PROVE HartOK'
  BY <1>2, SlotFacts DEF NoneSelected, Start, HartOK, HartRecord
<1>3. ASSUME NEW h \in Hart, Switch(h) PROVE HartOK'
  <2>1. hart[h].sel \in 0..NPROC
    BY DEF HartOK, HartRecord
  <2>2. [Start EXCEPT !.pc = "resume", !.sel = hart[h].sel] \in HartRecord
    BY <2>1, StartRecord DEF HartRecord
  <2> QED
    BY <1>3, <2>2 DEF Switch, HartOK
<1>4. ASSUME NEW h \in Hart, Resume(h) PROVE HartOK'
  BY <1>4, SlotFacts DEF Resume, Start, HartOK, HartRecord
<1>5. ASSUME NEW h \in Hart, Sleep(h) PROVE HartOK'
  BY <1>5, SlotFacts DEF Sleep, Leave, Start, HartOK, HartRecord
<1>6. ASSUME NEW h \in Hart, Exit(h) PROVE HartOK'
  BY <1>6, SlotFacts DEF Exit, Leave, Start, HartOK, HartRecord
<1>7. ASSUME NEW h \in Hart, Yield(h) PROVE HartOK'
  BY <1>7, SlotFacts DEF Yield, Leave, Start, HartOK, HartRecord
<1>8. ASSUME NEW h \in Hart, NEW q \in Proc, Wakeup(h, q) PROVE HartOK'
  BY <1>8, SlotFacts DEF Wakeup, Start, HartOK, HartRecord
<1>9. ASSUME NEW h \in Hart, NEW q \in Proc, Fork(h, q) PROVE HartOK'
  BY <1>9, SlotFacts DEF Fork, Start, HartOK, HartRecord
<1>10. ASSUME NEW h \in Hart, NEW q \in Proc, NEW new \in NewPriority, set_priority(h, q, new) PROVE HartOK'
  BY <1>10, SlotFacts DEF set_priority, Start, HartOK, HartRecord
<1>11. ASSUME Tick PROVE HartOK'
  BY <1>11, SlotFacts DEF Tick, Start, HartOK, HartRecord
<1> QED
  BY <1>1, <1>2, <1>3, <1>4, <1>5, <1>6, <1>7, <1>8, <1>9, <1>10, <1>11 DEF Next

-----------------------------------------------------------------------------
(* The selection.  What a turn of the walk does to the locks and to the      *)
(* selected process, in the words of the invariant.                          *)

LEMMA WalkFacts ==
    ASSUME IInv, NEW h \in Hart, Walk(h)
    PROVE  /\ hart[h].pc = "walk" /\ hart[h].p \in Proc /\ lock[hart[h].p] = Nobody
           /\ hart'[h].pc \in {"walk", "switch"} /\ proc' = proc
           /\ \A g \in Hart : g # h => hart'[g] = hart[g]
           /\ \/ hart'[h].sel = hart[h].sel /\ lock' = lock
              \/ /\ hart'[h].sel = hart[h].p /\ proc[hart[h].p].state = "RUNNABLE"
                 /\ lock' = [r \in Proc |-> IF r = hart[h].p THEN h
                                           ELSE IF r = hart[h].sel THEN Nobody ELSE lock[r]]
<1> DEFINE c == hart[h]
           q == proc[c.p]
           dyn == DynamicPriority(q)
           take == q.state = "RUNNABLE" /\ (c.sel = 0 \/ Beats(q, dyn, proc[c.sel], c.prio))
           x == IF c.p = NPROC THEN 1 ELSE c.p + 1
           y == IF c.p < NPROC THEN "walk" ELSE "switch"
           z == IF q.state = "RUNNABLE" /\ dyn < c.best THEN dyn ELSE c.best
           on == [c EXCEPT !.p = x, !.pc = y, !.best = z]
<1>1. c \in HartRecord /\ c.p \in Proc /\ c = hart[h]
  BY DEF IInv, HartOK, HartRecord
<1>2. /\ c.pc = "walk" /\ lock[c.p] = Nobody /\ proc' = proc
      /\ lock' = Locks(h, c.p, c.sel, take)
      /\ hart' = [hart EXCEPT ![h] = IF take THEN [on EXCEPT !.sel = c.p, !.prio = dyn] ELSE on]
  BY DEF Walk
<1>3. y \in {"walk", "switch"}
  OBVIOUS
<1>4. take => q.state = "RUNNABLE"
  OBVIOUS
<1>5. q = proc[c.p] /\ take \in BOOLEAN
  OBVIOUS
<1> HIDE DEF c, q, dyn, take, x, y, z
<1>6. on.pc = y /\ on.sel = c.sel
  BY <1>1 DEF HartRecord
<1>7. [on EXCEPT !.sel = c.p, !.prio = dyn].pc = y /\ [on EXCEPT !.sel = c.p, !.prio = dyn].sel = c.p
  BY <1>1 DEF HartRecord
<1> HIDE DEF on
<1>8. \A g \in Hart : g # h => hart'[g] = hart[g]
  BY <1>2 DEF IInv, HartOK
<1>9. CASE take
  <2>1. hart'[h] = [on EXCEPT !.sel = c.p, !.prio = dyn]
    BY <1>2, <1>9 DEF IInv, HartOK
  <2>2. lock' = [r \in Proc |-> IF r = c.p THEN h ELSE IF r = c.sel THEN Nobody ELSE lock[r]]
    <3>1. Locks(h, c.p, c.sel, TRUE) = [r \in Proc |-> IF r = c.p THEN h ELSE IF r = c.sel THEN Nobody ELSE lock[r]]
      BY DEF Locks
    <3>2. take = TRUE
      BY <1>5, <1>9
    <3> QED
      BY <1>2, <3>1, <3>2
  <2> QED
    BY <1>1, <1>2, <1>3, <1>4, <1>5, <1>7, <1>8, <1>9, <2>1, <2>2
<1>10. CASE ~take
  <2>1. hart'[h] = on
    BY <1>2, <1>10 DEF IInv, HartOK
  <2>2. lock' = lock
    BY <1>2, <1>10 DEF Locks, IInv, LockOK
  <2> QED
    BY <1>1, <1>2, <1>3, <1>6, <1>8, <2>1, <2>2
<1> QED
  BY <1>9, <1>10

\* A switch runs the selected process and keeps its lock.
LEMMA SwitchFacts ==
    ASSUME IInv, NEW h \in Hart, Switch(h)
    PROVE  /\ hart[h].pc = "switch" /\ hart[h].sel \in Proc /\ lock' = lock
           /\ hart'[h].pc = "resume" /\ hart'[h].sel = hart[h].sel
           /\ \A g \in Hart : g # h => hart'[g] = hart[g]
           /\ proc'[hart[h].sel].state = "RUNNING"
           /\ \A q \in Proc : q # hart[h].sel => proc'[q] = proc[q]
<1>1. hart[h].pc = "switch" /\ hart[h].sel # 0 /\ lock' = lock
  BY DEF Switch
<1>2. hart[h].sel \in Proc
  BY <1>1, SlotFacts DEF IInv, HartOK, HartRecord, Proc
<1>3. PICK s : s = hart[h].sel
  OBVIOUS
<1>4. hart' = [hart EXCEPT ![h] = [Start EXCEPT !.pc = "resume", !.sel = s]]
  BY <1>3 DEF Switch
<1>5. [Start EXCEPT !.pc = "resume", !.sel = s].pc = "resume" /\ [Start EXCEPT !.pc = "resume", !.sel = s].sel = s
  BY StartRecord DEF HartRecord
<1>6. hart'[h] = [Start EXCEPT !.pc = "resume", !.sel = s] /\ \A g \in Hart : g # h => hart'[g] = hart[g]
  BY <1>4 DEF IInv, HartOK
<1> DEFINE n == IF proc[s].ts < MaxSched THEN proc[s].ts + 1 ELSE proc[s].ts
           r == [proc[s] EXCEPT !.state = "RUNNING", !.last = ticks, !.ts = n]
<1>7. proc' = [proc EXCEPT ![s] = r]
  BY <1>3 DEF Switch
<1> HIDE DEF n
<1>8. r.state = "RUNNING"
  BY <1>2, <1>3 DEF IInv, ProcOK, ProcRecord
<1> HIDE DEF r
<1>9. proc'[s] = r /\ \A q \in Proc : q # s => proc'[q] = proc[q]
  BY <1>2, <1>3, <1>7 DEF IInv, ProcOK
<1> QED
  BY <1>1, <1>2, <1>3, <1>5, <1>6, <1>8, <1>9

\* A tick leaves every state as it was.
LEMMA TickFacts ==
    ASSUME IInv, Tick
    PROVE  lock' = lock /\ hart' = hart /\ \A q \in Proc : proc'[q].state = proc[q].state
BY DEF Tick, IInv, ProcOK, ProcRecord

\* A process leaves its hart for the scheduler.
LEMMA LeaveFacts ==
    ASSUME IInv, NEW h \in Hart, hart[h].pc \in {"run", "yield"}, NEW x \in States, Leave(h, x)
    PROVE  /\ hart[h].sel \in Proc /\ lock[hart[h].sel] = Nobody /\ lock' = lock
           /\ hart'[h].pc = "walk" /\ hart'[h].sel = 0
           /\ \A g \in Hart : g # h => hart'[g] = hart[g]
           /\ proc'[hart[h].sel].state = x
           /\ \A q \in Proc : q # hart[h].sel => proc'[q] = proc[q]
<1>1. hart[h].sel \in Proc
  BY DEF IInv, RunsSlot
<1> QED
  BY <1>1 DEF Leave, Start, IInv, HartOK, ProcOK, ProcRecord

\* A hart enters a process only through a switch to its selection.
LEMMA RunsSlotStep == ASSUME IInv, Next PROVE RunsSlot'
<1> USE DEF IInv
<1>1. ASSUME NEW h \in Hart, Walk(h) PROVE RunsSlot'
  BY <1>1, WalkFacts, SlotFacts DEF RunsSlot
<1>2. ASSUME NEW h \in Hart, NoneSelected(h) PROVE RunsSlot'
  BY <1>2, SlotFacts DEF NoneSelected, Start, HartOK, RunsSlot
<1>3. ASSUME NEW h \in Hart, Switch(h) PROVE RunsSlot'
  BY <1>3, SwitchFacts, SlotFacts DEF RunsSlot
<1>4. ASSUME NEW h \in Hart, Resume(h) PROVE RunsSlot'
  BY <1>4, SlotFacts DEF Resume, HartOK, HartRecord, LockOK, RunsSlot
<1>5. ASSUME NEW h \in Hart, Sleep(h) PROVE RunsSlot'
  <2>1. Leave(h, "SLEEPING") /\ hart[h].pc \in {"run", "yield"} /\ "SLEEPING" \in States
    BY <1>5 DEF Sleep, States
  <2> QED
    BY <2>1, LeaveFacts, SlotFacts DEF RunsSlot
<1>6. ASSUME NEW h \in Hart, Exit(h) PROVE RunsSlot'
  <2>1. Leave(h, "ZOMBIE") /\ hart[h].pc \in {"run", "yield"} /\ "ZOMBIE" \in States
    BY <1>6 DEF Exit, States
  <2> QED
    BY <2>1, LeaveFacts, SlotFacts DEF RunsSlot
<1>7. ASSUME NEW h \in Hart, Yield(h) PROVE RunsSlot'
  <2>1. Leave(h, "RUNNABLE") /\ hart[h].pc \in {"run", "yield"} /\ "RUNNABLE" \in States
    BY <1>7 DEF Yield, States
  <2> QED
    BY <2>1, LeaveFacts, SlotFacts DEF RunsSlot
<1>8. ASSUME NEW h \in Hart, NEW q \in Proc, Wakeup(h, q) PROVE RunsSlot'
  BY <1>8, SlotFacts DEF Wakeup, ProcOK, ProcRecord, HartOK, RunsSlot
<1>9. ASSUME NEW h \in Hart, NEW q \in Proc, Fork(h, q) PROVE RunsSlot'
  BY <1>9, SlotFacts DEF Fork, NewProc, ProcOK, ProcRecord, HartOK, RunsSlot
<1>10. ASSUME NEW h \in Hart, NEW q \in Proc, NEW new \in NewPriority, set_priority(h, q, new) PROVE RunsSlot'
  BY <1>10, SlotFacts DEF set_priority, ProcOK, ProcRecord, HartOK, HartRecord, RunsSlot
<1>11. ASSUME Tick PROVE RunsSlot'
  BY <1>11, TickFacts DEF RunsSlot
<1> QED
  BY <1>1, <1>2, <1>3, <1>4, <1>5, <1>6, <1>7, <1>8, <1>9, <1>10, <1>11 DEF Next

\* selected_proc is null or a slot of the table.
LEMMA SelectedSlot == ASSUME IInv PROVE \A g \in Hart : hart[g].sel # 0 => hart[g].sel \in Proc
BY SlotFacts DEF IInv, HartOK, HartRecord, Proc

\* Nobody writes the state of a process whose lock somebody else holds, and the walk
\* passes by no slot that is locked.
LEMMA SelectionStep == ASSUME IInv, Next PROVE SelectionStable'
<1> USE DEF IInv
<1> \A g \in Hart : hart[g].sel # 0 => hart[g].sel \in Proc
  BY SelectedSlot
<1>1. ASSUME NEW h \in Hart, Walk(h) PROVE SelectionStable'
  <2> SUFFICES ASSUME NEW g \in Hart
               PROVE  /\ hart'[g].pc \in {"walk", "switch"} /\ hart'[g].sel # 0
                           => lock'[hart'[g].sel] = g /\ proc'[hart'[g].sel].state = "RUNNABLE"
                      /\ hart'[g].pc = "resume" => lock'[hart'[g].sel] = g
    BY DEF SelectionStable
  <2>1. CASE g = h
    BY <1>1, <2>1, WalkFacts DEF SelectionStable
  <2>2. CASE g # h
    <3>1. hart'[g] = hart[g]
      BY <1>1, <2>2, WalkFacts
    <3>2. \A r \in Proc : lock[r] = g => lock'[r] = g
      <4> TAKE r \in Proc
      <4> HAVE lock[r] = g
      <4>1. r # hart[h].p
        BY <1>1, WalkFacts, SlotFacts
      <4>2. r # hart[h].sel
        BY <1>1, <2>2, WalkFacts, SlotFacts DEF SelectionStable, Proc
      <4> QED
        BY <1>1, <4>1, <4>2, WalkFacts
    <3>3. proc' = proc
      BY <1>1, WalkFacts
    <3>4. hart[g].pc = "resume" => hart[g].sel \in Proc
      BY DEF RunsSlot
    <3> QED
      BY <3>1, <3>2, <3>3, <3>4 DEF SelectionStable
  <2> QED
    BY <2>1, <2>2
<1>2. ASSUME NEW h \in Hart, NoneSelected(h) PROVE SelectionStable'
  BY <1>2, SlotFacts DEF NoneSelected, Start, HartOK, SelectionStable, RunsSlot
<1>3. ASSUME NEW h \in Hart, Switch(h) PROVE SelectionStable'
  <2> SUFFICES ASSUME NEW g \in Hart
               PROVE  /\ hart'[g].pc \in {"walk", "switch"} /\ hart'[g].sel # 0
                           => lock'[hart'[g].sel] = g /\ proc'[hart'[g].sel].state = "RUNNABLE"
                      /\ hart'[g].pc = "resume" => lock'[hart'[g].sel] = g
    BY DEF SelectionStable
  <2>1. CASE g = h
    BY <1>3, <2>1, SwitchFacts, SlotFacts DEF SelectionStable, Proc
  <2>2. CASE g # h
    <3>1. hart'[g] = hart[g] /\ lock' = lock
      BY <1>3, <2>2, SwitchFacts
    <3>2. lock[hart[h].sel] = h
      BY <1>3, SwitchFacts, SlotFacts DEF SelectionStable, Proc
    <3>3. \A r \in Proc : lock[r] = g => proc'[r] = proc[r]
      BY <1>3, <2>2, <3>2, SwitchFacts
    <3> QED
      BY <3>1, <3>3 DEF SelectionStable
  <2> QED
    BY <2>1, <2>2
<1>4. ASSUME NEW h \in Hart, Resume(h) PROVE SelectionStable'
  BY <1>4, SlotFacts DEF Resume, HartOK, HartRecord, LockOK, SelectionStable, RunsSlot
<1>5. ASSUME NEW h \in Hart, Sleep(h) PROVE SelectionStable'
  <2>1. Leave(h, "SLEEPING") /\ hart[h].pc \in {"run", "yield"} /\ "SLEEPING" \in States
    BY <1>5 DEF Sleep, States
  <2> QED
    BY <2>1, LeaveFacts, SlotFacts DEF SelectionStable, RunsSlot
<1>6. ASSUME NEW h \in Hart, Exit(h) PROVE SelectionStable'
  <2>1. Leave(h, "ZOMBIE") /\ hart[h].pc \in {"run", "yield"} /\ "ZOMBIE" \in States
    BY <1>6 DEF Exit, States
  <2> QED
    BY <2>1, LeaveFacts, SlotFacts DEF SelectionStable, RunsSlot
<1>7. ASSUME NEW h \in Hart, Yield(h) PROVE SelectionStable'
  <2>1. Leave(h, "RUNNABLE") /\ hart[h].pc \in {"run", "yield"} /\ "RUNNABLE" \in States
    BY <1>7 DEF Yield, States
  <2> QED
    BY <2>1, LeaveFacts, SlotFacts DEF SelectionStable, RunsSlot
<1>8. ASSUME NEW h \in Hart, NEW q \in Proc, Wakeup(h, q) PROVE SelectionStable'
  BY <1>8, SlotFacts DEF Wakeup, ProcOK, ProcRecord, HartOK, SelectionStable, RunsSlot
<1>9. ASSUME NEW h \in Hart, NEW q \in Proc, Fork(h, q) PROVE SelectionStable'
  BY <1>9, SlotFacts DEF Fork, NewProc, ProcOK, ProcRecord, HartOK, SelectionStable, RunsSlot
<1>10. ASSUME NEW h \in Hart, NEW q \in Proc, NEW new \in NewPriority, set_priority(h, q, new) PROVE SelectionStable'
  BY <1>10, SlotFacts DEF set_priority, ProcOK, ProcRecord, HartOK, HartRecord, SelectionStable, RunsSlot
<1>11. ASSUME Tick PROVE SelectionStable'
  BY <1>11, TickFacts DEF SelectionStable, RunsSlot
<1> QED
  BY <1>1, <1>2, <1>3, <1>4, <1>5, <1>6, <1>7, <1>8, <1>9, <1>10, <1>11 DEF Next

\* The selection is RUNNABLE, so no hart runs it when a switch makes it RUNNING.
LEMMA OneHartStep == ASSUME IInv, Next PROVE OneHart'
<1> USE DEF IInv
<1>1. ASSUME NEW h \in Hart, Walk(h) PROVE OneHart'
  BY <1>1, WalkFacts, SlotFacts DEF OneHart, Runs, SelectionStable
<1>2. ASSUME NEW h \in Hart, NoneSelected(h) PROVE OneHart'
  BY <1>2, SlotFacts DEF NoneSelected, Start, HartOK, OneHart, Runs, SelectionStable
<1>3. ASSUME NEW h \in Hart, Switch(h) PROVE OneHart'
  <2>1. PICK s \in Proc : s = hart[h].sel
    BY <1>3, SwitchFacts
  <2>2. proc[s].state = "RUNNABLE" /\ ~Runs(h, s)
    BY <1>3, <2>1, SwitchFacts, SlotFacts DEF SelectionStable, Runs, Proc
  <2>3. \A g \in Hart : ~Runs(g, s)
    BY <2>2 DEF OneHart
  <2>4. \A g \in Hart, q \in Proc : Runs(g, q)' <=> (Runs(g, q) \/ (g = h /\ q = s))
    BY <1>3, <2>1, SwitchFacts DEF Runs
  <2>5. \A q \in Proc : proc'[q].state = "RUNNING" <=> (proc[q].state = "RUNNING" \/ q = s)
    BY <1>3, <2>1, SwitchFacts
  <2> QED
    BY <2>3, <2>4, <2>5 DEF OneHart
<1>4. ASSUME NEW h \in Hart, Resume(h) PROVE OneHart'
  BY <1>4, SlotFacts DEF Resume, HartOK, HartRecord, LockOK, OneHart, Runs, SelectionStable
<1>5. ASSUME NEW h \in Hart, Sleep(h) PROVE OneHart'
  <2>1. Leave(h, "SLEEPING") /\ hart[h].pc \in {"run", "yield"} /\ "SLEEPING" \in States
    BY <1>5 DEF Sleep, States
  <2> QED
    BY <2>1, LeaveFacts, SlotFacts DEF OneHart, Runs, SelectionStable
<1>6. ASSUME NEW h \in Hart, Exit(h) PROVE OneHart'
  <2>1. Leave(h, "ZOMBIE") /\ hart[h].pc \in {"run", "yield"} /\ "ZOMBIE" \in States
    BY <1>6 DEF Exit, States
  <2> QED
    BY <2>1, LeaveFacts, SlotFacts DEF OneHart, Runs, SelectionStable
<1>7. ASSUME NEW h \in Hart, Yield(h) PROVE OneHart'
  <2>1. Leave(h, "RUNNABLE") /\ hart[h].pc \in {"run", "yield"} /\ "RUNNABLE" \in States
    BY <1>7 DEF Yield, States
  <2> QED
    BY <2>1, LeaveFacts, SlotFacts DEF OneHart, Runs, SelectionStable
<1>8. ASSUME NEW h \in Hart, NEW q \in Proc, Wakeup(h, q) PROVE OneHart'
  BY <1>8, SlotFacts DEF Wakeup, ProcOK, ProcRecord, HartOK, OneHart, Runs, SelectionStable
<1>9. ASSUME NEW h \in Hart, NEW q \in Proc, Fork(h, q) PROVE OneHart'
  BY <1>9, SlotFacts DEF Fork, NewProc, ProcOK, ProcRecord, HartOK, OneHart, Runs, SelectionStable
<1>10. ASSUME NEW h \in Hart, NEW q \in Proc, NEW new \in NewPriority, set_priority(h, q, new) PROVE OneHart'
  BY <1>10, SlotFacts DEF set_priority, ProcOK, ProcRecord, HartOK, HartRecord, OneHart, Runs, SelectionStable
<1>11. ASSUME Tick PROVE OneHart'
  BY <1>11, TickFacts DEF OneHart, Runs, SelectionStable
<1> QED
  BY <1>1, <1>2, <1>3, <1>4, <1>5, <1>6, <1>7, <1>8, <1>9, <1>10, <1>11 DEF Next

\* The walk changes two locks at most, the one it takes and the one of its old selection.
LEMMA LeakStep == ASSUME IInv, Next PROVE NoLockLeaks'
<1> USE DEF IInv
<1>1. ASSUME NEW h \in Hart, Walk(h) PROVE NoLockLeaks'
  BY <1>1, WalkFacts, SlotFacts DEF NoLockLeaks, SelectionStable, LockOK
<1>2. ASSUME NEW h \in Hart, NoneSelected(h) PROVE NoLockLeaks'
  BY <1>2, SlotFacts DEF NoneSelected, Start, HartOK, NoLockLeaks, SelectionStable, LockOK
<1>3. ASSUME NEW h \in Hart, Switch(h) PROVE NoLockLeaks'
  BY <1>3, SwitchFacts, SlotFacts DEF NoLockLeaks, SelectionStable, LockOK
<1>4. ASSUME NEW h \in Hart, Resume(h) PROVE NoLockLeaks'
  BY <1>4, SlotFacts DEF Resume, HartOK, HartRecord, LockOK, NoLockLeaks, SelectionStable, LockOK
<1>5. ASSUME NEW h \in Hart, Sleep(h) PROVE NoLockLeaks'
  <2>1. Leave(h, "SLEEPING") /\ hart[h].pc \in {"run", "yield"} /\ "SLEEPING" \in States
    BY <1>5 DEF Sleep, States
  <2> QED
    BY <2>1, LeaveFacts, SlotFacts DEF NoLockLeaks, SelectionStable, LockOK
<1>6. ASSUME NEW h \in Hart, Exit(h) PROVE NoLockLeaks'
  <2>1. Leave(h, "ZOMBIE") /\ hart[h].pc \in {"run", "yield"} /\ "ZOMBIE" \in States
    BY <1>6 DEF Exit, States
  <2> QED
    BY <2>1, LeaveFacts, SlotFacts DEF NoLockLeaks, SelectionStable, LockOK
<1>7. ASSUME NEW h \in Hart, Yield(h) PROVE NoLockLeaks'
  <2>1. Leave(h, "RUNNABLE") /\ hart[h].pc \in {"run", "yield"} /\ "RUNNABLE" \in States
    BY <1>7 DEF Yield, States
  <2> QED
    BY <2>1, LeaveFacts, SlotFacts DEF NoLockLeaks, SelectionStable, LockOK
<1>8. ASSUME NEW h \in Hart, NEW q \in Proc, Wakeup(h, q) PROVE NoLockLeaks'
  BY <1>8, SlotFacts DEF Wakeup, ProcOK, ProcRecord, HartOK, NoLockLeaks, SelectionStable, LockOK
<1>9. ASSUME NEW h \in Hart, NEW q \in Proc, Fork(h, q) PROVE NoLockLeaks'
  BY <1>9, SlotFacts DEF Fork, NewProc, ProcOK, ProcRecord, HartOK, NoLockLeaks, SelectionStable, LockOK
<1>10. ASSUME NEW h \in Hart, NEW q \in Proc, NEW new \in NewPriority, set_priority(h, q, new) PROVE NoLockLeaks'
  BY <1>10, SlotFacts DEF set_priority, ProcOK, ProcRecord, HartOK, HartRecord, NoLockLeaks, SelectionStable, LockOK
<1>11. ASSUME Tick PROVE NoLockLeaks'
  BY <1>11, TickFacts DEF NoLockLeaks, SelectionStable, LockOK
<1> QED
  BY <1>1, <1>2, <1>3, <1>4, <1>5, <1>6, <1>7, <1>8, <1>9, <1>10, <1>11 DEF Next

-----------------------------------------------------------------------------
(* The theorem. *)

LEMMA InitIInv == Init => IInv
<1> SUFFICES ASSUME Init PROVE IInv
  OBVIOUS
<1>1. /\ proc = [p \in Proc |-> [NewProc(0) EXCEPT !.state = IF p = 1 THEN @ ELSE "UNUSED"]]
      /\ lock = [p \in Proc |-> Nobody] /\ hart = [h \in Hart |-> Start] /\ ticks = 0
  BY DEF Init
<1>2. NewProc(0) \in ProcRecord /\ NewProc(0).state = "RUNNABLE"
      /\ NewProc(0).last = 0 /\ NewProc(0).ctime = 0 /\ NewProc(0).rt = 0 /\ NewProc(0).st = 0
  BY PbsAssumption DEF NewProc, ProcRecord, States
<1>3. \A x \in States : /\ [NewProc(0) EXCEPT !.state = x] \in ProcRecord
                       /\ [NewProc(0) EXCEPT !.state = x].state = x
                       /\ [NewProc(0) EXCEPT !.state = x].last = 0
                       /\ [NewProc(0) EXCEPT !.state = x].ctime = 0
                       /\ [NewProc(0) EXCEPT !.state = x].rt = 0
                       /\ [NewProc(0) EXCEPT !.state = x].st = 0
  BY <1>2 DEF ProcRecord
<1>4. \A p \in Proc : proc[p] = [NewProc(0) EXCEPT !.state = IF p = 1 THEN "RUNNABLE" ELSE "UNUSED"]
  BY <1>1, <1>2
<1>5. \A p \in Proc : /\ proc[p] \in ProcRecord /\ proc[p].state # "RUNNING"
                     /\ proc[p].last = 0 /\ proc[p].ctime = 0 /\ proc[p].rt = 0 /\ proc[p].st = 0
  <2> TAKE p \in Proc
  <2>1. PICK x \in {"RUNNABLE", "UNUSED"} : proc[p] = [NewProc(0) EXCEPT !.state = x]
    BY <1>4
  <2> QED
    BY <1>3, <2>1 DEF States
<1>6. ProcOK /\ TickOK
  <2>1. proc = [p \in Proc |-> proc[p]]
    BY <1>1
  <2>2. ProcOK
    BY <1>5, <2>1 DEF ProcOK
  <2>3. ticks = 0 /\ 0 \in 0..MaxTicks
    BY <1>1, PbsAssumption
  <2>4. TickOK
    BY <1>5, <2>3 DEF TickOK
  <2> QED
    BY <2>2, <2>4
<1>7. LockOK /\ HartOK /\ NoLockLeaks
  BY <1>1, StartRecord DEF LockOK, HartOK, NoLockLeaks
<1>8. RunsSlot /\ SelectionStable /\ OneHart
  BY <1>1, <1>5 DEF Start, RunsSlot, SelectionStable, OneHart, Runs
<1> QED
  BY <1>6, <1>7, <1>8 DEF IInv

LEMMA NextIInv == ASSUME IInv, [Next]_vars PROVE IInv'
<1>1. CASE Next
  BY <1>1, ProcStep, LockStep, HartStep, RunsSlotStep, SelectionStep, OneHartStep, LeakStep DEF IInv
<1>2. CASE UNCHANGED vars
  BY <1>2 DEF vars, IInv, ProcOK, LockOK, HartOK, TickOK, RunsSlot, SelectionStable, OneHart, Runs, NoLockLeaks
<1> QED
  BY <1>1, <1>2

\* PBS is safe on any number of harts: it keeps the lock of its selection until the
\* switch, the selection stays RUNNABLE, a RUNNING process is on one hart, and each
\* lock is held for the selection of the hart that holds it.
THEOREM PbsSafety == Spec => []SafeSelection
<1>1. Init => IInv
  BY InitIInv
<1>2. IInv /\ [Next]_vars => IInv'
  BY NextIInv
<1>3. IInv => SafeSelection
  BY TypeParts DEF IInv, SafeSelection
<1> QED
  BY <1>1, <1>2, <1>3, PTL DEF Spec

=============================================================================
